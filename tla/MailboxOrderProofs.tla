-------------------------- MODULE MailboxOrderProofs --------------------------
(***************************************************************************)
(* No command overtakes another one for its endpoint, for every set of     *)
(* endpoints, frames and heap blocks and every window.  The history is     *)
(* carried by Mailbox's own steps, so the invariants proved of it hold.    *)
(*                                                                         *)
(* The argument: a frame that waits is in the handler of its own endpoint, *)
(* in the queue, about to be answered as replaced, or about to be sent;    *)
(* one that is ahead of another is either in a handler, or in the queue or *)
(* about to be answered while the other is still to be sent.  So when a    *)
(* handler runs on a frame, those ahead of it are in other handlers, and   *)
(* those are the handlers of other endpoints.                              *)
(***************************************************************************)
EXTENDS MailboxOrder, MailboxProofs

Carries(b, f) == contents[b] = f
InHandler(f)  == \E e \in Endpoints : epPc[e] = "handle" /\ Carries(epMessage[e], f)
InQueue(f)    == \/ slot # NoBlock /\ Carries(slot, f)
                 \/ wsPc = "answer" /\ Carries(prevMessage, f)
ToBeSent(f)   == WsBusy /\ Carries(pMessage, f)

\* The history names frames that wait, and never the frame itself.
AheadInv ==
  /\ ahead \in [Frames -> SUBSET Frames]
  /\ \A f \in Frames : ahead[f] \subseteq Waiting \ {f} /\ (ahead[f] # {} => f \in Waiting)

\* A message that passed the test of its id is for the endpoint that tested it.
Addressed ==
  \A e \in Endpoints : epPc[e] \in {"reset", "handle"} /\ contents[epMessage[e]] # Junk =>
    contents[epMessage[e]].endpointId = e

Precedes(g, f) == InHandler(g) \/ (ToBeSent(f) /\ InQueue(g))
Ordered == \A f \in Frames \ starved : \A g \in ahead[f] \ starved : Precedes(g, f)

\* A message is written only when its frame found memory.
Written == \A b \in live : contents[b] # Junk => contents[b] \notin starved

OrderInv == AheadInv /\ (~raced => Addressed /\ Ordered /\ Written)

-----------------------------------------------------------------------------
(* The history.                                                            *)

LEMMA OrderStep == [OrderNext]_orderVars => [Next]_vars
  BY DEF OrderNext, orderVars

\* What is proved of Mailbox holds with the history.
LEMMA OrderInvariance == OrderSpec => []IInv
<1>1. OrderInit => IInv
  BY InitIInv DEF OrderInit
<1> QED
  BY <1>1, OrderStep, NextKeepsIInv, PTL DEF OrderSpec

LEMMA WaitingArrived == ASSUME TypeOK PROVE Waiting \subseteq arrived /\ Waiting \subseteq Frames
  BY DEF TypeOK, Waiting, Outstanding

LEMMA TrackedAhead ==
  ASSUME TypeOK, AheadInv, Track, NEW f \in Frames, NEW g \in ahead'[f]
  PROVE  /\ f \in Waiting' /\ g \in Waiting'
         /\ f \in arrived => g \in ahead[f]
         /\ f \notin arrived => g \in Waiting
<1>1. ahead'[f] = IF f \notin Waiting' THEN {}
                  ELSE (IF f \in arrived THEN ahead[f] ELSE Waiting) \cap Waiting'
  BY DEF Track
<1> QED
  BY <1>1

LEMMA TrackKeepsAhead == ASSUME TypeOK, TypeOK', AheadInv, Track PROVE AheadInv'
<1>1. Waiting' \subseteq Frames
  BY DEF TypeOK, Waiting, Outstanding
<1>2. ahead' \in [Frames -> SUBSET Frames]
  BY <1>1 DEF Track, AheadInv
<1>3. ASSUME NEW f \in Frames PROVE ahead'[f] \subseteq Waiting' \ {f} /\ (ahead'[f] # {} => f \in Waiting')
  BY WaitingArrived, TrackedAhead DEF AheadInv
<1> QED
  BY <1>2, <1>3 DEF AheadInv

-----------------------------------------------------------------------------
(* Where the frames that wait are.                                         *)

LEMMA WaitingPlaces ==
  ASSUME IInv, ~raced, NEW g \in Waiting \ starved
  PROVE  InHandler(g) \/ InQueue(g) \/ ToBeSent(g)
<1>1. g \in Frames /\ replies[g] = <<>> /\ handled[g] = 0
  BY WaitingArrived DEF IInv, Waiting, Outstanding
<1>2. g # Junk
  BY <1>1, SentinelAssumption
<1>3. PICK b \in live : contents[b] = g
  BY DEF IInv, Ledger, FrameLog, Waiting
<1>4. CASE b = slot
  <2>1. slot # NoBlock
    BY <1>4, SentinelAssumption DEF IInv, TypeOK
  <2> QED
    BY <1>3, <1>4, <2>1 DEF InQueue, Carries
<1>5. CASE WsBusy /\ b = pMessage
  BY <1>3, <1>5 DEF ToBeSent, Carries
<1>6. CASE WsReplaces /\ b = prevMessage
  <2>1. wsPc # "free"
    BY <1>1, <1>3, <1>6, ReplyNotEmpty DEF IInv, Ledger, WsLedger, AnsweredWith
  <2> QED
    BY <1>3, <1>6, <2>1 DEF WsReplaces, InQueue, Carries
<1>7. ASSUME NEW e \in Endpoints, EpBusy(e), b = epMessage[e] PROVE InHandler(g)
  <2>1. epPc[e] # "answer"
    BY <1>1, <1>2, <1>3, <1>7 DEF IInv, Ledger, EpLedger, HandledOnly
  <2>2. epPc[e] # "free"
    BY <1>1, <1>3, <1>7, ReplyNotEmpty DEF IInv, Ledger, EpLedger, AnsweredWith
  <2> QED
    BY <1>3, <1>7, <2>1, <2>2 DEF EpBusy, InHandler, Carries
<1> QED
  BY <1>4, <1>5, <1>6, <1>7 DEF IInv, Custody, NoOrphan

-----------------------------------------------------------------------------
(* Each step keeps the order.                                              *)

\* A frame arrives when no other is to be sent: those that wait are in the queue or in
\* a handler.
LEMMA ReceiveKeepsOrder ==
  ASSUME IInv, OrderInv, ~raced, NEW h \in Frames, Receive(h), Track
  PROVE  Addressed' /\ Ordered'
<1> USE DEF Carries, InHandler, InQueue, ToBeSent, Precedes, WsBusy
<1>1. /\ wsPc = "idle" /\ h \notin arrived
      /\ arrived' = arrived \cup {h}
      /\ UNCHANGED <<slot, prevMessage, epPc, epMessage>>
  BY DEF Receive, Parse, ParseCloneFails, ParseMallocFails, Arrive, wsVars, epVars
<1>2. \A b \in live : contents'[b] = contents[b]
  BY DEF Receive, Parse, ParseCloneFails, ParseMallocFails, heapVars, IInv, TypeOK
<1>3. /\ slot # NoBlock => slot \in live
      /\ \A e \in Endpoints : epPc[e] \in {"reset", "handle"} => epMessage[e] \in live
  BY DEF IInv, Custody, QueueCustody, EpCustody, PeekCustody, EpBusy, EpPeeks
<1>4. Addressed'
  BY <1>1, <1>2, <1>3 DEF OrderInv, Addressed
<1>5. \A g : InHandler(g) => InHandler(g)'
  BY <1>1, <1>2, <1>3
<1>6. \A g : InQueue(g) => InQueue(g)'
  BY <1>1, <1>2, <1>3
<1>7. starved \subseteq starved'
  BY DEF Receive, Parse, ParseCloneFails, ParseMallocFails, srvVars
<1>8. ASSUME NEW f \in Frames \ starved', NEW g \in ahead'[f] \ starved'
      PROVE  Precedes(g, f)'
  <2>1. f \in arrived => g \in ahead[f] \ starved
    BY <1>7, TrackedAhead DEF IInv, OrderInv
  <2>2. CASE f \in arrived
    <3>1. Precedes(g, f)
      BY <1>7, <2>1, <2>2 DEF OrderInv, Ordered
    <3> QED
      BY <1>1, <1>5, <3>1
  <2>3. CASE f \notin arrived
    <3>1. f \in Waiting' /\ g \in Waiting \ starved
      BY <1>7, <2>3, TrackedAhead DEF IInv, OrderInv
    <3>2. f = h
      BY <1>1, <2>3, <3>1, NextKeepsType, WaitingArrived DEF IInv, TypeOK, Waiting, Outstanding,
         Receive, Parse, ParseCloneFails, ParseMallocFails, Arrive
    <3>3. Parse(h)
      BY <1>8, <3>1, <3>2 DEF Receive, ParseCloneFails, ParseMallocFails
    <3>4. ToBeSent(f)'
      BY <3>2, <3>3 DEF Parse, IInv, TypeOK
    <3>5. InHandler(g) \/ InQueue(g)
      BY <1>1, <3>1, WaitingPlaces
    <3> QED
      BY <1>5, <1>6, <3>4, <3>5
  <2> QED
    BY <2>2, <2>3
<1> QED
  BY <1>4, <1>8 DEF Ordered

\* No other step lets a frame arrive.
LEMMA OrderIsKept ==
  ASSUME TypeOK, TypeOK', OrderInv, ~raced, Track, UNCHANGED <<arrived, starved>>,
         \A f \in Frames \ starved : \A g \in Waiting' \ starved : Precedes(g, f) => Precedes(g, f)'
  PROVE  Ordered'
<1> SUFFICES ASSUME NEW f \in Frames \ starved', NEW g \in ahead'[f] \ starved'
             PROVE  Precedes(g, f)'
  BY DEF Ordered
<1>1. f \in Waiting' /\ f \in arrived
  BY TrackedAhead DEF OrderInv, Waiting, Outstanding, TypeOK
<1>2. g \in ahead[f] \ starved /\ g \in Waiting'
  BY <1>1, TrackedAhead DEF OrderInv
<1> QED
  BY <1>2 DEF OrderInv, Ordered

\* The message to be sent enters the queue when nothing is before it but what is in a
\* handler; the one it replaces leaves the queue for its answer.
LEMMA WebsocketKeepsOrder ==
  ASSUME IInv, IInv', OrderInv, ~raced, WebsocketTask, Track
  PROVE  Addressed' /\ Ordered'
<1> USE DEF Carries, InHandler, InQueue, ToBeSent, Precedes, WsBusy
<1>1. UNCHANGED <<contents, pMessage, epPc, epMessage, inflight, arrived, starved, handled>>
  BY DEF WebsocketTask, CheckWaiting, TakePrevious, TakeNothing, AnswerPrevious, FreePrevious,
         QueueSend, heapVars, epVars, srvVars, logVars
<1>2. Addressed'
  BY <1>1 DEF OrderInv, Addressed
<1>3. ASSUME NEW f \in Frames \ starved, NEW g \in Waiting' \ starved, Precedes(g, f)
      PROVE  Precedes(g, f)'
  <2>1. CASE InHandler(g)
    BY <1>1, <2>1
  <2>2. CASE ToBeSent(f) /\ InQueue(g)
    <3>1. CASE CheckWaiting \/ TakePrevious \/ TakeNothing
      BY <1>1, <2>2, <3>1 DEF CheckWaiting, TakePrevious, TakeNothing
    <3>2. CASE AnswerPrevious
      <4>1. slot = NoBlock /\ wsPc = "answer"
        BY <3>2 DEF AnswerPrevious, IInv, SendInv
      <4>2. g = contents[prevMessage]
        BY <2>2, <4>1
      <4>3. replies'[g] # <<>>
        BY <3>2, <4>2 DEF AnswerPrevious, OnRecieve, SendStatus, IInv, TypeOK, Pointer
      <4> QED
        BY <1>3, <4>3 DEF Waiting, Outstanding
    <3>3. CASE FreePrevious \/ QueueSend
      BY <2>2, <3>3 DEF FreePrevious, QueueSend, IInv, SendInv
    <3> QED
      BY <3>1, <3>2, <3>3 DEF WebsocketTask
  <2> QED
    BY <1>3, <2>1, <2>2
<1>4. Ordered'
  BY <1>1, <1>3, OrderIsKept DEF IInv
<1> QED
  BY <1>2, <1>4

\* An endpoint takes the message it has peeked and found to be its own from the queue
\* into its handler.
LEMMA EndpointKeepsOrder ==
  ASSUME IInv, IInv', OrderInv, ~raced, NEW e \in Endpoints, EndpointTask(e), Track
  PROVE  Addressed' /\ Ordered'
<1> USE DEF Carries, InHandler, InQueue, ToBeSent, Precedes, WsBusy
<1>1. /\ UNCHANGED <<contents, wsPc, pMessage, prevMessage, inflight, arrived, starved>>
      /\ \A d \in Endpoints \ {e} : epPc'[d] = epPc[d] /\ epMessage'[d] = epMessage[d]
  BY DEF EndpointTask, Poll, Peek, Match, QueueReset, Handle, Answer, FreeHandled, EpGoto,
         heapVars, wsVars, srvVars, IInv, TypeOK
<1>2. \/ epPc'[e] \notin {"reset", "handle"}
      \/ Match(e) /\ epPc'[e] = "reset"
      \/ QueueReset(e) /\ epPc'[e] = "handle"
  BY DEF EndpointTask, Poll, Peek, Match, QueueReset, Handle, Answer, FreeHandled, EpGoto,
         IInv, TypeOK
<1>3. Addressed'
  <2>1. ASSUME epPc'[e] \in {"reset", "handle"}, contents[epMessage[e]] # Junk
        PROVE  epMessage'[e] = epMessage[e] /\ contents[epMessage[e]].endpointId = e
    <3>1. CASE Match(e)
      <4>1. epMessage'[e] = epMessage[e]
        BY <3>1 DEF Match
      <4>2. PICK same \in {contents[epMessage[e]].endpointId = e} :
              epPc' = [epPc EXCEPT ![e] = IF same THEN "reset" ELSE "poll"]
        BY <2>1, <3>1 DEF Match, EpGoto
      <4>3. epPc'[e] = IF same THEN "reset" ELSE "poll"
        BY <4>2 DEF IInv, TypeOK
      <4>4. same
        BY <2>1, <4>3
      <4> QED
        BY <4>1, <4>2, <4>4
    <3>2. CASE QueueReset(e)
      BY <2>1, <3>2 DEF QueueReset, OrderInv, Addressed
    <3> QED
      BY <1>2, <2>1, <3>1, <3>2
  <2>2. ASSUME NEW d \in Endpoints, epPc'[d] \in {"reset", "handle"}, contents'[epMessage'[d]] # Junk
        PROVE  contents'[epMessage'[d]].endpointId = d
    <3>1. CASE d = e
      <4>1. epMessage'[e] = epMessage[e]
        BY <1>2, <2>2, <3>1 DEF Match, QueueReset
      <4> QED
        BY <1>1, <2>1, <2>2, <3>1, <4>1
    <3>2. CASE d # e
      BY <1>1, <2>2, <3>2 DEF OrderInv, Addressed
    <3> QED
      BY <3>1, <3>2
  <2> QED
    BY <2>2 DEF Addressed
<1>4. ASSUME NEW g \in Waiting' \ starved, InHandler(g) PROVE InHandler(g)'
  <2>1. PICK d \in Endpoints : epPc[d] = "handle" /\ contents[epMessage[d]] = g
    BY <1>4
  <2>2. CASE d # e
    BY <1>1, <2>1, <2>2
  <2>3. CASE d = e
    <3>1. Handle(e)
      BY <2>1, <2>3 DEF EndpointTask, Poll, Peek, Match, QueueReset, Answer, FreeHandled
    <3>2. g \in Frames
      BY <1>4 DEF IInv, TypeOK, Waiting, Outstanding
    <3>3. handled[g] \in Nat /\ handled' = [handled EXCEPT ![g] = @ + 1]
      BY <2>1, <2>3, <3>1, <3>2, SentinelAssumption DEF Handle, IInv, TypeOK
    <3>4. handled'[g] # 0
      BY <3>2, <3>3 DEF IInv, TypeOK
    <3> QED
      BY <1>4, <3>4 DEF Waiting
  <2> QED
    BY <2>2, <2>3
<1>5. ASSUME NEW g, InQueue(g) PROVE InHandler(g)' \/ InQueue(g)'
  <2>1. CASE QueueReset(e)
    <3>1. /\ epMessage[e] = slot /\ epPc'[e] = "handle" /\ UNCHANGED epMessage
      BY <2>1 DEF QueueReset, EpGoto, IInv, TypeOK, Custody, PeekCustody, EpPeeks
    <3>2. slot # NoBlock => wsPc # "answer"
      BY DEF IInv, SendInv
    <3> QED
      BY <1>1, <1>5, <3>1, <3>2, SMTT(30)
  <2>2. CASE ~QueueReset(e)
    <3>1. slot' = slot
      BY <2>2 DEF EndpointTask, Poll, Peek, Match, Handle, Answer, FreeHandled
    <3> QED
      BY <1>1, <1>5, <3>1
  <2> QED
    BY <2>1, <2>2
<1>6. Ordered'
  <2>1. ASSUME NEW f \in Frames \ starved, NEW g \in Waiting' \ starved, Precedes(g, f)
        PROVE  Precedes(g, f)'
    BY <1>1, <1>4, <1>5, <2>1
  <2> QED
    BY <1>1, <2>1, OrderIsKept DEF IInv
<1> QED
  BY <1>3, <1>6

-----------------------------------------------------------------------------
(* The inductive invariant and the property.                               *)

LEMMA NextKeepsWritten == ASSUME IInv, ~raced, Written, Next PROVE Written'
<1> USE DEF Written
<1>1. ASSUME NEW f \in Frames, Receive(f) PROVE Written'
  <2>1. f \notin arrived /\ starved \subseteq arrived /\ f # Junk
    BY <1>1, SentinelAssumption DEF Receive, Parse, ParseCloneFails, ParseMallocFails, Arrive, IInv, TypeOK
  <2>2. \A b \in live : contents[b] # Junk => contents[b] # f
    BY <2>1 DEF IInv, Ledger, LiveFrames
  <2>3. CASE Parse(f)
    BY <2>1, <2>3 DEF Parse, IInv, TypeOK
  <2>4. CASE ParseCloneFails(f)
    BY <2>2, <2>4 DEF ParseCloneFails, IInv, TypeOK
  <2>5. CASE ParseMallocFails(f)
    BY <2>2, <2>5 DEF ParseMallocFails, heapVars
  <2> QED
    BY <1>1, <2>3, <2>4, <2>5 DEF Receive
<1>2. CASE WebsocketTask
  BY <1>2 DEF WebsocketTask, CheckWaiting, TakePrevious, TakeNothing, AnswerPrevious, FreePrevious,
     Free, QueueSend, heapVars, srvVars
<1>3. ASSUME NEW e \in Endpoints, EndpointTask(e) PROVE Written'
  BY <1>3 DEF EndpointTask, Poll, Peek, Match, QueueReset, Handle, Answer, FreeHandled, Free,
     heapVars, srvVars
<1>4. CASE Fault
  BY <1>4 DEF Fault, heapVars, srvVars
<1>5. CASE Reboot
  BY <1>5 DEF Reboot
<1> QED
  BY <1>1, <1>2, <1>3, <1>4, <1>5 DEF Next

LEMMA NextKeepsOrder == ASSUME IInv, OrderInv, OrderNext PROVE OrderInv'
<1>1. IInv' /\ Next /\ Track
  BY NextKeepsIInv DEF OrderNext
<1>2. AheadInv'
  BY <1>1, TrackKeepsAhead DEF IInv, OrderInv
<1>3. ASSUME ~raced' PROVE Addressed' /\ Ordered' /\ Written'
  <2>1. ~raced
    BY <1>1, <1>3, Zenon
    DEF Next, Receive, Parse, ParseCloneFails, ParseMallocFails, WebsocketTask, CheckWaiting,
        TakePrevious, TakeNothing, AnswerPrevious, FreePrevious, QueueSend, EndpointTask, Poll, Peek,
        Match, QueueReset, Handle, Answer, FreeHandled, Fault, Reboot
  <2>2. Written'
    BY <1>1, <2>1, NextKeepsWritten DEF OrderInv
  <2>3. CASE Fault
    <3>1. UNCHANGED <<slot, live, contents, wsPc, pMessage, prevMessage, epPc, epMessage, inflight,
                      arrived, starved, replies, handled>>
      BY <2>3 DEF Fault, heapVars, wsVars, epVars, srvVars, logVars
    <3>2. Addressed'
      BY <2>1, <3>1 DEF OrderInv, Addressed
    <3>3. \A f, g : Precedes(g, f) => Precedes(g, f)'
      BY <3>1 DEF Precedes, ToBeSent, InQueue, InHandler, Carries, WsBusy
    <3>4. Ordered'
      BY <1>1, <2>1, <3>1, <3>3, OrderIsKept DEF IInv
    <3> QED
      BY <2>2, <3>2, <3>4
  <2>4. CASE Reboot
    <3>1. Waiting' = {}
      BY <2>4 DEF Reboot, Waiting, Outstanding
    <3>2. Ordered'
      BY <1>2, <3>1 DEF AheadInv, Ordered
    <3>3. Addressed'
      BY <2>4 DEF Reboot, Addressed
    <3> QED
      BY <2>2, <3>2, <3>3
  <2> QED
    BY <1>1, <2>1, <2>2, <2>3, <2>4, ReceiveKeepsOrder, WebsocketKeepsOrder, EndpointKeepsOrder
    DEF Next
<1> QED
  BY <1>2, <1>3 DEF OrderInv

LEMMA OrderInvariant == OrderSpec => []OrderInv
<1>1. OrderInit => OrderInv
  BY DEF OrderInit, Init, OrderInv, AheadInv, Addressed, Ordered, Written
<1>2. IInv /\ OrderInv /\ [OrderNext]_orderVars => OrderInv'
  <2>1. ASSUME OrderInv, UNCHANGED orderVars PROVE OrderInv'
    <3>1. Waiting' = Waiting /\ ahead' = ahead
      BY <2>1 DEF orderVars, vars, srvVars, logVars, Waiting, Outstanding
    <3>2. AheadInv'
      BY <2>1, <3>1 DEF OrderInv, AheadInv
    <3>3. ~raced' => Addressed' /\ Ordered' /\ Written'
      BY <2>1, Zenon DEF orderVars, vars, heapVars, wsVars, epVars, srvVars, logVars, OrderInv,
         Addressed, Ordered, Written, Precedes, ToBeSent, InQueue, InHandler, Carries, WsBusy
    <3> QED
      BY <3>2, <3>3 DEF OrderInv
  <2> QED
    BY <2>1, NextKeepsOrder
<1> QED
  BY <1>1, <1>2, OrderInvariance, PTL DEF OrderSpec

\* The handler runs on a message that passed the test of its id, in its turn.
LEMMA HandledInTurn ==
  ASSUME IInv, OrderInv, ~raced, NEW e \in Endpoints, Handle(e), contents[epMessage[e]] # Junk,
         contents[epMessage[e]] \in Frames \ starved
  PROVE  /\ contents[epMessage[e]].endpointId = e
         /\ \A g \in ahead[contents[epMessage[e]]] \ starved : g.endpointId # e
<1> DEFINE f == contents[epMessage[e]]
<1>1. epPc[e] = "handle" /\ epMessage[e] \in live
  BY DEF Handle, IInv, Custody, EpCustody, EpBusy
<1>2. f.endpointId = e
  BY <1>1 DEF OrderInv, Addressed
<1>3. ASSUME NEW g \in ahead[f] \ starved PROVE g.endpointId # e
  <2>1. ~ToBeSent(f)
    BY <1>1 DEF ToBeSent, Carries, WsBusy, IInv, Custody, WsCustody, EpCustody, EpBusy, Ledger,
       LiveFrames
  <2>2. PICK d \in Endpoints : epPc[d] = "handle" /\ contents[epMessage[d]] = g
    BY <2>1 DEF OrderInv, Ordered, Precedes, InHandler, Carries
  <2>3. g # f /\ g # Junk
    BY WaitingArrived, SentinelAssumption DEF IInv, OrderInv, AheadInv
  <2>4. g.endpointId = d
    BY <2>2, <2>3 DEF OrderInv, Addressed
  <2> QED
    BY <1>1, <2>2, <2>3, <2>4
<1> QED
  BY <1>2, <1>3

\* mailbox.c:9-19 and communication.task.c:77-100: a handler runs on a command only when no
\* older command for its endpoint is left.
THEOREM CommandsInOrder == OrderSpec => HandledInOrder
<1> DEFINE NoOvertaking ==
      \A f \in Frames : handled'[f] # handled[f] /\ ~raced =>
        \A g \in ahead[f] \ starved : g.endpointId # f.endpointId
<1>1. IInv /\ OrderInv /\ [OrderNext]_orderVars => [NoOvertaking]_orderVars
  <2> SUFFICES ASSUME IInv, OrderInv, Next, ~raced,
                      NEW f \in Frames, handled'[f] # handled[f],
                      NEW g \in ahead[f] \ starved
               PROVE  g.endpointId # f.endpointId
    BY DEF OrderNext
  <2>1. PICK e \in Endpoints : Handle(e)
    BY Zenon DEF Next, Receive, Parse, ParseCloneFails, ParseMallocFails, WebsocketTask, CheckWaiting,
        TakePrevious, TakeNothing, AnswerPrevious, FreePrevious, QueueSend, EndpointTask, Poll, Peek,
        Match, QueueReset, Answer, FreeHandled, Fault, Reboot, logVars
  <2>2. epPc[e] = "handle" /\ contents[epMessage[e]] = f
    BY <2>1 DEF Handle, IInv, TypeOK
  <2>3. f # Junk /\ f \notin starved
    BY <2>2, SentinelAssumption DEF IInv, Custody, EpCustody, EpBusy, OrderInv, Written
  <2> QED
    BY <2>1, <2>2, <2>3, HandledInTurn
<1>2. [][NoOvertaking]_orderVars => HandledInOrder
  BY DEF HandledInOrder
<1> QED
  BY <1>1, <1>2, OrderInvariance, OrderInvariant, PTL DEF OrderSpec

-----------------------------------------------------------------------------
(* Delivery.                                                               *)

\* The frames parseMessage found no memory for the body of.
Broken == Outstanding \cap starved

\* The message in the queue and the one to be answered as replaced.
Pending == ({slot} \ {NoBlock}) \cup (IF wsPc = "answer" THEN {prevMessage} ELSE {})

\* Nobody knows which frame a Junk message stands for, but some frame it does stand for:
\* one that no task will ever handle or answer.
BrokenInv ==
  /\ \A b \in live : IF contents[b] = Junk THEN Broken # {} ELSE contents[b] \in inflight
  /\ ~up => Broken # {}
  /\ \A f \in starved : handled[f] = 0

\* The frame to be sent arrived after those that are in the queue or to be answered.
Behind(g) ==
  /\ g \in Waiting
  /\ contents[pMessage] = g \/ g \in starved
  /\ \A b \in Pending :
       IF contents[b] = Junk THEN ahead[g] \cap starved # {} ELSE contents[b] \in ahead[g]

DeliveryInv == ~raced => BrokenInv /\ (WsBusy => \E g \in Frames : Behind(g))

\* A step that runs a handler or sends a status is about the frame of the message it holds.
LEMMA TouchesItsOwn ==
  ASSUME IInv, OrderInv, ~raced, WebsocketTask \/ \E e \in Endpoints : EndpointTask(e)
  PROVE  \A f \in Frames :
           replies'[f] # replies[f] \/ handled'[f] # handled[f] =>
             \E b \in live : /\ contents[b] = f /\ f \notin starved
                             /\ b # slot /\ (WsBusy => b # pMessage)
                             /\ (WsReplaces /\ b = prevMessage => AnswerPrevious)
<1> SUFFICES ASSUME NEW f \in Frames, replies'[f] # replies[f] \/ handled'[f] # handled[f]
             PROVE  \E b \in live : /\ contents[b] = f /\ f \notin starved
                                    /\ b # slot /\ (WsBusy => b # pMessage)
                                    /\ (WsReplaces /\ b = prevMessage => AnswerPrevious)
  OBVIOUS
<1>1. f # Junk
  BY SentinelAssumption
<1>2. CASE AnswerPrevious
  <2>1. contents[prevMessage] = f /\ wsPc = "answer"
    BY <1>2 DEF AnswerPrevious, OnRecieve, SendStatus, IInv, TypeOK
  <2>2. prevMessage \in live /\ prevMessage # slot /\ prevMessage # pMessage
    BY <2>1 DEF IInv, Custody, WsCustody, WsReplaces
  <2> QED
    BY <1>1, <1>2, <2>1, <2>2 DEF OrderInv, Written
<1>3. ASSUME NEW e \in Endpoints, Handle(e) \/ Answer(e)
      PROVE  contents[epMessage[e]] = f /\ EpBusy(e)
  BY <1>3 DEF Handle, Answer, OnRecieve, SendStatus, EpBusy, IInv, TypeOK
<1>4. ASSUME NEW e \in Endpoints, Handle(e) \/ Answer(e)
      PROVE  \E b \in live : /\ contents[b] = f /\ f \notin starved
                             /\ b # slot /\ (WsBusy => b # pMessage)
                             /\ (WsReplaces /\ b = prevMessage => AnswerPrevious)
  BY <1>1, <1>3, <1>4 DEF IInv, Custody, EpCustody, OrderInv, Written
<1> QED
  BY <1>2, <1>4, Zenon DEF WebsocketTask, CheckWaiting, TakePrevious, TakeNothing, FreePrevious, QueueSend,
     EndpointTask, Poll, Peek, Match, QueueReset, FreeHandled, logVars

\* Until the reboot it causes, a frame without its body stays as it is.
LEMMA BrokenStays ==
  ASSUME IInv, OrderInv, ~raced, Next, ~Reboot
  PROVE  Broken \subseteq Broken' /\ \A f \in starved : handled[f] = 0 => handled'[f] = 0
<1>1. ASSUME NEW h \in Frames, Receive(h)
      PROVE  Broken \subseteq Broken' /\ handled' = handled
  <2>1. /\ inflight \subseteq inflight' /\ starved \subseteq starved' /\ h \notin starved
        /\ \A f \in Frames \ {h} : replies'[f] = replies[f]
        /\ handled' = handled
    BY <1>1 DEF Receive, Parse, ParseCloneFails, ParseMallocFails, Arrive, SendStatus, logVars,
       IInv, TypeOK
  <2> QED
    BY <2>1 DEF Broken, Outstanding, IInv, TypeOK
<1>2. CASE WebsocketTask \/ \E e \in Endpoints : EndpointTask(e)
  <2>1. UNCHANGED <<inflight, starved>>
    BY <1>2 DEF WebsocketTask, CheckWaiting, TakePrevious, TakeNothing, AnswerPrevious, FreePrevious,
       QueueSend, EndpointTask, Poll, Peek, Match, QueueReset, Handle, Answer, FreeHandled, srvVars
  <2>2. \A f \in starved : replies'[f] = replies[f] /\ handled'[f] = handled[f]
    BY <1>2, TouchesItsOwn DEF IInv, TypeOK
  <2> QED
    BY <2>1, <2>2 DEF Broken, Outstanding
<1>3. CASE Fault
  BY <1>3 DEF Fault, Broken, Outstanding, srvVars, logVars
<1> QED
  BY <1>1, <1>2, <1>3 DEF Next

LEMMA NextKeepsBroken ==
  ASSUME IInv, IInv', OrderInv, ~raced, BrokenInv, Next
  PROVE  BrokenInv'
<1>1. CASE Reboot
  BY <1>1 DEF Reboot, BrokenInv, logVars
<1>2. ASSUME ~Reboot, NEW h \in Frames, Receive(h) PROVE BrokenInv'
  <2>1. Broken \subseteq Broken' /\ \A f \in starved : handled'[f] = 0
    BY <1>2, BrokenStays DEF Next, BrokenInv
  <2>2. h \notin arrived /\ replies[h] = <<>> /\ handled[h] = 0 /\ inflight' = inflight \cup {h}
        /\ h # Junk /\ up /\ up' = up
    BY <1>2, SentinelAssumption
    DEF Receive, Parse, ParseCloneFails, ParseMallocFails, Arrive, IInv, Ledger, FrameLog
  <2>3. CASE Parse(h)
    BY <2>1, <2>2, <2>3 DEF Parse, BrokenInv, IInv, TypeOK
  <2>4. CASE ParseCloneFails(h)
    <3>1. h \in Broken' /\ handled'[h] = 0
      BY <2>2, <2>4 DEF ParseCloneFails, Broken, Outstanding, logVars
    <3> QED
      BY <2>1, <2>2, <2>4, <3>1 DEF ParseCloneFails, BrokenInv, IInv, TypeOK
  <2>5. CASE ParseMallocFails(h)
    BY <2>1, <2>2, <2>5 DEF ParseMallocFails, BrokenInv, heapVars
  <2> QED
    BY <1>2, <2>3, <2>4, <2>5 DEF Receive
<1>3. ASSUME ~Reboot, WebsocketTask \/ \E e \in Endpoints : EndpointTask(e) PROVE BrokenInv'
  <2>1. UNCHANGED <<contents, inflight, starved, up>> /\ live' \subseteq live
    BY <1>3 DEF WebsocketTask, CheckWaiting, TakePrevious, TakeNothing, AnswerPrevious, FreePrevious,
       QueueSend, EndpointTask, Poll, Peek, Match, QueueReset, Handle, Answer, FreeHandled, srvVars,
       heapVars, Free
  <2>2. Broken \subseteq Broken' /\ \A f \in starved : handled'[f] = 0
    BY <1>3, BrokenStays DEF Next, BrokenInv
  <2> QED
    BY <2>1, <2>2 DEF BrokenInv
<1>4. ASSUME ~Reboot, Fault PROVE BrokenInv'
  <2>1. PICK b \in Blocks : b \in live /\ contents[b] = Junk
    BY <1>4 DEF IInv, TypeOK, Pointer, Fault, Called, Freed, Custody, WsCustody, EpCustody,
       WsReplaces, EpBusy
  <2>2. UNCHANGED <<live, contents, inflight, starved, replies, handled>>
    BY <1>4 DEF Fault, heapVars, srvVars, logVars
  <2> QED
    BY <2>1, <2>2 DEF BrokenInv, Broken, Outstanding
<1> QED
  BY <1>1, <1>2, <1>3, <1>4 DEF Next

\* A message that waits stands for a frame that waits.
LEMMA PendingWaits ==
  ASSUME IInv, OrderInv, ~raced, BrokenInv, NEW b \in Pending
  PROVE  /\ b \in live
         /\ contents[b] = Junk => Broken # {}
         /\ contents[b] # Junk => contents[b] \in Waiting \ starved
<1>1. b \in live /\ Untouched(b)
  BY DEF Pending, IInv, Custody, QueueCustody, WsCustody, WsReplaces, Ledger, WsLedger
<1> QED
  BY <1>1 DEF BrokenInv, Untouched, Waiting, Outstanding, OrderInv, Written

LEMMA BrokenWaits == ASSUME BrokenInv PROVE Broken = Waiting \cap starved
  BY DEF BrokenInv, Broken, Waiting

\* A frame that is to be sent stays behind what waits: those steps that touch a frame
\* touch neither.
LEMMA WaitingStays ==
  ASSUME IInv, OrderInv, ~raced, WebsocketTask \/ \E e \in Endpoints : EndpointTask(e),
         NEW f \in Waiting,
         \/ f \in starved
         \/ WsBusy /\ contents[pMessage] = f
         \/ \E b \in Pending' \cap Pending : contents[b] = f
  PROVE  f \in Waiting'
<1>1. UNCHANGED inflight
  BY DEF WebsocketTask, CheckWaiting, TakePrevious, TakeNothing, AnswerPrevious, FreePrevious,
     QueueSend, EndpointTask, Poll, Peek, Match, QueueReset, Handle, Answer, FreeHandled, srvVars
<1>2. f \in Frames /\ f # Junk
  BY WaitingArrived, SentinelAssumption DEF IInv
<1>3. ASSUME replies'[f] # replies[f] \/ handled'[f] # handled[f] PROVE FALSE
  <2>1. PICK c \in live : /\ contents[c] = f /\ f \notin starved
                          /\ c # slot /\ (WsBusy => c # pMessage)
                          /\ (WsReplaces /\ c = prevMessage => AnswerPrevious)
    BY <1>2, <1>3, TouchesItsOwn
  <2>2. CASE WsBusy /\ contents[pMessage] = f
    BY <1>2, <2>1, <2>2 DEF IInv, Custody, WsCustody, Ledger, LiveFrames
  <2>3. ASSUME NEW b \in Pending' \cap Pending, contents[b] = f PROVE FALSE
    <3>1. b \in live /\ b = c
      BY <1>2, <2>1, <2>3 DEF Pending, IInv, Custody, QueueCustody, WsCustody, WsReplaces, Ledger,
         LiveFrames
    <3>2. wsPc = "answer" /\ c = prevMessage
      BY <2>1, <3>1 DEF Pending
    <3>3. AnswerPrevious
      BY <2>1, <3>2 DEF WsReplaces
    <3>4. Pending' = {}
      BY <3>3 DEF AnswerPrevious, IInv, SendInv, Pending
    <3> QED
      BY <3>4
  <2> QED
    BY <2>1, <2>2, <2>3
<1> QED
  BY <1>1, <1>3 DEF Waiting, Outstanding

LEMMA BehindIsKept ==
  ASSUME IInv, OrderInv, ~raced, BrokenInv, WebsocketTask \/ \E e \in Endpoints : EndpointTask(e),
         Track, NEW g \in Frames, Behind(g), WsBusy, WsBusy'
  PROVE  Behind(g)'
<1>1. UNCHANGED <<contents, pMessage, arrived, starved>>
  BY DEF WebsocketTask, CheckWaiting, TakePrevious, TakeNothing, AnswerPrevious, FreePrevious,
     QueueSend, EndpointTask, Poll, Peek, Match, QueueReset, Handle, Answer, FreeHandled, srvVars,
     heapVars, wsVars
<1>2. Pending' \subseteq Pending
  BY DEF WebsocketTask, CheckWaiting, TakePrevious, TakeNothing, AnswerPrevious, FreePrevious,
     QueueSend, EndpointTask, Poll, Peek, Match, QueueReset, Handle, Answer, FreeHandled,
     wsVars, Pending, WsBusy
<1>3. g \in Waiting'
  BY WaitingStays DEF Behind
<1>4. ahead'[g] = ahead[g] \cap Waiting'
  BY <1>3, WaitingArrived DEF Track, Behind, IInv
<1>5. ASSUME NEW b \in Pending'
      PROVE  IF contents[b] = Junk THEN ahead'[g] \cap starved # {} ELSE contents[b] \in ahead'[g]
  <2>1. CASE contents[b] = Junk
    <3>1. PICK f \in ahead[g] : f \in starved
      BY <1>2, <2>1 DEF Behind
    <3>2. f \in Waiting'
      BY <3>1, WaitingStays DEF OrderInv, AheadInv
    <3> QED
      BY <1>4, <2>1, <3>1, <3>2
  <2>2. CASE contents[b] # Junk
    <3>1. contents[b] \in ahead[g]
      BY <1>2, <2>2 DEF Behind
    <3>2. contents[b] \in Waiting'
      BY <1>2, <3>1, WaitingStays DEF OrderInv, AheadInv
    <3> QED
      BY <1>4, <2>2, <3>1, <3>2
  <2> QED
    BY <2>1, <2>2
<1> QED
  BY <1>1, <1>3, <1>5 DEF Behind

LEMMA ArrivesBehind ==
  ASSUME IInv, IInv', OrderInv, ~raced, BrokenInv, NEW h \in Frames, Receive(h), Track, WsBusy'
  PROVE  Behind(h)'
<1>1. wsPc = "idle" /\ h \notin arrived /\ UNCHANGED slot
  BY DEF Receive, Parse, ParseCloneFails, ParseMallocFails, Arrive
<1>2. PICK c \in Blocks \ live :
        /\ pMessage' = c /\ wsPc' = "check"
        /\ \/ contents' = [contents EXCEPT ![c] = h]
           \/ contents' = [contents EXCEPT ![c] = Junk] /\ starved' = starved \cup {h}
  BY <1>1 DEF Receive, Parse, ParseCloneFails, ParseMallocFails, wsVars, WsBusy
<1>3. /\ inflight' = inflight \cup {h} /\ UNCHANGED <<replies, handled>>
      /\ starved \subseteq starved'
  BY <1>2, <1>1 DEF Receive, Parse, ParseCloneFails, ParseMallocFails, Arrive, logVars, wsVars
<1>4. h \in Waiting' /\ Waiting \subseteq Waiting'
  BY <1>1, <1>3 DEF IInv, Ledger, FrameLog, Waiting, Outstanding
<1>5. contents'[pMessage'] = h \/ h \in starved'
  BY <1>2 DEF IInv, TypeOK
<1>6. ahead'[h] = Waiting
  BY <1>1, <1>4 DEF Track
<1>7. Pending' = Pending
  BY <1>1, <1>2 DEF Pending
<1>8. ASSUME NEW b \in Pending
      PROVE  IF contents'[b] = Junk THEN ahead'[h] \cap starved' # {} ELSE contents'[b] \in ahead'[h]
  <2>1. b \in live
    BY PendingWaits
  <2>2. contents'[b] = contents[b]
    BY <1>2, <2>1 DEF IInv, TypeOK
  <2> QED
    BY <1>3, <1>6, <2>2, PendingWaits, BrokenWaits
<1> QED
  BY <1>4, <1>5, <1>7, <1>8 DEF Behind

LEMMA NextKeepsDelivery == ASSUME IInv, OrderInv, DeliveryInv, OrderNext PROVE DeliveryInv'
<1>1. IInv' /\ Next /\ Track
  BY NextKeepsIInv DEF OrderNext
<1> SUFFICES ASSUME ~raced' PROVE BrokenInv' /\ (WsBusy' => \E g \in Frames : Behind(g)')
  BY DEF DeliveryInv
<1>2. ~raced
  BY <1>1, Zenon
  DEF Next, Receive, Parse, ParseCloneFails, ParseMallocFails, WebsocketTask, CheckWaiting,
      TakePrevious, TakeNothing, AnswerPrevious, FreePrevious, QueueSend, EndpointTask, Poll, Peek,
      Match, QueueReset, Handle, Answer, FreeHandled, Fault, Reboot
<1>3. BrokenInv'
  BY <1>1, <1>2, NextKeepsBroken DEF DeliveryInv
<1>4. ASSUME WsBusy' PROVE \E g \in Frames : Behind(g)'
  <2>1. ASSUME NEW h \in Frames, Receive(h) PROVE \E g \in Frames : Behind(g)'
    BY <1>1, <1>2, <1>4, <2>1, ArrivesBehind DEF DeliveryInv
  <2>2. CASE WebsocketTask \/ \E e \in Endpoints : EndpointTask(e)
    <3>1. WsBusy
      BY <1>4, <2>2 DEF WebsocketTask, CheckWaiting, TakePrevious, TakeNothing, AnswerPrevious,
         FreePrevious, QueueSend, EndpointTask, Poll, Peek, Match, QueueReset, Handle, Answer,
         FreeHandled, wsVars, WsBusy
    <3>2. PICK g \in Frames : Behind(g)
      BY <1>2, <3>1 DEF DeliveryInv
    <3> QED
      BY <1>1, <1>2, <1>4, <2>2, <3>1, <3>2, BehindIsKept DEF DeliveryInv
  <2>3. CASE Fault
    <3>1. UNCHANGED <<slot, contents, wsPc, pMessage, prevMessage, inflight, arrived, starved,
                      replies, handled>>
      BY <2>3 DEF Fault, heapVars, wsVars, srvVars, logVars
    <3>2. Waiting' = Waiting /\ Pending' = Pending
      BY <3>1 DEF Waiting, Outstanding, Pending
    <3>3. PICK g \in Frames : Behind(g)
      BY <1>2, <1>4, <3>1 DEF DeliveryInv, WsBusy
    <3>4. ahead'[g] = ahead[g]
      BY <1>1, <3>2, <3>3, WaitingArrived DEF Track, OrderInv, AheadInv, Behind, IInv
    <3> QED
      BY <3>1, <3>2, <3>3, <3>4 DEF Behind
  <2>4. CASE Reboot
    BY <1>4, <2>4 DEF Reboot, WsBusy
  <2> QED
    BY <1>1, <2>1, <2>2, <2>3, <2>4 DEF Next
<1> QED
  BY <1>3, <1>4

LEMMA DeliveryInvariant == OrderSpec => []DeliveryInv
<1>1. OrderInit => DeliveryInv
  BY DEF OrderInit, Init, DeliveryInv, BrokenInv, WsBusy
<1>2. DeliveryInv /\ UNCHANGED orderVars => DeliveryInv'
  <2> SUFFICES ASSUME DeliveryInv, UNCHANGED orderVars PROVE DeliveryInv'
    OBVIOUS
  <2>1. Waiting' = Waiting /\ Broken' = Broken /\ Pending' = Pending
    BY DEF orderVars, vars, wsVars, srvVars, logVars, Waiting, Broken, Outstanding, Pending
  <2>2. \A g \in Frames : Behind(g) => Behind(g)'
    BY <2>1 DEF orderVars, vars, heapVars, wsVars, srvVars, Behind
  <2> QED
    BY <2>1, <2>2 DEF orderVars, vars, heapVars, wsVars, srvVars, logVars, DeliveryInv, BrokenInv,
       WsBusy
<1>3. IInv /\ OrderInv /\ DeliveryInv /\ [OrderNext]_orderVars => DeliveryInv'
  BY <1>2, NextKeepsDelivery
<1> QED
  BY <1>1, <1>3, OrderInvariance, OrderInvariant, PTL DEF OrderSpec

-----------------------------------------------------------------------------
(* The refinement.                                                         *)

\* An answer is not silence, and the four answers are different.
LEMMA Answers ==
  /\ <<>> \notin {<<ERR_NOT_ENOUGH_MEMORY>>, <<ERR_NOT_RECIEVED>>, <<MSG_OK>>,
                  <<ERR_UNSUPORTED_MESSAGE_TYPE>>}
  /\ <<ERR_NOT_ENOUGH_MEMORY>> # <<ERR_NOT_RECIEVED>>
  /\ <<MSG_OK>> \notin {<<ERR_NOT_ENOUGH_MEMORY>>, <<ERR_NOT_RECIEVED>>}
  /\ <<ERR_UNSUPORTED_MESSAGE_TYPE>> \notin {<<ERR_NOT_ENOUGH_MEMORY>>, <<ERR_NOT_RECIEVED>>}
<1>1. \A s : <<s>> # <<>>
  OBVIOUS
<1>2. \A s : <<s>>[1] = s
  OBVIOUS
<1>3. \A s, u : <<s>> = <<u>> => s = u
  BY <1>2
<1> QED
  BY <1>1, <1>3 DEF ERR_NOT_ENOUGH_MEMORY, ERR_NOT_RECIEVED, MSG_OK, ERR_UNSUPORTED_MESSAGE_TYPE

LEMMA StatusOfWaiting ==
  ASSUME IInv, ~raced, BrokenInv, NEW f \in Frames
  PROVE  /\ f \in Waiting <=> StatusOf(f) \in {"waiting", "broken"}
         /\ f \in Waiting \ starved <=> StatusOf(f) = "waiting"
         /\ f \in Waiting \cap starved <=> StatusOf(f) = "broken"
         /\ f \notin arrived <=> StatusOf(f) = "new"
<1>1. f \in Waiting => f \in inflight /\ f \in arrived /\ replies[f] = <<>> /\ handled[f] = 0
  BY DEF Waiting, Outstanding, IInv, TypeOK
<1>2. f \in Waiting \cap starved => StatusOf(f) = "broken"
  BY <1>1, Answers DEF StatusOf
<1>3. f \in Waiting \ starved => StatusOf(f) = "waiting"
  BY <1>1, Answers DEF StatusOf
<1>4. StatusOf(f) \in {"waiting", "broken"} => f \in Waiting
  <2>1. handled[f] \in Nat
    BY DEF IInv, TypeOK
  <2> QED
    BY <2>1 DEF StatusOf, Waiting, Outstanding
<1>5. f \notin arrived <=> StatusOf(f) = "new"
  BY DEF StatusOf
<1> QED
  BY <1>2, <1>3, <1>4, <1>5

LEMMA AbstractWaiting ==
  ASSUME IInv, DeliveryInv, ~raced
  PROVE  Abstract!Waiting = Waiting
<1>1. \A f \in Frames : StatusNow[f] = StatusOf(f)
  BY DEF StatusNow
<1>2. Waiting \subseteq Frames
  BY WaitingArrived DEF IInv
<1> QED
  BY <1>1, <1>2, StatusOfWaiting DEF Abstract!Waiting, DeliveryInv

LEMMA OrderImplements ==
  ASSUME IInv, IInv', OrderInv, DeliveryInv, DeliveryInv', ~raced, Track
  PROVE  Abstract!Order
<1>1. Abstract!Waiting = Waiting
  BY AbstractWaiting
<1>2. \A f \in Frames : StatusNow[f] = "new" <=> f \notin arrived
  BY StatusOfWaiting DEF StatusNow, DeliveryInv
<1>3. \A f \in Frames : AheadNow[f] = ahead[f]
  BY DEF AheadNow
<1>4. CASE raced'
  <2>1. Abstract!Waiting' = {} /\ AheadNow' = [f \in Frames |-> {}]
    BY <1>4 DEF Abstract!Waiting, StatusNow, AheadNow
  <2> QED
    BY <2>1 DEF Abstract!Order
<1>5. CASE ~raced'
  <2>1. Abstract!Waiting' = Waiting'
    <3>1. \A f \in Frames : StatusNow'[f] = StatusOf(f)'
      BY <1>5 DEF StatusNow
    <3>2. Waiting' \subseteq Frames
      BY DEF IInv, TypeOK, Waiting, Outstanding
    <3>3. ASSUME NEW f \in Frames
          PROVE  f \in Waiting' <=> StatusOf(f)' \in {"waiting", "broken"}
      <4>1. f \in Waiting' => f \in inflight' /\ f \in arrived' /\ replies'[f] = <<>> /\ handled'[f] = 0
        BY DEF Waiting, Outstanding, IInv, TypeOK
      <4>2. f \in Waiting' => StatusOf(f)' \in {"waiting", "broken"}
        BY <4>1, Answers DEF StatusOf
      <4>3. handled'[f] \in Nat
        BY DEF IInv, TypeOK
      <4>4. StatusOf(f)' \in {"waiting", "broken"} => f \in Waiting'
        BY <4>3 DEF StatusOf, Waiting, Outstanding
      <4> QED
        BY <4>2, <4>4
    <3> QED
      BY <3>1, <3>2, <3>3 DEF Abstract!Waiting
  <2>2. AheadNow' = [f \in Frames |-> ahead'[f]]
    BY <1>5 DEF AheadNow
  <2>3. ASSUME NEW f \in Frames
        PROVE  ahead'[f] = IF f \notin Waiting' THEN {}
                           ELSE (IF f \in arrived THEN ahead[f] ELSE Waiting) \cap Waiting'
    BY DEF Track
  <2> QED
    BY <1>1, <1>2, <1>3, <2>1, <2>2, <2>3 DEF Abstract!Order
<1> QED
  BY <1>4, <1>5

\* A step that is about no frame is a stutter.
LEMMA QuietStutters ==
  ASSUME IInv, OrderInv, raced' = raced, Track,
         UNCHANGED <<inflight, arrived, starved, replies, handled>>
  PROVE  UNCHANGED Abstract!delivery
<1>1. \A f \in Frames : StatusOf(f)' = StatusOf(f)
  BY DEF StatusOf
<1>2. StatusNow' = StatusNow
  BY <1>1 DEF StatusNow
<1>3. Waiting' = Waiting
  BY DEF Waiting, Outstanding
<1>4. ASSUME NEW f \in Frames PROVE ahead'[f] = ahead[f]
  BY <1>3, WaitingArrived DEF Track, OrderInv, AheadInv, IInv
<1>5. AheadNow' = AheadNow
  BY <1>4 DEF AheadNow
<1> QED
  BY <1>2, <1>5 DEF Abstract!delivery

\* A step about one frame moves that frame.
LEMMA Becomes ==
  ASSUME ~raced, ~raced', NEW f \in Frames, NEW s, StatusOf(f)' = s,
         \A g \in Frames \ {f} : StatusOf(g)' = StatusOf(g)
  PROVE  Abstract!Become(f, s)
  BY DEF Abstract!Become, StatusNow

LEMMA ReceiveImplements ==
  ASSUME IInv, ~raced, NEW f \in Frames, Receive(f)
  PROVE  Abstract!Arrive(f)
<1>1. /\ f \notin arrived /\ replies[f] = <<>> /\ handled[f] = 0
      /\ arrived' = arrived \cup {f} /\ inflight' = inflight \cup {f}
      /\ starved' \in {starved, starved \cup {f}}
      /\ ~raced'
  BY DEF Receive, Parse, ParseCloneFails, ParseMallocFails, Arrive, IInv, Ledger, FrameLog
<1>2. replies' = replies \/ replies' = [replies EXCEPT ![f] = <<ERR_NOT_ENOUGH_MEMORY>>]
  BY <1>1, FirstReply DEF Receive, Parse, ParseCloneFails, ParseMallocFails, SendStatus, logVars
<1>3. handled' = handled
  BY DEF Receive, Parse, ParseCloneFails, ParseMallocFails, logVars
<1>4. StatusOf(f)' \in {"waiting", "broken", "refused"}
  <2>1. replies'[f] \in {<<>>, <<ERR_NOT_ENOUGH_MEMORY>>}
    BY <1>1, <1>2 DEF IInv, TypeOK
  <2> QED
    BY <1>1, <1>3, <2>1, Answers DEF StatusOf
<1>5. ASSUME NEW g \in Frames \ {f} PROVE StatusOf(g)' = StatusOf(g)
  BY <1>1, <1>2, <1>3 DEF StatusOf, IInv, TypeOK
<1>6. StatusNow[f] = "new"
  BY <1>1 DEF StatusNow, StatusOf
<1> QED
  BY <1>1, <1>4, <1>5, <1>6, Becomes DEF Abstract!Arrive

\* The frame of a message that a task still has to look at.
LEMMA UntouchedWaits ==
  ASSUME IInv, OrderInv, DeliveryInv, ~raced, NEW b \in live, Untouched(b), contents[b] # Junk
  PROVE  /\ contents[b] \in Frames \ starved
         /\ StatusNow[contents[b]] = "waiting"
<1>1. contents[b] \in Waiting \ starved
  BY DEF Untouched, Waiting, Outstanding, DeliveryInv, BrokenInv, OrderInv, Written
<1>2. contents[b] \in Frames
  BY <1>1, WaitingArrived DEF IInv
<1> QED
  BY <1>1, <1>2, StatusOfWaiting DEF StatusNow, DeliveryInv

\* communication.task.c:95: only a command that a newer one follows is replaced.
LEMMA AnswerPreviousReplaces ==
  ASSUME IInv, OrderInv, DeliveryInv, ~raced, AnswerPrevious
  PROVE  \E f \in Frames : Abstract!Replace(f)
<1>1. /\ wsPc = "answer" /\ contents[prevMessage] # Junk /\ prevMessage \in live /\ Untouched(prevMessage)
      /\ UNCHANGED <<inflight, arrived, starved, handled, raced>>
  BY DEF AnswerPrevious, OnRecieve, srvVars, IInv, Custody, WsCustody, WsReplaces, Ledger, WsLedger
<1>2. PICK f \in Frames \ starved :
        f = contents[prevMessage] /\ StatusNow[f] = "waiting" /\ f \in arrived
  BY <1>1, UntouchedWaits DEF IInv, Ledger, LiveFrames
<1>3. replies' = [replies EXCEPT ![f] = <<ERR_NOT_RECIEVED>>]
  BY <1>1, <1>2, FirstReply DEF AnswerPrevious, OnRecieve, SendStatus, Untouched
<1>4. replies'[f] = <<ERR_NOT_RECIEVED>>
  BY <1>2, <1>3 DEF IInv, TypeOK
<1>5. StatusOf(f)' = "replaced"
  <2>1. handled[f] = 0
    BY <1>1, <1>2 DEF Untouched
  <2> QED
    BY <1>1, <1>2, <1>4, <2>1, Answers DEF StatusOf
<1>6. \A g \in Frames \ {f} : StatusOf(g)' = StatusOf(g)
  BY <1>1, <1>3 DEF StatusOf, IInv, TypeOK
<1>7. \E g \in Frames : f \in AheadNow[g]
  <2>1. PICK g \in Frames : Behind(g)
    BY <1>1 DEF DeliveryInv, WsBusy
  <2>2. prevMessage \in Pending
    BY <1>1 DEF Pending
  <2> QED
    BY <1>1, <1>2, <2>1, <2>2 DEF Behind, AheadNow
<1>8. ~raced'
  BY <1>1
<1> QED
  BY <1>2, <1>5, <1>6, <1>7, <1>8, Becomes DEF Abstract!Replace

LEMMA HandleImplements ==
  ASSUME IInv, OrderInv, DeliveryInv, ~raced, NEW e \in Endpoints, Handle(e),
         contents[epMessage[e]] # Junk
  PROVE  \E f \in Frames : Abstract!Handle(f)
<1>1. /\ epMessage[e] \in live /\ Untouched(epMessage[e])
      /\ UNCHANGED <<inflight, arrived, starved, replies, raced>>
  BY DEF Handle, srvVars, IInv, Custody, EpCustody, EpBusy, Ledger, EpLedger
<1>2. PICK f \in Frames \ starved :
        f = contents[epMessage[e]] /\ StatusNow[f] = "waiting" /\ f \in inflight
  BY <1>1, UntouchedWaits DEF DeliveryInv, BrokenInv
<1>3. handled' = [handled EXCEPT ![f] = @ + 1] /\ handled[f] = 0 /\ replies[f] = <<>>
  BY <1>1, <1>2 DEF Handle, Untouched
<1>4. StatusOf(f)' = "handled"
  BY <1>1, <1>2, <1>3 DEF StatusOf, IInv, TypeOK
<1>5. \A g \in Frames \ {f} : StatusOf(g)' = StatusOf(g)
  BY <1>1, <1>3 DEF StatusOf, IInv, TypeOK
<1>6. f.endpointId = e /\ \A g \in ahead[f] \ starved : g.endpointId # e
  BY <1>2, HandledInTurn
<1>7. ASSUME NEW g \in AheadNow[f], StatusNow[g] = "waiting" PROVE g.endpointId # e
  <2>1. g \in ahead[f] /\ g \in Frames
    BY <1>2, <1>7, WaitingArrived DEF AheadNow, OrderInv, AheadInv, IInv
  <2>2. g \notin starved
    BY <1>7, <2>1, StatusOfWaiting DEF StatusNow, DeliveryInv
  <2> QED
    BY <1>6, <2>1, <2>2
<1>8. /\ [h \in Frames |-> h.endpointId][f] = e
      /\ \A g \in AheadNow[f] : g \in Frames /\ [h \in Frames |-> h.endpointId][g] = g.endpointId
  BY <1>2, <1>6, WaitingArrived DEF AheadNow, OrderInv, AheadInv, IInv
<1>9. Abstract!Become(f, "handled")
  BY <1>1, <1>4, <1>5, Becomes
<1> QED
  BY <1>2, <1>7, <1>8, <1>9 DEF Abstract!Handle

LEMMA AnswerImplements ==
  ASSUME IInv, OrderInv, DeliveryInv, ~raced, NEW e \in Endpoints, Answer(e)
  PROVE  \E f \in Frames : Abstract!Answer(f)
<1>1. /\ epMessage[e] \in live /\ HandledOnly(epMessage[e]) /\ contents[epMessage[e]] # Junk
      /\ UNCHANGED <<inflight, arrived, starved, handled, raced>>
  BY DEF Answer, OnRecieve, srvVars, IInv, Custody, EpCustody, EpBusy, Ledger, EpLedger
<1>2. PICK f \in Frames \ starved : f = contents[epMessage[e]] /\ f \in inflight /\ f \in arrived
  BY <1>1 DEF DeliveryInv, BrokenInv, OrderInv, Written, IInv, TypeOK
<1>3. /\ replies' = [replies EXCEPT ![f] = <<HandlerStatus(f)>>]
      /\ handled[f] = 1 /\ replies[f] = <<>>
  BY <1>1, <1>2, FirstReply DEF Answer, OnRecieve, SendStatus, HandledOnly
<1>4. replies'[f] = <<HandlerStatus(f)>>
  BY <1>2, <1>3 DEF IInv, TypeOK
<1>5. StatusOf(f)' = "answered"
  BY <1>1, <1>2, <1>3, <1>4, Answers DEF StatusOf, HandlerStatus
<1>6. \A g \in Frames \ {f} : StatusOf(g)' = StatusOf(g)
  BY <1>1, <1>3 DEF StatusOf, IInv, TypeOK
<1>7. StatusNow[f] = "handled"
  BY <1>2, <1>3, Answers DEF StatusNow, StatusOf
<1>8. Abstract!Become(f, "answered")
  BY <1>1, <1>5, <1>6, Becomes
<1> QED
  BY <1>7, <1>8 DEF Abstract!Answer

\* The panic handler forgets every command that has no answer.
LEMMA RebootImplements ==
  ASSUME IInv, OrderInv, DeliveryInv, ~raced, Reboot
  PROVE  Abstract!Reboot
<1>1. PICK f \in Frames : f \in Waiting \cap starved
  BY WaitingArrived, BrokenWaits DEF Reboot, DeliveryInv, BrokenInv, IInv
<1>2. StatusNow[f] = "broken"
  BY <1>1, StatusOfWaiting DEF StatusNow, DeliveryInv
<1>3. inflight' = {} /\ UNCHANGED <<arrived, starved, replies, handled, raced>>
  BY DEF Reboot, logVars
<1>4. \A g \in Frames : StatusOf(g)' = IF StatusOf(g) \in {"waiting", "broken", "handled"}
                                       THEN "lost" ELSE StatusOf(g)
  BY <1>3 DEF StatusOf, IInv, TypeOK
<1>5. /\ StatusNow' = [g \in Frames |-> StatusOf(g)']
      /\ \A g \in Frames : StatusNow[g] = StatusOf(g)
  BY <1>3 DEF StatusNow
<1> QED
  BY <1>2, <1>4, <1>5 DEF Abstract!Reboot

\* mailbox.c:13-15: the peek window opens only for a message that the websocket task takes
\* back, or that two endpoint tasks look at.
LEMMA RaceImplements ==
  ASSUME IInv, OrderInv, DeliveryInv, ~raced, raced', Next
  PROVE  Abstract!Race
<1>1. StatusNow' = [f \in Frames |-> "unknown"]
  BY DEF StatusNow
<1>2. \A f \in Frames : f \in Abstract!Waiting <=> f \in Waiting
  BY AbstractWaiting
<1>3. Waiting \subseteq Frames
  BY WaitingArrived DEF IInv
<1>4. CASE TakePrevious
  <2>1. slot \in Pending /\ WsBusy
    BY <1>4 DEF TakePrevious, Pending, WsBusy
  <2>2. PICK g \in Frames : Behind(g)
    BY <2>1 DEF DeliveryInv
  <2>3. \E f \in Waiting : f \in ahead[g]
    BY <2>1, <2>2, BrokenWaits DEF Behind, OrderInv, AheadInv
  <2> QED
    BY <1>1, <1>2, <1>3, <2>2, <2>3 DEF Abstract!Race, AheadNow
<1>5. ASSUME NEW e \in Endpoints, QueueReset(e) PROVE Abstract!Race
  <2>1. Peeking(epMessage[e]) # {e}
    BY <1>5, Zenon DEF QueueReset
  <2>2. e \in Peeking(epMessage[e]) /\ Peeking(epMessage[e]) \subseteq Endpoints
    BY <1>5 DEF QueueReset, Peeking
  <2>3. \E d, c \in Endpoints : d # c
    BY <2>1, <2>2
  <2>4. slot \in Pending
    BY <1>5 DEF QueueReset, IInv, Custody, PeekCustody, EpPeeks, Pending
  <2>5. \E f \in Frames : f \in Waiting
    BY <1>3, <2>4, PendingWaits, BrokenWaits DEF DeliveryInv
  <2> QED
    BY <1>1, <1>2, <2>3, <2>5 DEF Abstract!Race
<1>6. TakePrevious \/ \E e \in Endpoints : QueueReset(e)
  BY Zenon DEF Next, Receive, Parse, ParseCloneFails, ParseMallocFails, WebsocketTask, CheckWaiting,
     TakeNothing, AnswerPrevious, FreePrevious, QueueSend, EndpointTask, Poll, Peek, Match, Handle,
     Answer, FreeHandled, Fault, Reboot
<1> QED
  BY <1>4, <1>5, <1>6

LEMMA StepImplements ==
  ASSUME IInv, IInv', OrderInv, DeliveryInv, DeliveryInv', OrderNext
  PROVE  Abstract!Next \/ UNCHANGED Abstract!delivery
<1>1. Next /\ Track
  BY DEF OrderNext
<1>2. CASE raced
  <2>1. raced'
    BY <1>1, <1>2, Zenon
    DEF Next, Receive, Parse, ParseCloneFails, ParseMallocFails, WebsocketTask, CheckWaiting,
        TakePrevious, TakeNothing, AnswerPrevious, FreePrevious, QueueSend, EndpointTask, Poll,
        Peek, Match, QueueReset, Handle, Answer, FreeHandled, Fault, Reboot
  <2> QED
    BY <1>2, <2>1 DEF StatusNow, AheadNow, Abstract!delivery
<1>3. CASE ~raced /\ raced'
  BY <1>1, <1>3, RaceImplements, OrderImplements DEF Abstract!Next
<1>4. CASE ~raced /\ ~raced'
  <2>1. Abstract!Order
    BY <1>1, <1>4, OrderImplements
  <2>2. raced' = raced
    BY <1>4 DEF IInv, TypeOK
  <2>3. ASSUME NEW f \in Frames, Receive(f) PROVE Abstract!Next
    BY <1>4, <2>1, <2>3, ReceiveImplements DEF Abstract!Next
  <2>4. CASE WebsocketTask
    <3>1. CASE AnswerPrevious
      BY <1>4, <2>1, <3>1, AnswerPreviousReplaces DEF Abstract!Next
    <3>2. CASE ~AnswerPrevious
      <4>1. UNCHANGED <<inflight, arrived, starved, replies, handled>>
        BY <2>4, <3>2 DEF WebsocketTask, CheckWaiting, TakePrevious, TakeNothing, FreePrevious,
           QueueSend, srvVars, logVars
      <4> QED
        BY <1>1, <2>2, <4>1, QuietStutters
    <3> QED
      BY <3>1, <3>2
  <2>5. ASSUME NEW e \in Endpoints, EndpointTask(e)
        PROVE  Abstract!Next \/ UNCHANGED Abstract!delivery
    <3>1. CASE Handle(e) /\ contents[epMessage[e]] # Junk
      BY <1>4, <2>1, <3>1, HandleImplements DEF Abstract!Next
    <3>2. CASE Answer(e)
      BY <1>4, <2>1, <3>2, AnswerImplements DEF Abstract!Next
    <3>3. CASE ~(Handle(e) /\ contents[epMessage[e]] # Junk) /\ ~Answer(e)
      <4>1. UNCHANGED <<inflight, arrived, starved, replies, handled>>
        BY <2>5, <3>3 DEF EndpointTask, Poll, Peek, Match, QueueReset, Handle, FreeHandled, srvVars,
           logVars
      <4> QED
        BY <1>1, <2>2, <4>1, QuietStutters
    <3> QED
      BY <3>1, <3>2, <3>3
  <2>6. CASE Fault
    <3>1. UNCHANGED <<inflight, arrived, starved, replies, handled>>
      BY <2>6 DEF Fault, srvVars, logVars
    <3> QED
      BY <1>1, <2>2, <3>1, QuietStutters
  <2>7. CASE Reboot
    BY <1>4, <2>1, <2>7, RebootImplements DEF Abstract!Next
  <2> QED
    BY <1>1, <2>3, <2>4, <2>5, <2>6, <2>7 DEF Next
<1> QED
  BY <1>2, <1>3, <1>4

LEMMA InitImplements == OrderInit => Abstract!Init
  BY DEF OrderInit, Init, Abstract!Init, StatusNow, AheadNow, StatusOf

\* mailbox.c and communication.task.c:77-100 deliver every command as Delivery says, for
\* every window and every interleaving, until a message is removed under a peeking task.
THEOREM MailboxImplementsDelivery == OrderSpec => ImplementsDelivery
<1>1. /\ IInv /\ IInv' /\ OrderInv /\ DeliveryInv /\ DeliveryInv' /\ [OrderNext]_orderVars
      => [Abstract!Next]_Abstract!delivery
  <2>1. UNCHANGED orderVars => UNCHANGED Abstract!delivery
    BY DEF orderVars, vars, srvVars, logVars, Abstract!delivery, StatusNow, AheadNow, StatusOf
  <2> QED
    BY <2>1, StepImplements
<1> QED
  BY <1>1, InitImplements, OrderInvariance, OrderInvariant, DeliveryInvariant, PTL
  DEF OrderSpec, ImplementsDelivery, Abstract!Spec
=============================================================================
