------------------------------- MODULE Mailbox -------------------------------
(***************************************************************************)
(* The incoming mailbox: the path of a command from the websocket task     *)
(* through the one-slot FreeRTOS queue xMailboxIncomingQueue to an         *)
(* endpoint task, and the status that is answered for it.                  *)
(*                                                                         *)
(*   producer   sendDataToMailboxIncoming (communication.task.c), run by   *)
(*              the event loop inside the websocket task                   *)
(*   consumers  vMailboxRecieve (mailbox.c), polled by one task for each   *)
(*              endpoint; the program has the GPIO endpoint (gpio.c)       *)
(*                                                                         *)
(* The queue holds a POINTER.  The tasks run on two cores with no          *)
(* affinity, so they interleave between any two queue calls, heap accesses *)
(* and frees, each of which is an action here.  A queue call is atomic.    *)
(*                                                                         *)
(* Heap.  A block of Blocks stands for a xMailboxMessage together with the *)
(* body its pData owns (they are allocated and freed together).  A freed   *)
(* block keeps its last contents until malloc hands it out again: heap     *)
(* poisoning is off (sdkconfig:674).  free() of a free block asserts, and  *)
(* a call through the onRecieve of a free block may or may not fault; a    *)
(* fault reboots the chip (sdkconfig:456).                                 *)
(***************************************************************************)
EXTENDS Naturals, Sequences, FiniteSets

CONSTANTS
  Endpoints,    \* the endpoint ids some task polls the mailbox for
  Frames,       \* the frames the server may send, each at most once
  Blocks,       \* the heap blocks malloc may return
  NoBlock,      \* a pointer that has not been set; the empty queue
  Junk,         \* the contents of a message parseMessage left unwritten
  Window,       \* bound: unanswered frames the server lets run at once
  MaxFailures   \* bound: frames whose allocation fails for lack of memory

\* mailbox.h, the status codes of an answer
MSG_OK                      == 0
ERR_NOT_ENOUGH_MEMORY       == 1
ERR_NOT_RECIEVED            == 2
ERR_UNSUPORTED_MESSAGE_TYPE == 3
Status == {MSG_OK, ERR_NOT_ENOUGH_MEMORY, ERR_NOT_RECIEVED, ERR_UNSUPORTED_MESSAGE_TYPE}

\* gpio.c, the message types vMessageHandler's switch has a case for:
\* GPIO_SET_INPUT, GPIO_SET_HIGH, GPIO_SET_LOW, GPIO_RESET (GPIO_GET_STATE, 4, has none)
SupportedTypes == {1, 2, 3, 5}

\* A frame, received in one DATA event: the three header bytes of the documented
\* message format and the length of its body.
FrameType == [endpointId : Nat, messageId : Nat, messageType : Nat, length : Nat]

ASSUME FramesAssumption   == Frames \subseteq FrameType
ASSUME SentinelAssumption == NoBlock \notin Blocks /\ Junk \notin Frames

VARIABLES
  slot,         \* xMailboxIncomingQueue: a pointer, or NoBlock when it is empty
  live,         \* the allocated blocks
  contents,     \* block -> the frame parsed into it
  wsPc,         \* the websocket task inside sendDataToMailboxIncoming
  pMessage,     \* its pMessage
  prevMessage,  \* its prevMessage
  epPc,         \* endpoint -> where its task is inside vMailboxRecieve
  epMessage,    \* endpoint -> its pMessage
  up,           \* FALSE between a fault and the reboot it causes
  inflight,     \* history: the frames received since the last boot
  arrived,      \* history: the frames received
  starved,      \* history: the frames one of whose two mallocs returned NULL
  replies,      \* history: frame -> the statuses sendStatus was called with
  handled,      \* history: frame -> how often vMessageHandler ran on it
  raced         \* history: a message left the queue while a task that had
                \* peeked it was still to test its id or to reset the queue

heapVars == <<live, contents>>
wsVars   == <<wsPc, pMessage, prevMessage>>
epVars   == <<epPc, epMessage>>
srvVars  == <<inflight, arrived, starved>>
logVars  == <<replies, handled>>
vars     == <<slot, heapVars, wsVars, epVars, up, srvVars, logVars, raced>>

Pointer == Blocks \cup {NoBlock}

TypeOK ==
  /\ slot \in Pointer
  /\ live \subseteq Blocks
  /\ contents \in [Blocks -> Frames \cup {Junk}]
  /\ wsPc \in {"idle", "check", "take", "answer", "free", "send"}
  /\ pMessage \in Pointer /\ prevMessage \in Pointer
  /\ wsPc # "idle" => pMessage \in Blocks
  /\ wsPc \in {"answer", "free"} => prevMessage \in Blocks
  /\ epPc \in [Endpoints -> {"poll", "peek", "match", "reset", "handle", "answer", "free"}]
  /\ epMessage \in [Endpoints -> Pointer]
  /\ \A e \in Endpoints : epPc[e] \notin {"poll", "peek"} => epMessage[e] \in Blocks
  /\ up \in BOOLEAN
  /\ inflight \subseteq arrived /\ arrived \subseteq Frames /\ starved \subseteq arrived
  /\ replies \in [Frames -> Seq(Status)]
  /\ handled \in [Frames -> Nat]
  /\ raced \in BOOLEAN

Init ==
  /\ slot = NoBlock
  /\ live = {} /\ contents = [b \in Blocks |-> Junk]
  /\ wsPc = "idle" /\ pMessage = NoBlock /\ prevMessage = NoBlock
  /\ epPc = [e \in Endpoints |-> "poll"]
  /\ epMessage = [e \in Endpoints |-> NoBlock]
  /\ up = TRUE
  /\ inflight = {} /\ arrived = {} /\ starved = {}
  /\ replies = [f \in Frames |-> <<>>]
  /\ handled = [f \in Frames |-> 0]
  /\ raced = FALSE

-----------------------------------------------------------------------------
(* What both sides share: sendStatus, onRecieve and free.                  *)

\* sendStatus: the status goes to the server, or is lost with the connection;
\* either way nothing else happens to the message.
SendStatus(f, status) == replies' = [replies EXCEPT ![f] = Append(@, status)]

\* onMessageRecieved on a block whose onRecieve member still points at it
\* (the contents of a free block are stale, those of a Junk block wild).
OnRecieve(b, status) ==
  /\ contents[b] # Junk
  /\ SendStatus(contents[b], status)

\* The two free() calls of onMessageRecieved.
Free(b) ==
  /\ b \in live
  /\ live' = live \ {b}

\* The endpoint tasks that hold the pointer b they peeked in the queue.
Peeking(b) == {e \in Endpoints : epPc[e] \in {"match", "reset"} /\ epMessage[e] = b}

-----------------------------------------------------------------------------
(* The websocket task: sendDataToMailboxIncoming.                          *)

\* The frames the server still waits on.
Outstanding == {f \in inflight : replies[f] = <<>>}

\* WEBSOCKET_EVENT_DATA for frame f.
Arrive(f) ==
  /\ up /\ wsPc = "idle"
  /\ f \notin arrived
  /\ Cardinality(Outstanding) < Window
  /\ arrived' = arrived \cup {f}
  /\ inflight' = inflight \cup {f}

\* malloc fails when the heap is full, or for other users of the heap
\* (the latter at most MaxFailures times).
MallocMayFail == live = Blocks \/ Cardinality(starved) < MaxFailures

\* parseMessage returns a message with every field set.
Parse(f) ==
  /\ Arrive(f)
  /\ \E b \in Blocks \ live :
       /\ live' = live \cup {b}
       /\ contents' = [contents EXCEPT ![b] = f]
       /\ pMessage' = b
  /\ wsPc' = "check"
  /\ UNCHANGED <<slot, prevMessage, epVars, up, starved, logVars, raced>>

\* clone returns NULL, as malloc(0) may for a frame that is only a header:
\* parseMessage skips every assignment and still returns the message, so the
\* caller goes on with a message nobody wrote.
ParseCloneFails(f) ==
  /\ Arrive(f)
  /\ f.length = 0 \/ MallocMayFail
  /\ \E b \in Blocks \ live :
       /\ live' = live \cup {b}
       /\ contents' = [contents EXCEPT ![b] = Junk]
       /\ pMessage' = b
  /\ starved' = starved \cup {f}
  /\ wsPc' = "check"
  /\ UNCHANGED <<slot, prevMessage, epVars, up, logVars, raced>>

\* malloc of the message itself returns NULL: answered at once.
ParseMallocFails(f) ==
  /\ Arrive(f)
  /\ MallocMayFail
  /\ starved' = starved \cup {f}
  /\ SendStatus(f, ERR_NOT_ENOUGH_MEMORY)
  /\ UNCHANGED <<slot, heapVars, wsVars, epVars, up, handled, raced>>

\* mutant: the message that waits is not looked for
CheckWaitingSkipped ==
  /\ up /\ wsPc = "check"
  /\ wsPc' = "send"
  /\ UNCHANGED <<slot, heapVars, pMessage, prevMessage, epVars, up, srvVars, logVars, raced>>

\* if (uxQueueMessagesWaiting(xMailboxIncomingQueue))
CheckWaiting ==
  /\ up /\ wsPc = "check"
  /\ wsPc' = IF slot = NoBlock THEN "send" ELSE "take"
  /\ UNCHANGED <<slot, heapVars, pMessage, prevMessage, epVars, up, srvVars, logVars, raced>>

\* mutant: xQueuePeek in place of xQueueReceive
TakePreviousByPeek ==
  /\ up /\ wsPc = "take"
  /\ slot # NoBlock
  /\ prevMessage' = slot
  /\ wsPc' = "answer"
  /\ raced' = (raced \/ Peeking(slot) # {})
  /\ UNCHANGED <<slot, heapVars, pMessage, epVars, up, srvVars, logVars>>

\* xQueueReceive takes the message no endpoint has removed yet.
TakePrevious ==
  /\ up /\ wsPc = "take"
  /\ slot # NoBlock
  /\ prevMessage' = slot
  /\ slot' = NoBlock
  /\ wsPc' = "answer"
  /\ raced' = (raced \/ Peeking(slot) # {})
  /\ UNCHANGED <<heapVars, pMessage, epVars, up, srvVars, logVars>>

\* mutant: the result of xQueueReceive is not tested
TakeNothingUntested ==
  /\ up /\ wsPc = "take"
  /\ slot = NoBlock
  /\ wsPc' = "answer"
  /\ UNCHANGED <<slot, heapVars, pMessage, prevMessage, epVars, up, srvVars, logVars, raced>>

\* An endpoint emptied the queue since CheckWaiting: xQueueReceive fails and
\* xQueueReset runs on an empty queue that only this task fills.
TakeNothing ==
  /\ up /\ wsPc = "take"
  /\ slot = NoBlock
  /\ wsPc' = "send"
  /\ UNCHANGED <<slot, heapVars, pMessage, prevMessage, epVars, up, srvVars, logVars, raced>>

\* mutant: the replaced message is freed without a status
AnswerPreviousForgotten ==
  /\ up /\ wsPc = "answer"
  /\ contents[prevMessage] # Junk
  /\ wsPc' = "free"
  /\ UNCHANGED <<slot, heapVars, pMessage, prevMessage, epVars, up, srvVars, logVars, raced>>

\* mutant: the status is sent for the new message
AnswerNewInstead ==
  /\ up /\ wsPc = "answer"
  /\ OnRecieve(pMessage, ERR_NOT_RECIEVED)
  /\ wsPc' = "free"
  /\ UNCHANGED <<slot, heapVars, pMessage, prevMessage, epVars, up, srvVars, handled, raced>>

\* prevMessage->onRecieve(prevMessage, ERR_NOT_RECIEVED), up to its frees
AnswerPrevious ==
  /\ up /\ wsPc = "answer"
  /\ OnRecieve(prevMessage, ERR_NOT_RECIEVED)
  /\ wsPc' = "free"
  /\ UNCHANGED <<slot, heapVars, pMessage, prevMessage, epVars, up, srvVars, handled, raced>>

\* mutant: the replaced message is answered and never freed
FreePreviousForgotten ==
  /\ up /\ wsPc = "free"
  /\ wsPc' = "send"
  /\ UNCHANGED <<slot, heapVars, pMessage, prevMessage, epVars, up, srvVars, logVars, raced>>

FreePrevious ==
  /\ up /\ wsPc = "free"
  /\ Free(prevMessage)
  /\ wsPc' = "send"
  /\ UNCHANGED <<slot, contents, pMessage, prevMessage, epVars, up, srvVars, logVars, raced>>

\* xQueueSend with no wait: on a full queue the message would be dropped.
QueueSend ==
  /\ up /\ wsPc = "send"
  /\ slot' = IF slot = NoBlock THEN pMessage ELSE slot
  /\ wsPc' = "idle"
  /\ UNCHANGED <<heapVars, pMessage, prevMessage, epVars, up, srvVars, logVars, raced>>

-----------------------------------------------------------------------------
(* An endpoint task: vMailboxRecieve and the handler it calls.             *)

EpGoto(e, label) == epPc' = [epPc EXCEPT ![e] = label]

\* uxQueueMessagesWaiting; on 0 the task only sleeps a tick (vTaskDelay(1)).
Poll(e) ==
  /\ up /\ epPc[e] = "poll"
  /\ EpGoto(e, IF slot = NoBlock THEN "poll" ELSE "peek")
  /\ UNCHANGED <<slot, heapVars, wsVars, epMessage, up, srvVars, logVars, raced>>

\* xQueuePeek, which fails when the queue was emptied since Poll.
Peek(e) ==
  /\ up /\ epPc[e] = "peek"
  /\ IF slot = NoBlock
     THEN EpGoto(e, "poll") /\ UNCHANGED epMessage
     ELSE EpGoto(e, "match") /\ epMessage' = [epMessage EXCEPT ![e] = slot]
  /\ UNCHANGED <<slot, heapVars, wsVars, up, srvVars, logVars, raced>>

\* pMessage->endpointId == endpointId, read through the peeked pointer; the
\* id of a Junk message is whatever the memory held.
Match(e) ==
  /\ up /\ epPc[e] = "match"
  /\ \E same \in IF contents[epMessage[e]] = Junk THEN BOOLEAN
                 ELSE {contents[epMessage[e]].endpointId = e} :
       EpGoto(e, IF same THEN "reset" ELSE "poll")
  /\ UNCHANGED <<slot, heapVars, wsVars, epMessage, up, srvVars, logVars, raced>>

\* mutant: the peeked message is left in the queue
QueueResetForgotten(e) ==
  /\ up /\ epPc[e] = "reset"
  /\ raced' = (raced \/ Peeking(epMessage[e]) # {e})
  /\ EpGoto(e, "handle")
  /\ UNCHANGED <<slot, heapVars, wsVars, epMessage, up, srvVars, logVars>>

\* xQueueReset empties the queue, whatever it holds by now.
QueueReset(e) ==
  /\ up /\ epPc[e] = "reset"
  /\ slot' = NoBlock
  /\ raced' = (raced \/ Peeking(epMessage[e]) # {e})
  /\ EpGoto(e, "handle")
  /\ UNCHANGED <<heapVars, wsVars, epMessage, up, srvVars, logVars>>

\* vMessageHandler up to its call of onRecieve.
Handle(e) ==
  /\ up /\ epPc[e] = "handle"
  /\ LET f == contents[epMessage[e]] IN
       handled' = IF f = Junk THEN handled ELSE [handled EXCEPT ![f] = @ + 1]
  /\ EpGoto(e, "answer")
  /\ UNCHANGED <<slot, heapVars, wsVars, epMessage, up, srvVars, replies, raced>>

\* The status vMessageHandler answers a message with.
HandlerStatus(f) ==
  IF f.messageType \in SupportedTypes THEN MSG_OK ELSE ERR_UNSUPORTED_MESSAGE_TYPE

\* mutant: the default case returns without calling onRecieve
AnswerOnlySupported(e) ==
  /\ up /\ epPc[e] = "answer"
  /\ contents[epMessage[e]] # Junk
  /\ IF HandlerStatus(contents[epMessage[e]]) = MSG_OK
     THEN SendStatus(contents[epMessage[e]], MSG_OK) /\ EpGoto(e, "free")
     ELSE UNCHANGED replies /\ EpGoto(e, "poll")
  /\ UNCHANGED <<slot, heapVars, wsVars, epMessage, up, srvVars, handled, raced>>

\* pMessage->onRecieve(pMessage, status), up to its frees
Answer(e) ==
  /\ up /\ epPc[e] = "answer"
  /\ OnRecieve(epMessage[e], HandlerStatus(contents[epMessage[e]]))
  /\ EpGoto(e, "free")
  /\ UNCHANGED <<slot, heapVars, wsVars, epMessage, up, srvVars, handled, raced>>

FreeHandled(e) ==
  /\ up /\ epPc[e] = "free"
  /\ Free(epMessage[e])
  /\ EpGoto(e, "poll")
  /\ UNCHANGED <<slot, contents, wsVars, epMessage, up, srvVars, logVars, raced>>

-----------------------------------------------------------------------------
(* Faults.                                                                 *)

\* The pointers a task is about to call onRecieve of, and those it is about to free.
Called == (IF wsPc = "answer" THEN {prevMessage} ELSE {})
            \cup {epMessage[e] : e \in {d \in Endpoints : epPc[d] = "answer"}}
Freed  == (IF wsPc = "free" THEN {prevMessage} ELSE {})
            \cup {epMessage[e] : e \in {d \in Endpoints : epPc[d] = "free"}}

\* The handler may fault on the wild pData of a Junk message, a call through a
\* free or Junk block may fault, and freeing a free block always does.  (A wild
\* onRecieve that happens to run ends in a wild free.)
Fault ==
  /\ up
  /\ \/ \E e \in Endpoints : epPc[e] = "handle" /\ contents[epMessage[e]] = Junk
     \/ \E b \in Called : contents[b] = Junk \/ b \notin live
     \/ \E b \in Freed : b \notin live
  /\ up' = FALSE
  /\ UNCHANGED <<slot, heapVars, wsVars, epVars, srvVars, logVars, raced>>

\* The panic handler reboots the chip: every RAM variable starts again.
Reboot ==
  /\ ~up
  /\ up' = TRUE
  /\ slot' = NoBlock
  /\ live' = {} /\ contents' = [b \in Blocks |-> Junk]
  /\ wsPc' = "idle" /\ pMessage' = NoBlock /\ prevMessage' = NoBlock
  /\ epPc' = [e \in Endpoints |-> "poll"]
  /\ epMessage' = [e \in Endpoints |-> NoBlock]
  /\ inflight' = {}
  /\ UNCHANGED <<arrived, starved, logVars, raced>>

-----------------------------------------------------------------------------
Receive(f) == Parse(f) \/ ParseCloneFails(f) \/ ParseMallocFails(f)

WebsocketTask ==
  \/ CheckWaiting
  \/ TakePrevious
  \/ TakeNothing
  \/ AnswerPrevious
  \/ FreePrevious
  \/ QueueSend

EndpointTask(e) ==
  \/ Poll(e)
  \/ Peek(e)
  \/ Match(e)
  \/ QueueReset(e)
  \/ Handle(e)
  \/ Answer(e)
  \/ FreeHandled(e)

Next ==
  \/ \E f \in Frames : Receive(f)
  \/ WebsocketTask
  \/ \E e \in Endpoints : EndpointTask(e)
  \/ Fault
  \/ Reboot

Spec == Init /\ [][Next]_vars

\* Every task is scheduled again and again: each one sleeps or blocks between
\* two rounds, and there are two cores.  The server owes no frame.
Fairness ==
  /\ WF_vars(WebsocketTask)
  /\ \A e \in Endpoints : WF_vars(EndpointTask(e))
  /\ WF_vars(Reboot)

FairSpec == Spec /\ Fairness

-----------------------------------------------------------------------------
(* Properties.                                                             *)

\* Who holds which block: the websocket task its pMessage and prevMessage, an
\* endpoint task the message it has removed from the queue, the queue its slot.
WsHolds == (IF wsPc = "idle" THEN {} ELSE {pMessage})
             \cup (IF wsPc \in {"answer", "free"} THEN {prevMessage} ELSE {})
EpHolds(e) == IF epPc[e] \in {"handle", "answer", "free"} THEN {epMessage[e]} ELSE {}
QueueHolds == {slot} \ {NoBlock}
AllHeld == QueueHolds \cup WsHolds \cup UNION {EpHolds(e) : e \in Endpoints}

\* xQueueSend (communication.task.c:99) never finds the queue full, so its ignored
\* result hides nothing: only the websocket task fills the queue, and it empties it
\* first.  Holds whatever the endpoint tasks do.
QueueSendNeverDrops == wsPc = "send" => slot = NoBlock

\* As long as no message was removed under a task that had peeked it, every message
\* has one owner: nothing that is queued or held is free, and nothing is held twice.
OneOwner ==
  ~raced =>
    /\ AllHeld \subseteq live
    /\ QueueHolds \cap WsHolds = {}
    /\ wsPc \in {"answer", "free"} => pMessage # prevMessage
    /\ \A e \in Endpoints : EpHolds(e) \cap (QueueHolds \cup WsHolds) = {}
    /\ \A e, d \in Endpoints : e # d => EpHolds(e) \cap EpHolds(d) = {}

\* ... and no block stays allocated that nobody will free (free(), :55-56).
NoLeak == ~raced => live \subseteq AllHeld

\* A fault has one of two causes: the peek window (mailbox.c:13-15) or the
\* unchecked clone (communication.task.c:67).
FaultHasACause == ~up => raced \/ starved # {}

\* No command is answered twice: each path calls onRecieve once for a message.
AnsweredOnce == ~raced => \A f \in Frames : Len(replies[f]) <= 1

\* The server may believe a status: MSG_OK and ERR_UNSUPORTED_MESSAGE_TYPE mean the
\* handler ran on the command once, the other two that it never did.
AnswerIsTrue ==
  ~raced => \A f \in Frames : replies[f] # <<>> =>
    handled[f] = IF replies[f][1] \in {MSG_OK, ERR_UNSUPORTED_MESSAGE_TYPE} THEN 1 ELSE 0

\* No command is forgotten: until it is answered, one message on the device carries it.
NoFrameForgotten ==
  ~raced => \A f \in Outstanding \ starved : \E b \in AllHeld : contents[b] = f

\* A server that waits for the answer before it sends the next command (Window = 1)
\* never meets the peek window, as long as one endpoint polls the mailbox.
NeverRaced == ~raced

\* mailbox.h:6 calls the status sent for a message that was replaced in the queue
\* ERR_NOT_RECIEVED; a command so answered should not have been executed.
NotRecievedMeansNotHandled ==
  \A f \in Frames : (\E i \in DOMAIN replies[f] : replies[f][i] = ERR_NOT_RECIEVED)
                      => handled[f] = 0

\* communication.task.c:83-84 reports a message for which memory ran out with
\* ERR_NOT_ENOUGH_MEMORY; so should every frame that could not be stored.
AllocationFailureIsAnswered ==
  wsPc = "idle" => \A f \in starved : replies[f] = <<ERR_NOT_ENOUGH_MEMORY>>

\* Every command for an endpoint that has a task is answered at last, by its handler
\* or by the websocket task that replaces it, unless a fault's cause intervenes.
CommandsAreAnswered ==
  \A f \in Frames : f.endpointId \in Endpoints =>
    (f \in inflight ~> (replies[f] # <<>> \/ raced \/ starved # {}))
=============================================================================
