---------------------------- MODULE MailboxOrder ----------------------------
(***************************************************************************)
(* The order in which commands are carried out.  Mailbox with a history    *)
(* variable: for each command that waits, the commands that were waiting   *)
(* when it arrived and still are.  The history reads the variables of      *)
(* Mailbox and restricts none of its steps.                                *)
(***************************************************************************)
EXTENDS Mailbox

VARIABLE ahead   \* history: frame -> the waiting frames that arrived before it

\* The frames nothing has been done for: no handler ran, and no status was sent.
Waiting == {f \in Outstanding : handled[f] = 0}

Track ==
  ahead' = [f \in Frames |->
              IF f \notin Waiting' THEN {}
              ELSE (IF f \in arrived THEN ahead[f] ELSE Waiting) \cap Waiting']

OrderInit == Init /\ ahead = [f \in Frames |-> {}]

OrderNext == Next /\ Track

orderVars == <<vars, ahead>>

OrderSpec == OrderInit /\ [][OrderNext]_orderVars

OrderFairSpec == OrderSpec /\ Fairness

-----------------------------------------------------------------------------
(* Properties.                                                             *)

\* The server may send commands without waiting (Window > 1) and two of them meet in the
\* mailbox: one in an endpoint task, one in the queue or on its way to replace it
\* (communication.task.c:88-100).  As long as no message is removed under a task that
\* had peeked it, a handler never runs on a command while an older one for its endpoint
\* is neither handled nor answered: no command overtakes another.
HandledInOrder ==
  [][\A f \in Frames : handled'[f] # handled[f] /\ ~raced =>
       \A g \in ahead[f] \ starved : g.endpointId # f.endpointId]_orderVars

-----------------------------------------------------------------------------
(* Delivery, as this mailbox implements it.  A status that is sent twice,  *)
(* or does not tell what the handler did, is in no state of Delivery.      *)

StatusOf(f) ==
  LET said == replies[f]
      runs == handled[f]
  IN  IF f \notin arrived THEN "new"
      ELSE IF said = <<ERR_NOT_ENOUGH_MEMORY>> /\ runs = 0 THEN "refused"
      ELSE IF said = <<ERR_NOT_RECIEVED>> /\ runs = 0 THEN "replaced"
      ELSE IF said \in {<<MSG_OK>>, <<ERR_UNSUPORTED_MESSAGE_TYPE>>} /\ runs = 1 THEN "answered"
      ELSE IF said # <<>> \/ runs > 1 THEN "wrong"
      ELSE IF f \notin inflight THEN "lost"
      ELSE IF runs = 1 THEN "handled"
      ELSE IF f \in starved THEN "broken" ELSE "waiting"

StatusNow == [f \in Frames |-> IF raced THEN "unknown" ELSE StatusOf(f)]
AheadNow  == [f \in Frames |-> IF raced THEN {} ELSE ahead[f]]

Abstract == INSTANCE Delivery WITH
  EndpointOf <- [f \in Frames |-> f.endpointId], status <- StatusNow, before <- AheadNow

\* Whatever the server sends and however the tasks interleave, the commands fare as
\* Delivery says: each is handled at most once, by its own endpoint and in its turn, and
\* answered at most once and for what happened to it; one is replaced only by a newer
\* one; and the peek window (mailbox.c:13-15) opens only for a command that a newer one
\* follows, or that two endpoint tasks look at.
ImplementsDelivery == Abstract!Spec
=============================================================================
