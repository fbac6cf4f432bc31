------------------------------ MODULE Delivery ------------------------------
(***************************************************************************)
(* What the mailbox promises a server that sends commands as it likes:     *)
(* which state each command is in, and which ones it may be taken out of   *)
(* turn for.  There is no queue, no heap and no task here.  MailboxOrder   *)
(* implements it.                                                          *)
(*                                                                         *)
(* The promise ends (unknown) when a message is removed under a task that  *)
(* had peeked it.  That takes a newer command, or a second endpoint task.  *)
(***************************************************************************)
CONSTANTS
  Frames,       \* the commands the server may send, each at most once
  Endpoints,    \* the endpoint ids some task polls the mailbox for
  EndpointOf    \* the endpoint id of each command

VARIABLES
  status,   \* the state of each command
  before    \* command -> the commands that waited when it arrived and still do

delivery == <<status, before>>

Init ==
  /\ status = [f \in Frames |-> "new"]
  /\ before = [f \in Frames |-> {}]

\* A broken command found no memory for its body: it waits, and nobody will know it.
Waiting == {f \in Frames : status[f] \in {"waiting", "broken"}}

\* The order of the commands that wait follows from their states.
Order ==
  before' = [f \in Frames |->
               IF f \notin Waiting' THEN {}
               ELSE (IF status[f] = "new" THEN Waiting ELSE before[f]) \cap Waiting']

Become(f, s) == status' = [status EXCEPT ![f] = s]

Arrive(f) ==
  /\ status[f] = "new"
  /\ \E s \in {"waiting", "broken", "refused"} : Become(f, s)

\* The handler of its endpoint takes a command, when no older one for the endpoint is left.
Handle(f) ==
  /\ status[f] = "waiting" /\ EndpointOf[f] \in Endpoints
  /\ \A g \in before[f] : status[g] = "waiting" => EndpointOf[g] # EndpointOf[f]
  /\ Become(f, "handled")

Answer(f) ==
  /\ status[f] = "handled"
  /\ Become(f, "answered")

\* A command that nobody has taken is answered as not received, if a newer one waits.
Replace(f) ==
  /\ status[f] = "waiting" /\ \E g \in Frames : f \in before[g]
  /\ Become(f, "replaced")

\* A broken command may reboot the device.
Reboot ==
  /\ \E f \in Frames : status[f] = "broken"
  /\ status' = [f \in Frames |->
                  IF status[f] \in {"waiting", "broken", "handled"} THEN "lost" ELSE status[f]]

Race ==
  /\ \E f \in Waiting : (\E g \in Frames : f \in before[g]) \/ (\E d, e \in Endpoints : d # e)
  /\ status' = [f \in Frames |-> "unknown"]

Next ==
  /\ Order
  /\ \/ \E f \in Frames : Arrive(f) \/ Handle(f) \/ Answer(f) \/ Replace(f)
     \/ Reboot
     \/ Race

Spec == Init /\ [][Next]_delivery
=============================================================================
