------------------------------ MODULE Commands ------------------------------
(***************************************************************************)
(* What the device promises a server that sends one command at a time, as  *)
(* the server sees it: which state a command is in, and what the pins do.  *)
(* There is no mailbox, no heap and no task here.  Device implements it.   *)
(***************************************************************************)
CONSTANTS
  Frames,     \* the commands the server may send, each at most once
  Mine,       \* those addressed to the GPIO endpoint
  Writes,     \* those of Mine that set a pin
  Pins,       \* the pins the server sees
  PinOf,      \* the pin a command of Writes sets ...
  LevelOf     \* ... and what the pin is then

VARIABLES status, pin

Waiting == {"sent", "moving", "done", "broken"}
Levels  == {"low", "high", "off"}

Init ==
  /\ status = [f \in Frames |-> "new"]
  /\ pin = [p \in Pins |-> "off"]

Become(f, s) == status' = [status EXCEPT ![f] = s]

Set(f, l) == pin' = IF PinOf[f] \in Pins THEN [pin EXCEPT ![PinOf[f]] = l] ELSE pin

\* The next command is sent when the last one is answered.  It may find no memory, and
\* be refused or, at worst, never answered.
Send(f) ==
  /\ status[f] = "new" /\ \A g \in Frames : status[g] \notin Waiting
  /\ \E s \in {"sent", "refused", "broken"} : Become(f, s)
  /\ UNCHANGED pin

\* A pin is on its way to its level; a command is carried out once ...
Begin(f) ==
  /\ status[f] = "sent" /\ f \in Writes
  /\ Become(f, "moving") /\ Set(f, "moving")

Finish(f) ==
  /\ status[f] = "moving"
  /\ Become(f, "done") /\ Set(f, LevelOf[f])

\* ... without a move, if it sets no pin ...
Handle(f) ==
  /\ status[f] = "sent" /\ f \in Mine \ Writes
  /\ Become(f, "done")
  /\ UNCHANGED pin

\* ... and then answered, once.
Answer(f) ==
  /\ status[f] = "done"
  /\ Become(f, "answered")
  /\ UNCHANGED pin

\* A broken command may do anything to the pins, and reboot the device: pins off, and
\* the command is lost.
Broken(f) ==
  /\ status[f] = "broken"
  /\ pin' \in [Pins -> Levels]
  /\ \/ UNCHANGED status
     \/ Become(f, "lost")

Next == \E f \in Frames : Send(f) \/ Begin(f) \/ Finish(f) \/ Handle(f) \/ Answer(f) \/ Broken(f)

Spec == Init /\ [][Next]_<<status, pin>>
=============================================================================
