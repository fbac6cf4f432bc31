------------------------------ MODULE MCMailbox ------------------------------
(* Frames for the model checking of Mailbox. *)
EXTENDS Mailbox

Frame(e, id, type) == [endpointId |-> e, messageId |-> id, messageType |-> type, length |-> 1]
HeaderOnly(f) == [f EXCEPT !.length = 0]

\* gpio.c:8, the one endpoint of the program
GPIO == 1

\* Commands for the GPIO endpoint only.
GpioFrames == {Frame(GPIO, 1, 2), Frame(GPIO, 2, 3), Frame(GPIO, 3, 4)}
=============================================================================
