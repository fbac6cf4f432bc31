------------------------------ MODULE MCDevice ------------------------------
(* Commands and pins for the model checking of Device. *)
EXTENDS Device, TLC

Frame(e, id, type) == [endpointId |-> e, messageId |-> id, messageType |-> type, length |-> 1]

\* Pin 4 set high and low, the LED's pin 18, the input 34 (SET_HIGH), and a command for
\* an endpoint nobody polls.
High   == Frame(GPIO, 1, 2)
Low    == Frame(GPIO, 2, 3)
LedLow == Frame(GPIO, 3, 3)
Input  == Frame(GPIO, 4, 2)
Other  == Frame(9, 5, 4)
Sent   == {High, Low, LedLow, Input, Other}
Number == [f \in Sent |-> IF f = LedLow THEN 18 ELSE IF f = Input THEN 34 ELSE 4]
=============================================================================
