--------------------------- MODULE MCMailboxOrder ---------------------------
(* Frames for the model checking of MailboxOrder. *)
EXTENDS MCMailbox, MailboxOrder

\* Two commands for the GPIO endpoint, the second not supported and without a body, and
\* one for a second endpoint task.
TwoEndpoints == {Frame(GPIO, 1, 2), HeaderOnly(Frame(GPIO, 2, 4)), Frame(2, 3, 2)}
=============================================================================
