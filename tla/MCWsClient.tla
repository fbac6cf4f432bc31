----------------------------- MODULE MCWsClient -----------------------------
(* The bound on calls for the model checking of WsClient. *)
EXTENDS WsClient

\* The endpoint task sends twice, on one connection or two; the websocket task once.
SendsOfEach == [t \in Tasks |-> IF t = WsTask THEN 1 ELSE 2]
=============================================================================
