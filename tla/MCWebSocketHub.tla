--------------------------- MODULE MCWebSocketHub ---------------------------
(* An instance of WebSocketHub for TLC: the clients are of one company, the  *)
(* other has none.                                                           *)
EXTENDS WebSocketHub

CONSTANTS c1, c2, k1, k2

MCOwner == [c \in Client |-> k2]
=============================================================================
