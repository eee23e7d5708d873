--------------------------- MODULE MCWebSocketServer ---------------------------
(* Instances of WebSocketServer for TLC: two connections and two messages, *)
(* of one connection or of both.                                           *)
EXTENDS WebSocketServer

CONSTANTS c1, c2, m1, m2

MCConnections == {c1, c2}
TwoMessages == {m1, m2}
=============================================================================
