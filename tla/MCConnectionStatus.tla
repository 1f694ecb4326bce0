--------------------------- MODULE MCConnectionStatus ---------------------------
(* Instances of ConnectionStatus for TLC. *)
EXTENDS ConnectionStatus

CONSTANTS a, u, c1, c2, c3

\* An agent that reconnects, and a user.
MCPeerOf == [c \in Conns |-> IF c = c3 THEN u ELSE a]
===============================================================================
