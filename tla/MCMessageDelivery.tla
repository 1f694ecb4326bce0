--------------------------- MODULE MCMessageDelivery ---------------------------
(* Instances of MessageDelivery for TLC. *)
EXTENDS MessageDelivery, TLC

CONSTANTS m1, m2, r1, r2, s1, s2, s3

\* Everything goes to the first member; the first message also to the second.
ToOf(m) == IF m = m1 THEN Receivers ELSE {r1}
MCTo == [m \in Messages |-> ToOf(m)]

\* The third stream is the second member's connection.
MCOwner == [s \in Streams |-> IF s = s3 THEN r2 ELSE r1]
===============================================================================
