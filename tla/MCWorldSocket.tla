----------------------------- MODULE MCWorldSocket -----------------------------
(* WorldSocket for TLC: a packet of the world thread that is larger than a  *)
(* buffer, one of a map worker, and the handshake.                           *)
EXTENDS WorldSocket

CONSTANTS w1, m1

MCNodes == {Challenge, Response, Pong, w1, m1}
MCOutgoing == [p \in {World, MapWorker} |-> IF p = World THEN <<w1>> ELSE <<m1>>]
MCSize == [n \in Nodes |-> IF n = w1 THEN 3 ELSE 1]
=============================================================================
