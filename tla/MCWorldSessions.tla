--------------------------- MODULE MCWorldSessions ---------------------------
(* WorldSessions for TLC: two players who reconnect and one of the staff.    *)
EXTENDS WorldSessions, TLC

CONSTANTS a, b, staff

MCConnections == [x \in Accounts |-> IF x \in Staff THEN 1 ELSE 2]

MCSymmetry == Permutations({a, b})
=============================================================================
