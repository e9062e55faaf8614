------------------------------ MODULE MCCombat ------------------------------
(* Two creatures that do not fight each other, and two players. *)
EXTENDS Combat

CONSTANTS c, d, p, q

MCEnemies == {{c, p}, {c, q}, {d, p}, {p, q}}
MCMissiles == {<<p, c>>}
=============================================================================
