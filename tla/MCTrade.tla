------------------------------- MODULE MCTrade -------------------------------
(* Trade for TLC: two players with something to give, a third who asks.      *)
EXTENDS Trade, TLC

CONSTANTS ann, bob, cat,
          cloth,                  \* a stack of two, which may be used up
          ring1, ring2, ring3,    \* nobody may have more than two rings
          gem1, gem2,
          new                     \* the guid of a ring that is still to be made

MCBagSize == [p \in Players |-> CASE p = ann -> 2 [] p = bob -> 4 [] OTHER -> 0]
MCKind == [i \in Items |-> IF i \in {ring1, ring2, ring3, new} THEN "ring" ELSE "other"]
MCMaxStackSize == [k \in {"ring", "other"} |-> IF k = "ring" THEN 1 ELSE 2]
MCMaxCount == [k \in {"ring", "other"} |-> IF k = "ring" THEN 2 ELSE 0]

MCStart(on, annHas, bobHas, m, n) ==
  [bag |-> [p \in Players |-> CASE p = ann -> annHas [] p = bob -> bobHas [] OTHER -> {}],
   count |-> [i \in Items |-> IF i \notin annHas \cup bobHas THEN 0 ELSE IF i = cloth THEN 2 ELSE 1],
   money |-> [p \in Players |-> IF p = cat THEN 0 ELSE m],
   online |-> on, maxUpdates |-> n]

(* Money and a stack; or rings, of which ann's two are one too many for bob. *)
MCStarts ==
  {MCStart(Players, {cloth}, {}, 1, 2), MCStart({ann, bob}, {ring1, ring2}, {ring3, gem1, gem2}, 0, 4)}

MCSymmetry == Permutations({ring1, ring2}) \cup Permutations({gem1, gem2})
=============================================================================
