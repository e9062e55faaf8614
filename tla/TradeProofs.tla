------------------------------ MODULE TradeProofs ------------------------------
(***************************************************************************)
(* The trade window for any number of players, items, slots and changes of  *)
(* an offer: trades stay paired, an acceptance is always of the offer as it *)
(* stands, what changes hands is what both clients showed, no money is lost *)
(* or doubled, and no item but those that moveItems, refusing one of a       *)
(* limited kind, loses or copies.                                            *)
(***************************************************************************)
EXTENDS Trade, FiniteSetTheorems, WellFoundedInduction, TLAPS

-----------------------------------------------------------------------------
(* The state of all trades and clients, and what every handler keeps of it.  *)

Desks == [trade : [Players -> TradeData \cup {None}], shown : [Players -> Seq(Offers)]]

PairedIn(tr) ==
  \A p \in Players : tr[p] # None =>
    tr[p].trader # p /\ tr[tr[p].trader] # None /\ tr[tr[p].trader].trader = p

(* The last offer the client of r was sent is its partner's offer as it is   *)
(* now, but for items that have left the partner's bags.                     *)
Sees(d, c, r) ==
  LET q == d.trade[r].trader
      last == d.shown[r][Len(d.shown[r])]
      now == Offer(d.trade[q], q, c)
  IN /\ Len(d.shown[r]) > 0
     /\ last.money = now.money /\ last.spell = now.spell
     /\ \A s \in Slots : now.goods[s] \in {last.goods[s], None}

(* Who counts as having accepted has accepted the last offer shown.          *)
Agrees(d, r) == d.trade[r].accepted => agreed[r] = Len(d.shown[r])

DeskOK(d, c) ==
  /\ d \in Desks /\ PairedIn(d.trade)
  /\ \A r \in Players : d.trade[r] # None => Sees(d, c, r) /\ Agrees(d, r)

(* ... but for what an update of the partner of p brings in order.           *)
NearlyOK(d, c, p) ==
  /\ d \in Desks /\ PairedIn(d.trade)
  /\ \A r \in Players : d.trade[r] # None /\ r # d.trade[p].trader => Sees(d, c, r)
  /\ \A r \in Players : d.trade[r] # None /\ r \notin {p, d.trade[p].trader} => Agrees(d, r)

(* The same players trade with each other. *)
SameTrades(e, d) ==
  \A r \in Players : /\ d.trade[r] # None <=> e.trade[r] # None
                     /\ d.trade[r] # None => e.trade[r].trader = d.trade[r].trader

BagsTyped == bag \in [Players -> SUBSET Items]
Counts == [Items -> Nat]

(* What a trade window shows is an offer. *)
LEMMA OfferType ==
  ASSUME BagsTyped, NEW p \in Players, NEW t \in TradeData, NEW c \in Counts
  PROVE  Offer(t, p, c) \in Offers
<1>1. \A s \in Slots : GetItem(t, p, s) \in Items \cup {None}
  BY DEF GetItem, BagsTyped
<1>2. [s \in Slots |-> LET i == GetItem(t, p, s) IN IF i = None THEN None ELSE <<i, c[i]>>]
        \in [Slots -> Goods]
  BY <1>1 DEF Goods, Counts
<1> QED
  BY <1>2 DEF Offer, Offers, TradeData

(* The offer depends on what is offered only. *)
LEMMA OfferOnly ==
  ASSUME NEW t, NEW u, NEW p, NEW c, t.money = u.money, t.spell = u.spell, t.slot = u.slot
  PROVE  Offer(t, p, c) = Offer(u, p, c)
  BY DEF Offer, GetItem

(* Taking an acceptance back, or giving it, changes nothing else. *)
Marked(t, b) == [t EXCEPT !.accepted = b]

SameOffer(t, u) == t.trader = u.trader /\ t.money = u.money /\ t.spell = u.spell /\ t.slot = u.slot

(* Marking an offer as accepted or not leaves it the same offer. *)
LEMMA SetAccepted ==
  \A t \in TradeData : \A b \in BOOLEAN :
    Marked(t, b) \in TradeData /\ Marked(t, b).accepted = b /\ SameOffer(Marked(t, b), t)
  BY DEF TradeData, Marked, SameOffer

(* What Changed does, player by player. *)
IsChanged(e, d, p, q, o) ==
  /\ q \in Players /\ q # p /\ d.trade[p] \in TradeData /\ d.trade[q] \in TradeData
  /\ d.trade[q].trader = p
  /\ e.trade = [r \in Players |-> IF r \in {p, q} THEN Marked(d.trade[r], FALSE) ELSE d.trade[r]]
  /\ e.shown = [r \in Players |-> IF r = q THEN Append(d.shown[q], o) ELSE d.shown[r]]
  /\ e = [trade |-> e.trade, shown |-> e.shown]

(* What TradeData::Update does when both traders are at the desk. *)
LEMMA ChangedIs ==
  ASSUME NEW d \in Desks, NEW c, NEW p \in Players, d.trade[p] # None, PairedIn(d.trade)
  PROVE  IsChanged(Changed(d, p, c), d, p, d.trade[p].trader, Offer(d.trade[p], p, c))
<1> DEFINE q == d.trade[p].trader
<1>1. d.trade[p] \in TradeData /\ q \in Players /\ q # p /\ d.trade[q].trader = p
  BY DEF Desks, TradeData, PairedIn
<1>2. d.trade[q] \in TradeData
  BY <1>1 DEF Desks, PairedIn
<1> HIDE DEF q
<1>3. d.trade \in [Players -> TradeData \cup {None}] /\ d.shown \in [Players -> Seq(Offers)]
  BY DEF Desks
<1>4. [d.trade EXCEPT ![p].accepted = FALSE, ![q].accepted = FALSE] =
        [r \in Players |-> IF r \in {p, q} THEN Marked(d.trade[r], FALSE) ELSE d.trade[r]]
  BY <1>1, <1>3 DEF Marked
<1>5. [d.shown EXCEPT ![q] = Append(@, Offer(d.trade[p], p, c))] =
        [r \in Players |-> IF r = q THEN Append(d.shown[q], Offer(d.trade[p], p, c)) ELSE d.shown[r]]
  BY <1>1, <1>3
<1> QED
  BY <1>1, <1>2, <1>4, <1>5 DEF Changed, IsChanged, q

(* When everybody but the partner of p is up to date, an update of the       *)
(* partner's client brings all of it in order.                               *)
LEMMA ChangedKeeps ==
  ASSUME BagsTyped, NEW c \in Counts, NEW d, NEW p \in Players, d.trade[p] # None, NearlyOK(d, c, p)
  PROVE  DeskOK(Changed(d, p, c), c) /\ SameTrades(Changed(d, p, c), d)
<1> DEFINE q == d.trade[p].trader
           e == Changed(d, p, c)
<1>0. q = d.trade[p].trader /\ e = Changed(d, p, c)
  OBVIOUS
<1> HIDE DEF e, q
<1>c. IsChanged(e, d, p, q, Offer(d.trade[p], p, c))
  BY <1>0, ChangedIs DEF NearlyOK
<1>1. /\ q \in Players /\ q # p /\ d.trade[p] \in TradeData /\ d.trade[q] \in TradeData
      /\ d.trade[q].trader = p
      /\ e.trade = [r \in Players |-> IF r \in {p, q} THEN Marked(d.trade[r], FALSE) ELSE d.trade[r]]
      /\ e.shown = [r \in Players |-> IF r = q THEN Append(d.shown[q], Offer(d.trade[p], p, c))
                                      ELSE d.shown[r]]
      /\ e = [trade |-> e.trade, shown |-> e.shown]
  BY <1>c, Zenon DEF IsChanged
<1>2. d.trade \in [Players -> TradeData \cup {None}] /\ d.shown \in [Players -> Seq(Offers)]
  BY DEF NearlyOK, Desks
<1>3. Offer(d.trade[p], p, c) \in Offers
  BY <1>1, OfferType
<1>4. \A r \in {p, q} : /\ e.trade[r] \in TradeData /\ e.trade[r].accepted = FALSE
                        /\ SameOffer(e.trade[r], d.trade[r])
  <2>1. e.trade[p] = Marked(d.trade[p], FALSE) /\ e.trade[q] = Marked(d.trade[q], FALSE)
    BY <1>1
  <2>2. \A r \in {p, q} : /\ Marked(d.trade[r], FALSE) \in TradeData
                          /\ Marked(d.trade[r], FALSE).accepted = FALSE
                          /\ SameOffer(Marked(d.trade[r], FALSE), d.trade[r])
    BY <1>1, SetAccepted, Zenon
  <2> QED
    BY <2>1, <2>2
<1>5. \A r \in Players \ {p, q} : e.trade[r] = d.trade[r]
  BY <1>1
<1>6. \A r \in Players : /\ e.trade[r] # None <=> d.trade[r] # None
                         /\ e.trade[r] # None => SameOffer(e.trade[r], d.trade[r])
  <2> TAKE r \in Players
  <2>1. CASE r \in {p, q}
    BY <2>1, <1>1, <1>4, NoneAssumption
  <2>2. CASE r \notin {p, q}
    BY <2>2, <1>5 DEF SameOffer
  <2> QED
    BY <2>1, <2>2
<1>7. e \in Desks
  <2>1. e.trade \in [Players -> TradeData \cup {None}]
    <3>1. \A r \in Players : e.trade[r] \in TradeData \cup {None}
      BY <1>2, <1>4, <1>5
    <3>2. e.trade = [r \in Players |-> e.trade[r]]
      BY <1>1
    <3> QED
      BY <3>1, <3>2
  <2>2. e.shown \in [Players -> Seq(Offers)]
    BY <1>1, <1>2, <1>3
  <2> QED
    BY <1>1, <2>1, <2>2 DEF Desks
<1>8. PairedIn(e.trade)
  <2> SUFFICES ASSUME NEW r \in Players, e.trade[r] # None
               PROVE  e.trade[r].trader # r /\ e.trade[e.trade[r].trader] # None
                      /\ e.trade[e.trade[r].trader].trader = r
    BY DEF PairedIn
  <2>1. d.trade[r] # None /\ e.trade[r].trader = d.trade[r].trader
    BY <1>6 DEF SameOffer
  <2>2. d.trade[r].trader \in Players /\ d.trade[r].trader # r /\ d.trade[d.trade[r].trader] # None
        /\ d.trade[d.trade[r].trader].trader = r
    BY <1>2, <2>1 DEF NearlyOK, PairedIn, TradeData
  <2> QED
    BY <1>6, <2>1, <2>2 DEF SameOffer
<1>9. ASSUME NEW r \in Players, e.trade[r] # None PROVE Sees(e, c, r) /\ Agrees(e, r)
  <2>1. d.trade[r] # None /\ e.trade[r].trader = d.trade[r].trader
    BY <1>6, <1>9 DEF SameOffer
  <2>2. d.trade[r].trader \in Players /\ d.trade[d.trade[r].trader] # None
        /\ d.trade[d.trade[r].trader].trader = r
    BY <1>2, <2>1 DEF NearlyOK, PairedIn, TradeData
  <2>3. Offer(e.trade[d.trade[r].trader], d.trade[r].trader, c) =
          Offer(d.trade[d.trade[r].trader], d.trade[r].trader, c)
    BY <1>6, <2>2, OfferOnly DEF SameOffer
  <2>4. CASE r = q
    <3>1. d.trade[q].trader = p
      BY <1>1
    <3>2. e.shown[q] = Append(d.shown[q], Offer(d.trade[p], p, c)) /\ d.shown[q] \in Seq(Offers)
      BY <1>1, <1>2
    <3>3. Len(e.shown[q]) > 0 /\ e.shown[q][Len(e.shown[q])] = Offer(d.trade[p], p, c)
      BY <3>2, <1>3
    <3>4. Agrees(e, r)
      BY <1>4, <2>4 DEF Agrees
    <3> QED
      BY <2>1, <2>3, <2>4, <3>1, <3>3, <3>4 DEF Sees
  <2>5. CASE r # q
    <3>1. e.shown[r] = d.shown[r]
      BY <1>1, <2>5
    <3>2. Sees(d, c, r)
      BY <1>0, <2>1, <2>5 DEF NearlyOK
    <3>3. Sees(e, c, r)
      BY <2>1, <2>3, <3>1, <3>2 DEF Sees
    <3>4. Agrees(e, r)
      BY <1>0, <1>4, <1>5, <2>1, <2>5, <3>1 DEF Agrees, NearlyOK
    <3> QED
      BY <3>3, <3>4
  <2> QED
    BY <2>4, <2>5
<1> QED
  BY <1>6, <1>7, <1>8, <1>9 DEF DeskOK, e, SameOffer, SameTrades

(* The offer of p becomes t, and the partner's client is sent it.            *)
LEMMA OfferChangeKeeps ==
  ASSUME BagsTyped, NEW c \in Counts, NEW d, NEW p \in Players, NearlyOK(d, c, p), d.trade[p] # None,
         NEW t \in TradeData, t.trader = d.trade[p].trader,
         NEW e, e = [trade |-> [d.trade EXCEPT ![p] = t], shown |-> d.shown]
  PROVE  DeskOK(Changed(e, p, c), c) /\ SameTrades(Changed(e, p, c), d)
<1>1. d.trade \in [Players -> TradeData \cup {None}] /\ d.shown \in [Players -> Seq(Offers)]
  BY DEF NearlyOK, Desks
<1>2. t # None
  BY NoneAssumption
<1>3. /\ e.trade \in [Players -> TradeData \cup {None}] /\ e.shown = d.shown /\ e \in Desks
      /\ e.trade[p] = t /\ \A r \in Players \ {p} : e.trade[r] = d.trade[r]
  BY <1>1 DEF Desks
<1>4. SameTrades(e, d)
  BY <1>2, <1>3 DEF SameTrades
<1>5. \A r \in Players : d.trade[r] # None => d.trade[r].trader \in Players
  BY <1>1 DEF TradeData
<1>6. PairedIn(e.trade)
  BY <1>4, <1>5 DEF PairedIn, NearlyOK, SameTrades
<1>7. ASSUME NEW r \in Players, e.trade[r] # None, r # e.trade[p].trader
      PROVE  Sees(e, c, r)
  <2>1. d.trade[r] # None /\ d.trade[r].trader \in Players /\ e.trade[r].trader = d.trade[r].trader
    BY <1>4, <1>5, <1>7 DEF SameTrades
  <2>2. d.trade[r].trader # p
    <3>1. d.trade[d.trade[r].trader].trader = r
      BY <2>1 DEF NearlyOK, PairedIn
    <3> QED
      BY <3>1, <1>7, <1>3
  <2>3. e.trade[d.trade[r].trader] = d.trade[d.trade[r].trader]
    BY <1>3, <2>1, <2>2
  <2>4. Sees(d, c, r)
    BY <1>3, <1>7, <2>1 DEF NearlyOK
  <2> QED
    BY <1>3, <2>1, <2>3, <2>4, ZenonT(60) DEF Sees
<1>8. ASSUME NEW r \in Players, e.trade[r] # None, r \notin {p, e.trade[p].trader}
      PROVE  Agrees(e, r)
  BY <1>3, <1>8 DEF Agrees, NearlyOK
<1>9. e.trade[p] # None
  BY <1>2, <1>3
<1>10. DeskOK(Changed(e, p, c), c) /\ SameTrades(Changed(e, p, c), e)
  BY <1>3, <1>6, <1>7, <1>8, <1>9, ChangedKeeps DEF NearlyOK
<1> QED
  BY <1>4, <1>10 DEF SameTrades

(* A handler writes one field of the offer of p. *)
WithMoney(t, m) == [t EXCEPT !.money = m]
WithSpell(t, b) == [t EXCEPT !.spell = b]
WithItem(t, s, i) == [t EXCEPT !.slot[s] = i]

(* Changing the money, the spell or a slot leaves a TradeData one. *)
LEMMA FieldsKeepType ==
  ASSUME NEW t \in TradeData
  PROVE  /\ \A m \in 0 .. MaxMoney : WithMoney(t, m) \in TradeData /\ WithMoney(t, m).trader = t.trader
         /\ \A b \in BOOLEAN : WithSpell(t, b) \in TradeData /\ WithSpell(t, b).trader = t.trader
         /\ \A s \in Slots : \A i \in Items \cup {None} :
              (i = None \/ \A u \in Slots \ {s} : t.slot[u] # i) =>
                WithItem(t, s, i) \in TradeData /\ WithItem(t, s, i).trader = t.trader
<1>1. /\ \A m \in 0 .. MaxMoney : WithMoney(t, m) \in TradeData /\ WithMoney(t, m).trader = t.trader
      /\ \A b \in BOOLEAN : WithSpell(t, b) \in TradeData /\ WithSpell(t, b).trader = t.trader
  BY DEF TradeData, WithMoney, WithSpell
<1>2. ASSUME NEW s \in Slots, NEW i \in Items \cup {None}, i = None \/ \A u \in Slots \ {s} : t.slot[u] # i
      PROVE  WithItem(t, s, i) \in TradeData /\ WithItem(t, s, i).trader = t.trader
  <2> DEFINE w == [t.slot EXCEPT ![s] = i]
  <2>1. t.slot \in [Slots -> Items \cup {None}] /\ \A u, k \in Slots : u # k => t.slot[u] # t.slot[k] \/ t.slot[u] = None
    BY DEF TradeData, Windows
  <2>2. w \in [Slots -> Items \cup {None}] /\ w[s] = i /\ \A u \in Slots \ {s} : w[u] = t.slot[u]
    BY <2>1
  <2>3. WithItem(t, s, i) = [t EXCEPT !.slot = w]
    BY DEF WithItem, TradeData
  <2> HIDE DEF w
  <2>4. w \in Windows
    BY <2>1, <2>2, <1>2 DEF Windows
  <2> QED
    BY <2>3, <2>4 DEF TradeData
<1> QED
  BY <1>1, <1>2

(* The parts of a desk. *)
LEMMA FieldOfDesk ==
  ASSUME NEW d \in Desks, NEW p \in Players, d.trade[p] # None
  PROVE  /\ d.trade[p] \in TradeData /\ d.trade \in [Players -> TradeData \cup {None}]
         /\ d = [trade |-> d.trade, shown |-> d.shown]
  BY DEF Desks

(* Setting the accepted flag of one trader. *)
LEMMA MarkedDesk ==
  ASSUME NEW d \in Desks, NEW p \in Players, d.trade[p] # None, NEW b
  PROVE  [d EXCEPT !.trade[p].accepted = b] =
           [trade |-> [d.trade EXCEPT ![p] = Marked(d.trade[p], b)], shown |-> d.shown]
  BY FieldOfDesk DEF Marked

(* A sound desk is one that may be out of date for p. *)
LEMMA WholeIsNearlyOK ==
  ASSUME NEW d, NEW c, DeskOK(d, c), NEW p
  PROVE  NearlyOK(d, c, p)
  BY DEF DeskOK, NearlyOK

(* SetSpell withdraws the acceptances and shows the partner the offer. *)
LEMMA SetSpellKeeps ==
  ASSUME BagsTyped, NEW c \in Counts, NEW d, NEW p \in Players, d.trade[p] # None,
         NEW b \in BOOLEAN, NearlyOK(d, c, p), d.trade[p].spell # b \/ DeskOK(d, c)
  PROVE  DeskOK(SetSpell(d, p, b, c), c) /\ SameTrades(SetSpell(d, p, b, c), d)
<1>1. d \in Desks
  BY DEF NearlyOK
<1>2. CASE d.trade[p].spell = b
  BY <1>2 DEF SetSpell, SameTrades
<1>3. CASE d.trade[p].spell # b
  <2> DEFINE t == WithSpell(d.trade[p], b)
             e == [d EXCEPT !.trade[p].spell = b]
  <2>1. t \in TradeData /\ t.trader = d.trade[p].trader
    BY <1>1, FieldsKeepType, FieldOfDesk
  <2>2. e = [trade |-> [d.trade EXCEPT ![p] = t], shown |-> d.shown]
    BY <1>1, FieldOfDesk DEF WithSpell
  <2>3. SetSpell(d, p, b, c) = Changed(e, p, c)
    BY <1>3 DEF SetSpell
  <2> HIDE DEF t, e
  <2> QED
    BY <2>1, <2>2, <2>3, OfferChangeKeeps
<1> QED
  BY <1>2, <1>3

(* So does SetMoney ... *)
LEMMA SetMoneyKeeps ==
  ASSUME BagsTyped, NEW c \in Counts, NEW d, NEW p \in Players, d.trade[p] # None,
         NEW m \in 0 .. MaxMoney, DeskOK(d, c)
  PROVE  DeskOK(Changed([d EXCEPT !.trade[p].money = m], p, c), c)
<1>1. d \in Desks /\ NearlyOK(d, c, p)
  BY WholeIsNearlyOK DEF DeskOK
<1> DEFINE t == WithMoney(d.trade[p], m)
           e == [d EXCEPT !.trade[p].money = m]
<1>2. t \in TradeData /\ t.trader = d.trade[p].trader
  BY <1>1, FieldsKeepType, FieldOfDesk
<1>3. e = [trade |-> [d.trade EXCEPT ![p] = t], shown |-> d.shown]
  BY <1>1, FieldOfDesk DEF WithMoney
<1> HIDE DEF t
<1>4. DeskOK(Changed(e, p, c), c)
  <2> HIDE DEF e
  <2> QED  BY <1>1, <1>2, <1>3, OfferChangeKeeps
<1> QED
  BY <1>4

(* ... and SetItem, which takes the spell away with the item it was cast on. *)
LEMMA SetItemKeeps ==
  ASSUME BagsTyped, NEW c \in Counts, NEW d, NEW p \in Players, d.trade[p] # None,
         NEW s \in Slots, NEW i \in Items \cup {None}, NEW update \in BOOLEAN,
         i = None \/ \A u \in Slots \ {s} : d.trade[p].slot[u] # i,
         NearlyOK(d, c, p), update \/ DeskOK(d, c)
  PROVE  DeskOK(SetItem(d, p, s, i, update, c), c)
<1>1. d \in Desks
  BY DEF NearlyOK
<1>2. CASE d.trade[p].slot[s] = i /\ ~update
  BY <1>2 DEF SetItem
<1>3. CASE ~(d.trade[p].slot[s] = i /\ ~update)
  <2> DEFINE t == WithItem(d.trade[p], s, i)
             e == [d EXCEPT !.trade[p].slot[s] = i]
             q == d.trade[p].trader
             d1 == Changed(e, p, c)
             d2 == IF s = NonTraded THEN SetSpell(d1, q, FALSE, c) ELSE d1
  <2>1. t \in TradeData /\ t.trader = d.trade[p].trader
    BY <1>1, FieldsKeepType, FieldOfDesk
  <2>2. e = [trade |-> [d.trade EXCEPT ![p] = t], shown |-> d.shown]
    BY <1>1, FieldOfDesk DEF WithItem
  <2>3. SetItem(d, p, s, i, update, c) = SetSpell(d2, p, FALSE, c)
    BY <1>3 DEF SetItem
  <2>q. q \in Players /\ d.trade[q] # None
    BY <1>1 DEF Desks, NearlyOK, PairedIn, TradeData
  <2> HIDE DEF t, e, d1, q
  <2>4. DeskOK(d1, c) /\ SameTrades(d1, d)
    BY <2>1, <2>2, OfferChangeKeeps DEF d1
  <2>5. d1.trade[p] # None /\ d1.trade[q] # None
    BY <2>4, <2>q DEF SameTrades
  <2>6. DeskOK(SetSpell(d1, q, FALSE, c), c) /\ SameTrades(SetSpell(d1, q, FALSE, c), d1)
    BY <2>4, <2>5, <2>q, SetSpellKeeps, WholeIsNearlyOK
  <2>7. DeskOK(d2, c) /\ d2.trade[p] # None
    BY <2>4, <2>5, <2>6 DEF SameTrades
  <2> HIDE DEF d2
  <2>8. NearlyOK(d2, c, p)
    BY <2>7, WholeIsNearlyOK
  <2>9. DeskOK(SetSpell(d2, p, FALSE, c), c)
    BY <2>7, <2>8, SetSpellKeeps
  <2> QED
    BY <2>3, <2>9
<1> QED
  BY <1>2, <1>3

-----------------------------------------------------------------------------
(* The inductive invariant.  Every item that exists and is not lost is in    *)
(* the bags of one player and in the rows of that player; the rows hold an   *)
(* item too many only when it has been used up since or is lost; and what    *)
(* anybody has was there from the start or is a copy.                        *)

ItemsInv ==
  /\ \A p \in Players :
       /\ IsFiniteSet(bag[p]) /\ bag[p] \subseteq saved[p].bag
       /\ IsFiniteSet(saved[p].bag) /\ Cardinality(saved[p].bag) <= BagSize[p]
       /\ \A i \in Items : saved[p].count[i] > 0 <=> i \in saved[p].bag
       /\ \A i \in saved[p].bag \ bag[p] : count[i] = 0 \/ i \in lost
       /\ \A i \in saved[p].bag : start.count[i] > 0 \/ i \in copies
  /\ \A p, q \in Players : p # q => bag[p] \cap bag[q] = {} /\ saved[p].bag \cap saved[q].bag = {}
  /\ \A i \in Items : /\ (count[i] > 0 /\ i \notin lost) <=> \E p \in Players : i \in bag[p]
                      /\ count[i] > 0 => start.count[i] > 0 \/ i \in copies

DeskInv == DeskOK(desk, count)

IInv == TradeTypeOK /\ DeskInv /\ ItemsInv

(* Nobody trades at first. *)
LEMMA InitIInv == TradeInit => IInv
<1> SUFFICES ASSUME TradeInit PROVE IInv
  OBVIOUS
<1>0. /\ start \in Starts /\ bag = start.bag /\ count = start.count /\ money = start.money
      /\ bag \in [Players -> SUBSET Items] /\ count \in [Items -> Nat] /\ money \in [Players -> 0 .. MaxMoney]
      /\ \A p \in Players : IsFiniteSet(bag[p]) /\ Cardinality(bag[p]) <= BagSize[p]
      /\ \A p, q \in Players : p # q => bag[p] \cap bag[q] = {}
      /\ \A i \in Items : count[i] > 0 <=> \E p \in Players : i \in bag[p]
  BY StartAssumption DEF TradeInit
<1>1. \A p \in Players : saved[p] = RowsOf(p, bag, count, money) /\ saved[p] \in Rows
  BY <1>0 DEF TradeInit, RowsOf, Rows
<1>2. TradeTypeOK
  <2>1. saved \in [Players -> Rows]
    BY <1>1 DEF TradeInit
  <2>2. shown \in [Players -> Seq(Offers)]
    BY DEF TradeInit
  <2> QED
    BY <2>1, <2>2, <1>0 DEF TradeInit, TradeTypeOK
<1>3. DeskInv
  <2>1. desk.trade = m_trade /\ desk.shown = shown
    BY DEF desk
  <2>2. desk \in Desks
    BY <1>2 DEF desk, Desks, TradeTypeOK
  <2> QED
    BY <2>1, <2>2 DEF TradeInit, DeskInv, DeskOK, PairedIn
<1>4. ItemsInv
  <2>1. \A p \in Players : /\ saved[p].bag = bag[p]
                           /\ \A i \in Items : saved[p].count[i] = IF i \in bag[p] THEN count[i] ELSE 0
    <3> TAKE p \in Players
    <3>1. /\ RowsOf(p, bag, count, money).bag = bag[p]
          /\ RowsOf(p, bag, count, money).count = [i \in Items |-> IF i \in bag[p] THEN count[i] ELSE 0]
      BY DEF RowsOf
    <3>2. saved[p] = RowsOf(p, bag, count, money)
      BY <1>1
    <3> QED
      BY <3>1, <3>2
  <2>2. lost = {} /\ copies = {}
    BY DEF TradeInit
  <2> QED
    BY <2>1, <2>2, <1>0 DEF ItemsInv
<1> QED
  BY <1>2, <1>3, <1>4 DEF IInv

(* A step that ends with the desk e. *)
LEMMA BecomesIsDesk ==
  ASSUME NEW e, NEW c, DeskOK(e, c), m_trade' = e.trade, shown' = e.shown,
         count' = c, bag' = bag, agreed' = agreed
  PROVE  DeskInv'
<1>1. e = [trade |-> e.trade, shown |-> e.shown]
  BY DEF DeskOK, Desks
<1>2. desk' = e
  BY <1>1 DEF desk
<1>3. \A r \in Players : (Sees(e, c, r) => Sees(desk, count, r)') /\ (Agrees(e, r) => Agrees(desk, r)')
  BY <1>2, ZenonT(60) DEF Sees, Agrees, Offer, GetItem
<1>4. desk'.trade = e.trade
  BY <1>2
<1> QED
  BY <1>2, <1>3, <1>4 DEF DeskInv, DeskOK

(* What the client of r shows stays right while the partner's offer stays,   *)
(* but for items that leave the bags.                                        *)
LEMMA SeesStill ==
  ASSUME TradeTypeOK, NEW r \in Players, Trading(r), Sees(desk, count, r), NEW q \in Players,
         q = m_trade[r].trader, m_trade'[r].trader = q, SameOffer(m_trade'[q], m_trade[q]),
         shown'[r] = shown[r],
         \A s \in Slots : m_trade[q].slot[s] \in bag'[q] =>
           m_trade[q].slot[s] \in bag[q] /\ count'[m_trade[q].slot[s]] = count[m_trade[q].slot[s]]
  PROVE  Sees(desk, count, r)'
<1> DEFINE now == Offer(m_trade[q], q, count)
           then == Offer(m_trade[q], q, count)'
           last == shown[r][Len(shown[r])]
<1>1. /\ Len(shown[r]) > 0 /\ last.money = now.money /\ last.spell = now.spell
      /\ \A s \in Slots : now.goods[s] \in {last.goods[s], None}
  BY DEF Sees, desk
<1>2. then.money = now.money /\ then.spell = now.spell
  BY DEF SameOffer, Offer
<1>3. \A s \in Slots : then.goods[s] \in {now.goods[s], None}
  BY DEF SameOffer, Offer, GetItem
<1> HIDE DEF now, then
<1>4. /\ Len(shown'[r]) > 0 /\ shown'[r][Len(shown'[r])].money = then.money
      /\ shown'[r][Len(shown'[r])].spell = then.spell
      /\ \A s \in Slots : then.goods[s] \in {shown'[r][Len(shown'[r])].goods[s], None}
  BY <1>1, <1>2, <1>3
<1> QED
  BY <1>4 DEF Sees, desk, then

(* Which clients still show the truth, when nobody's offer changes. *)
LEMMA DeskStill ==
  ASSUME TradeTypeOK, TradeTypeOK', DeskInv, PairedIn(m_trade)',
         \A r \in Players : Trading(r)' =>
           LET q == m_trade[r].trader IN
             /\ Trading(r) /\ m_trade'[r].trader = q /\ SameOffer(m_trade'[q], m_trade[q])
             /\ shown'[r] = shown[r]
             /\ m_trade'[r].accepted => agreed'[r] = Len(shown[r])
             /\ \A s \in Slots : m_trade[q].slot[s] \in bag'[q] =>
                  m_trade[q].slot[s] \in bag[q] /\ count'[m_trade[q].slot[s]] = count[m_trade[q].slot[s]]
  PROVE  DeskInv'
<1>1. desk' \in Desks /\ desk'.trade = m_trade' /\ desk'.shown = shown'
  BY DEF TradeTypeOK, desk, Desks
<1>2. ASSUME NEW r \in Players, Trading(r)'
      PROVE  Sees(desk, count, r)' /\ Agrees(desk, r)'
  <2> DEFINE q == m_trade[r].trader
  <2>1. Trading(r) /\ q \in Players
    BY <1>2 DEF TradeTypeOK, Trading, TradeData
  <2>2. Sees(desk, count, r)
    BY <2>1 DEF DeskInv, DeskOK, desk, Trading
  <2>3. /\ m_trade'[r].trader = q /\ SameOffer(m_trade'[q], m_trade[q]) /\ shown'[r] = shown[r]
        /\ m_trade'[r].accepted => agreed'[r] = Len(shown[r])
        /\ \A s \in Slots : m_trade[q].slot[s] \in bag'[q] =>
             m_trade[q].slot[s] \in bag[q] /\ count'[m_trade[q].slot[s]] = count[m_trade[q].slot[s]]
    BY <1>2
  <2>4. q = m_trade[r].trader
    OBVIOUS
  <2> HIDE DEF q
  <2>5. Sees(desk, count, r)'
    BY <2>1, <2>2, <2>3, <2>4, SeesStill
  <2>6. Agrees(desk, r)'
    BY <2>3, <1>1 DEF Agrees
  <2> QED
    BY <2>5, <2>6
<1> QED
  BY <1>1, <1>2 DEF DeskInv, DeskOK, Trading

(* What the invariant says of a player who trades. *)
LEMMA TradersKnown ==
  ASSUME TradeTypeOK, DeskInv, NEW p \in Players, Trading(p)
  PROVE  /\ m_trade[p] \in TradeData /\ Partner(p) \in Players /\ Partner(p) # p
         /\ Trading(Partner(p)) /\ m_trade[Partner(p)] \in TradeData /\ Partner(Partner(p)) = p
         /\ Sees(desk, count, p) /\ Agrees(desk, p)
<1>1. m_trade[p] \in TradeData /\ Partner(p) \in Players
  BY DEF TradeTypeOK, Trading, TradeData, Partner
<1>2. desk.trade = m_trade
  BY DEF desk
<1>3. Partner(p) # p /\ Trading(Partner(p)) /\ Partner(Partner(p)) = p
      /\ Sees(desk, count, p) /\ Agrees(desk, p)
  BY <1>1, <1>2 DEF DeskInv, DeskOK, PairedIn, Trading, Partner
<1>4. m_trade[Partner(p)] \in TradeData
  BY <1>1, <1>3 DEF TradeTypeOK, Trading
<1> QED
  BY <1>1, <1>3, <1>4

-----------------------------------------------------------------------------
(* The handlers, one by one. *)

(* A handler that only replaces the desk by a sound one. *)
LEMMA BecomesKeeps ==
  ASSUME IInv, NEW e, DeskOK(e, count), Becomes(e), UNCHANGED <<agreed, possessions>>
  PROVE  IInv'
<1>1. DeskInv'
  BY BecomesIsDesk DEF possessions, Becomes
<1>2. e.trade \in [Players -> TradeData \cup {None}] /\ e.shown \in [Players -> Seq(Offers)]
  BY DEF DeskOK, Desks
<1>3. TradeTypeOK'
  BY <1>2 DEF IInv, TradeTypeOK, Becomes, possessions
<1>4. ItemsInv'
  BY DEF IInv, ItemsInv, possessions
<1> QED
  BY <1>1, <1>3, <1>4 DEF IInv

(* What the handlers find at the desk. *)
LEMMA DeskFacts ==
  ASSUME IInv
  PROVE  /\ BagsTyped /\ count \in Counts /\ DeskOK(desk, count) /\ desk \in Desks
         /\ desk.trade = m_trade /\ desk.shown = shown
         /\ \A p \in Players : Trading(p) => desk.trade[p] # None
  BY DEF IInv, TradeTypeOK, BagsTyped, Counts, DeskInv, DeskOK, desk, Trading

(* HandleSetTradeGold, HandleClearTradeItem, HandleSetTradeItem and a spell  *)
(* cast on the item of the partner.                                          *)
LEMMA OffersKeep ==
  ASSUME IInv, NEW p \in Players,
         \/ \E m \in 0 .. MaxMoney : HandleSetTradeGold(p, m)
         \/ \E s \in Slots : HandleClearTradeItem(p, s) \/ \E i \in Items : HandleSetTradeItem(p, s, i)
         \/ CastOnTradeItem(p)
  PROVE  IInv'
<1>1. CASE \E m \in 0 .. MaxMoney : HandleSetTradeGold(p, m)
  <2>1. PICK m \in 0 .. MaxMoney : HandleSetTradeGold(p, m)
    BY <1>1
  <2>2. DeskOK(Changed([desk EXCEPT !.trade[p].money = m], p, count), count)
    BY <2>1, DeskFacts, SetMoneyKeeps DEF HandleSetTradeGold
  <2> QED
    BY <2>1, <2>2, BecomesKeeps DEF HandleSetTradeGold
<1>2. CASE \E s \in Slots : HandleClearTradeItem(p, s)
  <2>1. PICK s \in Slots : HandleClearTradeItem(p, s)
    BY <1>2
  <2>2. DeskOK(SetItem(desk, p, s, None, FALSE, count), count)
    BY <2>1, DeskFacts, SetItemKeeps, WholeIsNearlyOK DEF HandleClearTradeItem
  <2> QED
    BY <2>1, <2>2, BecomesKeeps DEF HandleClearTradeItem
<1>3. CASE \E s \in Slots : \E i \in Items : HandleSetTradeItem(p, s, i)
  <2>1. PICK s \in Slots, i \in Items : HandleSetTradeItem(p, s, i)
    BY <1>3
  <2>2. \A u \in Slots : desk.trade[p].slot[u] # i
    BY <2>1, DeskFacts DEF HandleSetTradeItem
  <2>3. DeskOK(SetItem(desk, p, s, i, FALSE, count), count)
    BY <2>1, <2>2, DeskFacts, SetItemKeeps, WholeIsNearlyOK DEF HandleSetTradeItem
  <2> QED
    BY <2>1, <2>3, BecomesKeeps DEF HandleSetTradeItem
<1>4. CASE CastOnTradeItem(p)
  <2>1. DeskOK(SetSpell(desk, p, TRUE, count), count)
    BY <1>4, DeskFacts, SetSpellKeeps, WholeIsNearlyOK DEF CastOnTradeItem
  <2> QED
    BY <1>4, <2>1, BecomesKeeps DEF CastOnTradeItem
<1> QED
  BY <1>1, <1>2, <1>3, <1>4

(* HandleAcceptTrade when the spell on the item cannot be cast. *)
LEMMA SpellFailsKeeps ==
  ASSUME IInv, NEW p \in Players, NEW v \in 1 .. Len(shown[p]), AcceptSpellFails(p, v)
  PROVE  IInv'
<1> DEFINE d == [desk EXCEPT !.trade[p].accepted = TRUE]
           q == Partner(p)
<1>1. PICK k \in {p, q} : /\ m_trade[k].spell
                          /\ Becomes(SetSpell(d, k, FALSE, count))
  BY DEF AcceptSpellFails
<1>2. Trading(p) /\ UNCHANGED <<agreed, possessions>>
  BY DEF AcceptSpellFails, Checked, Accepting
<1>3. /\ m_trade[p] \in TradeData /\ q \in Players /\ q # p /\ Trading(q) /\ m_trade[q] \in TradeData
      /\ Partner(q) = p
  BY <1>2, TradersKnown DEF IInv
<1>4. /\ d = [trade |-> [desk.trade EXCEPT ![p] = Marked(m_trade[p], TRUE)], shown |-> shown]
      /\ m_trade \in [Players -> TradeData \cup {None}]
  <2>1. d = [trade |-> [desk.trade EXCEPT ![p] = Marked(desk.trade[p], TRUE)], shown |-> desk.shown]
    BY <1>2, DeskFacts, MarkedDesk
  <2>2. m_trade \in [Players -> TradeData \cup {None}]
    BY DEF IInv, TradeTypeOK
  <2> HIDE DEF d
  <2> QED
    BY <2>1, <2>2, DeskFacts
<1>5. /\ d.trade = [m_trade EXCEPT ![p] = Marked(m_trade[p], TRUE)] /\ d.shown = shown
      /\ Marked(m_trade[p], TRUE) \in TradeData /\ SameOffer(Marked(m_trade[p], TRUE), m_trade[p])
  BY <1>3, <1>4, DeskFacts, SetAccepted
<1> HIDE DEF d, q
<1>6. \A r \in Players : /\ d.trade[r] # None <=> m_trade[r] # None
                         /\ d.trade[r] # None => SameOffer(d.trade[r], m_trade[r])
  <2> TAKE r \in Players
  <2>1. CASE r = p
    BY <2>1, <1>2, <1>4, <1>5, NoneAssumption DEF Trading
  <2>2. CASE r # p
    BY <2>2, <1>4, <1>5 DEF SameOffer
  <2> QED
    BY <2>1, <2>2
<1>7. d \in Desks
  <2>1. d.trade \in [Players -> TradeData \cup {None}]
    BY <1>4, <1>5
  <2> QED
    BY <2>1, <1>4, <1>5 DEF Desks, IInv, TradeTypeOK
<1>8. PairedIn(m_trade) /\ \A r \in Players : m_trade[r] # None =>
        Sees(desk, count, r) /\ Agrees(desk, r) /\ m_trade[r].trader \in Players
  BY <1>4, DeskFacts DEF DeskOK, TradeData
<1>9. PairedIn(d.trade)
  BY <1>6, <1>8 DEF PairedIn, SameOffer
<1>10. ASSUME NEW r \in Players, d.trade[r] # None PROVE Sees(d, count, r)
  <2> DEFINE o == m_trade[r].trader
  <2>1. Sees(desk, count, r) /\ o \in Players /\ d.trade[r].trader = o /\ m_trade[o] # None
    BY <1>6, <1>8, <1>10 DEF SameOffer, PairedIn
  <2> HIDE DEF o
  <2>2. Offer(d.trade[o], o, count) = Offer(m_trade[o], o, count)
    BY <2>1, <1>6, OfferOnly DEF SameOffer
  <2> QED
    BY <2>1, <2>2, <1>5, DeskFacts DEF Sees, o
<1>11. ASSUME NEW r \in Players, d.trade[r] # None, r \notin {p, q} PROVE Agrees(d, r)
  BY <1>4, <1>5, <1>6, <1>8, <1>11, DeskFacts DEF Agrees
<1>12. d.trade[k].trader \in {p, q} /\ d.trade[k].trader # k /\ d.trade[k] # None /\ k \in Players
  BY <1>1, <1>2, <1>3, <1>6 DEF SameOffer, Partner, Trading, q
<1>13. NearlyOK(d, count, k)
  BY <1>1, <1>7, <1>9, <1>10, <1>11, <1>12 DEF NearlyOK
<1>14. d.trade[k].spell = m_trade[k].spell
  BY <1>6, <1>12 DEF SameOffer
<1>15. DeskOK(SetSpell(d, k, FALSE, count), count)
  BY <1>1, <1>12, <1>13, <1>14, DeskFacts, SetSpellKeeps
<1> QED
  BY <1>1, <1>2, <1>15, BecomesKeeps

(* Nothing leaves or enters anybody's hands. *)
LEMMA WindowOnly ==
  ASSUME IInv, UNCHANGED <<updates, possessions>>, DeskInv', agreed' \in [Players -> Nat]
  PROVE  IInv'
<1>1. desk' \in Desks
  BY DEF DeskInv, DeskOK
<1>2. m_trade' \in [Players -> TradeData \cup {None}] /\ shown' \in [Players -> Seq(Offers)]
  BY <1>1 DEF desk, Desks
<1>3. TradeTypeOK'
  BY <1>2 DEF IInv, TradeTypeOK, possessions
<1>4. ItemsInv'
  BY DEF IInv, ItemsInv, possessions
<1> QED
  BY <1>3, <1>4 DEF IInv

(* HandleInitiateTrade: two idle players become partners. *)
LEMMA InitiateKeeps ==
  ASSUME IInv, NEW p \in Players, NEW q \in Players, HandleInitiateTrade(p, q)
  PROVE  IInv'
<1>1. /\ p # q /\ m_trade[p] = None /\ m_trade[q] = None
      /\ m_trade' = [m_trade EXCEPT ![p] = NewTrade(q), ![q] = NewTrade(p)]
      /\ shown' = [shown EXCEPT ![p] = <<NothingOffered>>, ![q] = <<NothingOffered>>]
      /\ agreed' = [agreed EXCEPT ![p] = 0, ![q] = 0]
      /\ UNCHANGED <<updates, possessions>>
  BY DEF HandleInitiateTrade, Begins, Trading
<1>2. /\ m_trade \in [Players -> TradeData \cup {None}] /\ shown \in [Players -> Seq(Offers)]
      /\ agreed \in [Players -> Nat]
  BY DEF IInv, TradeTypeOK
<1>3. \A r \in Players : /\ NewTrade(r) \in TradeData /\ NewTrade(r) # None /\ NewTrade(r).trader = r
                         /\ NewTrade(r).accepted = FALSE /\ NewTrade(r).money = 0
                         /\ NewTrade(r).spell = FALSE /\ NewTrade(r).slot = [s \in Slots |-> None]
  <2> TAKE r \in Players
  <2>1. 0 \in 0 .. MaxMoney
    BY MoneyAssumption
  <2>2. NewTrade(r) \in TradeData
    BY <2>1 DEF NewTrade, TradeData, Windows
  <2>3. NewTrade(r) # None
    BY <2>2, NoneAssumption
  <2> QED
    BY <2>2, <2>3 DEF NewTrade
<1>4. NothingOffered \in Offers
  BY MoneyAssumption DEF NothingOffered, Offers, Goods
<1>5. /\ m_trade'[p] = NewTrade(q) /\ m_trade'[q] = NewTrade(p)
      /\ shown'[p] = <<NothingOffered>> /\ shown'[q] = <<NothingOffered>>
      /\ \A r \in Players \ {p, q} : m_trade'[r] = m_trade[r] /\ shown'[r] = shown[r] /\ agreed'[r] = agreed[r]
      /\ m_trade' \in [Players -> TradeData \cup {None}] /\ shown' \in [Players -> Seq(Offers)]
      /\ agreed' \in [Players -> Nat]
  <2>1. <<NothingOffered>> \in Seq(Offers)
    BY <1>4
  <2> QED
    BY <1>1, <1>2, <1>3, <2>1
<1>6. desk' \in Desks /\ desk'.trade = m_trade' /\ desk'.shown = shown'
  BY <1>5 DEF desk, Desks
<1>7. ASSUME NEW r \in Players \ {p, q}, m_trade[r] # None
      PROVE  m_trade[r].trader \in Players \ {p, q} /\ Sees(desk, count, r) /\ Agrees(desk, r)
  BY <1>1, <1>7, TradersKnown DEF Trading, Partner, IInv
<1>8. PairedIn(m_trade')
  <2> SUFFICES ASSUME NEW r \in Players, m_trade'[r] # None
               PROVE  m_trade'[r].trader # r /\ m_trade'[m_trade'[r].trader] # None
                      /\ m_trade'[m_trade'[r].trader].trader = r
    BY DEF PairedIn
  <2>1. CASE r \in {p, q}
    BY <2>1, <1>1, <1>3, <1>5
  <2>2. CASE r \notin {p, q}
    <3>1. m_trade[r].trader \in Players \ {p, q} /\ m_trade'[r] = m_trade[r]
      BY <2>2, <1>5, <1>7
    <3>2. /\ m_trade[r].trader # r /\ m_trade[m_trade[r].trader] # None
          /\ m_trade[m_trade[r].trader].trader = r
      BY <3>1, TradersKnown DEF IInv, Trading, Partner
    <3>3. m_trade'[m_trade[r].trader] = m_trade[m_trade[r].trader]
      BY <3>1, <1>5
    <3> QED
      BY <3>1, <3>2, <3>3
  <2> QED
    BY <2>1, <2>2
<1>9. ASSUME NEW r \in Players, m_trade'[r] # None PROVE Sees(desk, count, r)' /\ Agrees(desk, r)'
  <2>1. CASE r \in {p, q}
    <3>1. PICK o \in {p, q} : m_trade'[r] = NewTrade(o) /\ m_trade'[o] = NewTrade(r)
      BY <2>1, <1>5
    <3>2. Offer(m_trade[o], o, count)' = NothingOffered
      <4>1. \A s \in Slots : (m_trade'[o].slot)[s] = None
        BY <3>1, <1>3
      <4>2. \A i \in bag'[o] : i # None
        BY <1>1, NoneAssumption DEF IInv, TradeTypeOK, possessions
      <4>3. \A s \in Slots : GetItem(m_trade[o], o, s)' = None
        BY <4>1, <4>2 DEF GetItem
      <4> QED
        BY <3>1, <1>3, <4>3 DEF Offer, NothingOffered
    <3>3. shown'[r] = <<NothingOffered>> /\ m_trade'[r].trader = o /\ ~m_trade'[r].accepted
      BY <2>1, <3>1, <1>3, <1>5
    <3>4. Len(shown'[r]) = 1 /\ shown'[r][Len(shown'[r])] = NothingOffered
      BY <3>3
    <3> QED
      BY <3>2, <3>3, <3>4, <1>6 DEF Sees, Agrees
  <2>2. CASE r \notin {p, q}
    <3> DEFINE o == m_trade[r].trader
    <3>1. o \in Players \ {p, q} /\ m_trade'[r] = m_trade[r] /\ m_trade'[o] = m_trade[o] /\ Trading(r)
          /\ shown'[r] = shown[r] /\ agreed'[r] = agreed[r] /\ Sees(desk, count, r) /\ Agrees(desk, r)
      BY <2>2, <1>5, <1>7, <1>9 DEF Trading
    <3>2. SameOffer(m_trade'[o], m_trade[o]) /\ m_trade'[r].trader = o /\ bag' = bag /\ count' = count
      BY <3>1, <1>1 DEF SameOffer, possessions
    <3>3. o = m_trade[r].trader
      OBVIOUS
    <3> HIDE DEF o
    <3>4. Sees(desk, count, r)'
      BY <3>1, <3>2, <3>3, SeesStill DEF IInv
    <3> QED
      BY <3>1, <3>4, <1>6, DeskFacts DEF Agrees
  <2> QED
    BY <2>1, <2>2
<1>10. DeskInv'
  BY <1>6, <1>8, <1>9 DEF DeskInv, DeskOK
<1> QED
  BY <1>1, <1>5, <1>10, WindowOnly

(* Only acceptances change, and p accepts what is shown now. *)
LEMMA AcceptsKeeps ==
  ASSUME IInv, NEW p \in Players, NEW v \in 1 .. Len(shown[p]), Trading(p),
         NEW mine \in BOOLEAN, NEW his \in BOOLEAN, mine => v = Len(shown[p]),
         Accepts(p, v, mine, his)
  PROVE  IInv'
<1> DEFINE q == Partner(p)
           theirs == his /\ m_trade[q].accepted
<1>1. /\ m_trade[p] \in TradeData /\ q \in Players /\ q # p /\ Trading(q) /\ m_trade[q] \in TradeData
      /\ Partner(q) = p /\ Agrees(desk, q)
  BY TradersKnown DEF IInv
<1>2. /\ m_trade \in [Players -> TradeData \cup {None}] /\ shown \in [Players -> Seq(Offers)]
      /\ agreed \in [Players -> Nat] /\ TradeTypeOK /\ DeskInv
  BY DEF IInv, TradeTypeOK
<1>3. theirs \in BOOLEAN
  OBVIOUS
<1>4. m_trade' = [m_trade EXCEPT ![p].accepted = mine, ![q].accepted = theirs]
  BY <1>1, <1>2 DEF Accepts
<1> HIDE DEF q, theirs
<1>5. /\ m_trade'[p] = Marked(m_trade[p], mine) /\ m_trade'[q] = Marked(m_trade[q], theirs)
      /\ \A r \in Players \ {p, q} : m_trade'[r] = m_trade[r]
      /\ m_trade' = [r \in Players |-> m_trade'[r]]
  BY <1>1, <1>2, <1>4 DEF Marked
<1>6. /\ agreed' = [agreed EXCEPT ![p] = IF mine THEN v ELSE @]
      /\ shown' = shown /\ UNCHANGED <<updates, possessions>>
  BY DEF Accepts
<1>7. /\ agreed' \in [Players -> Nat]
      /\ \A r \in Players \ {p} : agreed'[r] = agreed[r]
      /\ (mine => agreed'[p] = Len(shown[p]))
  BY <1>2, <1>6
<1>8. /\ m_trade'[p] \in TradeData /\ SameOffer(m_trade'[p], m_trade[p]) /\ m_trade'[p].accepted = mine
      /\ m_trade'[q] \in TradeData /\ SameOffer(m_trade'[q], m_trade[q]) /\ m_trade'[q].accepted = theirs
  BY <1>1, <1>3, <1>5, SetAccepted, ZenonT(60)
<1>9. \A r \in Players : /\ m_trade'[r] \in TradeData \cup {None}
                         /\ m_trade'[r] # None <=> m_trade[r] # None
                         /\ m_trade'[r] # None => SameOffer(m_trade'[r], m_trade[r])
  <2> TAKE r \in Players
  <2>1. CASE r = p
    BY <2>1, <1>8, NoneAssumption DEF Trading
  <2>2. CASE r = q
    BY <2>2, <1>1, <1>8, NoneAssumption DEF Trading
  <2>3. CASE r \notin {p, q}
    BY <2>3, <1>2, <1>5 DEF SameOffer
  <2> QED
    BY <2>1, <2>2, <2>3
<1>10. TradeTypeOK'
  <2>1. m_trade' \in [Players -> TradeData \cup {None}]
    BY <1>5, <1>9
  <2> QED
    BY <2>1, <1>2, <1>6, <1>7 DEF TradeTypeOK, possessions
<1>11. ASSUME NEW r \in Players, m_trade'[r] # None
       PROVE  LET o == m_trade[r].trader IN
                /\ m_trade[r] # None /\ o \in Players /\ o # r /\ m_trade[o] # None
                /\ m_trade[o].trader = r /\ m_trade'[r].trader = o /\ SameOffer(m_trade'[o], m_trade[o])
                /\ m_trade'[o] # None /\ m_trade'[o].trader = r
  <2>1. m_trade[r] # None /\ m_trade'[r].trader = m_trade[r].trader
    BY <1>9, <1>11 DEF SameOffer
  <2>2. /\ m_trade[r].trader \in Players /\ m_trade[m_trade[r].trader] # None
        /\ m_trade[r].trader # r /\ m_trade[m_trade[r].trader].trader = r
    BY <2>1, <1>2, TradersKnown DEF Trading, Partner
  <2> QED
    BY <2>1, <2>2, <1>9 DEF SameOffer
<1>12. PairedIn(m_trade')
  BY <1>11 DEF PairedIn
<1>13. ASSUME NEW r \in Players, m_trade'[r] # None, m_trade'[r].accepted
       PROVE  agreed'[r] = Len(shown[r])
  <2>1. Agrees(desk, r)
    BY <1>2, <1>9, <1>13, TradersKnown DEF Trading
  <2>2. m_trade[r].accepted => agreed[r] = Len(shown[r])
    BY <2>1 DEF Agrees, desk
  <2>3. CASE r = p
    <3>1. mine
      BY <2>3, <1>8, <1>13, Zenon
    <3> QED
      BY <2>3, <3>1, <1>7
  <2>4. CASE r = q
    BY <2>2, <2>4, <1>1, <1>7, <1>8, <1>13 DEF theirs
  <2>5. CASE r \notin {p, q}
    BY <2>2, <2>5, <1>5, <1>7, <1>13
  <2> QED
    BY <2>3, <2>4, <2>5
<1>14. DeskInv'
  BY <1>2, <1>6, <1>10, <1>11, <1>12, <1>13, DeskStill DEF Trading, possessions
<1> QED
  BY <1>6, <1>7, <1>14, WindowOnly

(* HandleUnacceptTrade. *)
LEMMA UnacceptKeeps ==
  ASSUME IInv, NEW p \in Players, HandleUnacceptTrade(p)
  PROVE  IInv'
<1> DEFINE q == Partner(p)
<1>1. Trading(p)
  BY DEF HandleUnacceptTrade
<1>2. /\ m_trade[p] \in TradeData /\ q \in Players /\ q # p /\ m_trade[q] \in TradeData
      /\ Sees(desk, count, p)
  BY <1>1, TradersKnown DEF IInv
<1>3. m_trade \in [Players -> TradeData \cup {None}] /\ shown \in [Players -> Seq(Offers)]
      /\ agreed \in [Players -> Nat]
  BY DEF IInv, TradeTypeOK
<1>4. m_trade' = [m_trade EXCEPT ![p].accepted = FALSE, ![q].accepted = TRUE /\ @]
  <2>1. m_trade[q] = [m_trade[q] EXCEPT !.accepted = TRUE /\ @]
    BY <1>2 DEF TradeData
  <2> QED
    BY <1>2, <1>3, <2>1 DEF HandleUnacceptTrade
<1>5. Len(shown[p]) \in 1 .. Len(shown[p])
  BY <1>2, <1>3 DEF Sees, desk
<1>6. Accepts(p, Len(shown[p]), FALSE, TRUE)
  BY <1>3, <1>4 DEF Accepts, HandleUnacceptTrade
<1> QED
  BY <1>1, <1>5, <1>6, AcceptsKeeps

(* The trade of p ends, whatever p and the partner then own. *)
LEMMA NoTradeKeeps ==
  ASSUME IInv, NEW p \in Players, Trading(p), NoTrade(p, Partner(p)),
         \A r \in Players \ {p, Partner(p)} : bag'[r] = bag[r] /\ \A i \in bag[r] : count'[i] = count[i]
  PROVE  /\ m_trade' \in [Players -> TradeData \cup {None}] /\ shown' \in [Players -> Seq(Offers)]
         /\ agreed' \in [Players -> Nat] /\ updates' = updates
         /\ TradeTypeOK' => DeskInv'
<1> DEFINE q == Partner(p)
<1>1. q \in Players /\ q # p /\ Partner(q) = p
  BY TradersKnown DEF IInv
<1>2. /\ m_trade \in [Players -> TradeData \cup {None}] /\ shown \in [Players -> Seq(Offers)]
      /\ agreed \in [Players -> Nat] /\ TradeTypeOK /\ DeskInv
  BY DEF IInv, TradeTypeOK
<1> HIDE DEF q
<1>3. /\ m_trade' = [m_trade EXCEPT ![p] = None, ![q] = None]
      /\ shown' = [shown EXCEPT ![p] = <<>>, ![q] = <<>>]
      /\ agreed' = [agreed EXCEPT ![p] = 0, ![q] = 0] /\ updates' = updates
  BY DEF NoTrade, q
<1>4. /\ m_trade' \in [Players -> TradeData \cup {None}] /\ shown' \in [Players -> Seq(Offers)]
      /\ agreed' \in [Players -> Nat]
      /\ m_trade'[p] = None /\ m_trade'[q] = None
      /\ \A r \in Players \ {p, q} : m_trade'[r] = m_trade[r] /\ shown'[r] = shown[r] /\ agreed'[r] = agreed[r]
  <2>0. <<>> \in Seq(Offers)
    OBVIOUS
  <2>1. shown' \in [Players -> Seq(Offers)] /\ \A r \in Players \ {p, q} : shown'[r] = shown[r]
    <3>1. \A e \in Seq(Offers) :
             [shown EXCEPT ![p] = e, ![q] = e] \in [Players -> Seq(Offers)]
             /\ \A r \in Players \ {p, q} : [shown EXCEPT ![p] = e, ![q] = e][r] = shown[r]
      BY <1>1, <1>2
    <3> QED
      BY <2>0, <3>1, <1>3
  <2>2. agreed' \in [Players -> Nat] /\ \A r \in Players \ {p, q} : agreed'[r] = agreed[r]
    BY <1>1, <1>2, <1>3
  <2>3. /\ m_trade' \in [Players -> TradeData \cup {None}] /\ m_trade'[p] = None /\ m_trade'[q] = None
        /\ \A r \in Players \ {p, q} : m_trade'[r] = m_trade[r]
    BY <1>1, <1>2, <1>3
  <2> QED
    BY <2>1, <2>2, <2>3
<1>5. ASSUME NEW r \in Players, m_trade'[r] # None
      PROVE  LET o == m_trade[r].trader IN
               /\ m_trade[r] # None /\ r \notin {p, q} /\ o \in Players \ {p, q} /\ m_trade[o] # None
               /\ o # r /\ m_trade[o].trader = r /\ m_trade'[r] = m_trade[r] /\ m_trade'[o] = m_trade[o]
               /\ m_trade[r].accepted => agreed[r] = Len(shown[r])
  <2>1. r \notin {p, q} /\ m_trade'[r] = m_trade[r] /\ m_trade[r] # None
    BY <1>4, <1>5
  <2>2. /\ m_trade[r].trader \in Players /\ m_trade[m_trade[r].trader] # None
        /\ m_trade[r].trader # r /\ m_trade[m_trade[r].trader].trader = r /\ Agrees(desk, r)
    BY <2>1, <1>2, TradersKnown DEF Trading, Partner
  <2>3. m_trade[r].trader \notin {p, q}
    BY <2>1, <2>2, <1>1 DEF Partner, q
  <2>4. m_trade[r].accepted => agreed[r] = Len(shown[r])
    BY <2>2 DEF Agrees, desk
  <2> QED
    BY <2>1, <2>2, <2>3, <2>4, <1>4
<1>6. PairedIn(m_trade')
  BY <1>5 DEF PairedIn
<1>7. ASSUME NEW r \in Players, m_trade'[r] # None
      PROVE  LET o == m_trade[r].trader IN
               /\ m_trade[r] # None /\ m_trade'[r].trader = o /\ SameOffer(m_trade'[o], m_trade[o])
               /\ shown'[r] = shown[r] /\ (m_trade'[r].accepted => agreed'[r] = Len(shown[r]))
               /\ bag'[o] = bag[o] /\ \A i \in bag[o] : count'[i] = count[i]
  BY <1>4, <1>5, <1>7, ZenonT(60) DEF SameOffer, q
<1>8. TradeTypeOK' => DeskInv'
  BY <1>2, <1>6, <1>7, DeskStill DEF Trading
<1> QED
  BY <1>3, <1>4, <1>8

(* TradeCancel takes the trade away from both. *)
LEMMA CancelKeeps ==
  ASSUME IInv, NEW p \in Players, TradeCancel(p)
  PROVE  IInv'
<1>1. Trading(p) /\ NoTrade(p, Partner(p)) /\ count' = count /\ bag' = bag
  BY DEF TradeCancel, possessions
<1>2. TradeTypeOK'
  BY <1>1, NoTradeKeeps DEF IInv, TradeTypeOK, TradeCancel, possessions
<1> QED
  BY <1>1, <1>2, NoTradeKeeps, WindowOnly DEF TradeCancel, possessions

(* What a save writes. *)
LEMMA RowsWritten ==
  ASSUME IInv, NEW p \in Players, NEW b \in [Players -> SUBSET Items], NEW c \in Counts,
         NEW m \in [Players -> 0 .. MaxMoney], NEW stale \in SUBSET saved[p].bag, \A i \in b[p] : c[i] > 0
  PROVE  LET w == RowsWith(p, b, c, m, stale) IN
         /\ w \in Rows /\ w.bag = b[p] \cup stale
         /\ \A i \in Items : w.count[i] > 0 <=> i \in b[p] \cup stale
         /\ w.money = m[p] /\ w.spent = spent[p]
<1> DEFINE w == RowsWith(p, b, c, m, stale)
           n == [i \in Items |-> IF i \in stale THEN saved[p].count[i] ELSE IF i \in b[p] THEN c[i] ELSE 0]
<1>1. w = [bag |-> b[p] \cup stale, count |-> n, money |-> m[p], spent |-> spent[p]]
  <2> DEFINE k == [i \in Items |-> IF i \in b[p] THEN c[i] ELSE 0]
             o == RowsOf(p, b, c, m)
  <2>1. o = [bag |-> b[p], count |-> k, money |-> m[p], spent |-> spent[p]]
    BY DEF RowsOf
  <2>2. w = [o EXCEPT !.bag = o.bag \cup stale,
                      !.count = [i \in Items |-> IF i \in stale THEN saved[p].count[i] ELSE o.count[i]]]
    BY DEF RowsWith
  <2>3. n = [i \in Items |-> IF i \in stale THEN saved[p].count[i] ELSE k[i]]
    OBVIOUS
  <2> HIDE DEF o, k, n, w
  <2> QED
    BY <2>1, <2>2, <2>3
<1>2. /\ saved[p].bag \subseteq Items /\ saved[p].count \in [Items -> Nat] /\ spent[p] \in Nat
      /\ \A i \in Items : saved[p].count[i] > 0 <=> i \in saved[p].bag
  BY DEF IInv, ItemsInv, TradeTypeOK, Rows
<1>3. n \in [Items -> Nat] /\ \A i \in Items : n[i] > 0 <=> i \in b[p] \cup stale
  BY <1>2 DEF Counts
<1> HIDE DEF n, w
<1>4. w \in Rows
  BY <1>1, <1>2, <1>3 DEF Rows
<1>5. w.bag = b[p] \cup stale /\ w.count = n /\ w.money = m[p] /\ w.spent = spent[p]
  BY <1>1
<1> QED
  BY <1>3, <1>4, <1>5 DEF w

(* SaveToDB of one player writes its rows, and no other. *)
LEMMA SavesWrites ==
  ASSUME IInv, NEW p \in Players, NEW stale \in StaleRows(p, bag, lost), Saves(p, stale)
  PROVE  /\ stale \subseteq saved[p].bag /\ stale \subseteq lost
         /\ IsFiniteSet(bag[p] \cup stale) /\ Cardinality(bag[p] \cup stale) <= BagSize[p]
         /\ saved' \in [Players -> Rows] /\ saved'[p].bag = bag[p] \cup stale
         /\ \A i \in Items : saved'[p].count[i] > 0 <=> i \in bag[p] \cup stale
         /\ saved'[p].money = money[p] /\ saved'[p].spent = spent[p]
         /\ \A r \in Players \ {p} : saved'[r] = saved[r]
<1>1. /\ bag \in [Players -> SUBSET Items] /\ money \in [Players -> 0 .. MaxMoney] /\ count \in Counts
      /\ saved \in [Players -> Rows] /\ Cardinality(bag[p]) <= BagSize[p]
  BY DEF IInv, TradeTypeOK, Counts
<1>2. \A i \in bag[p] : count[i] > 0
  BY <1>1 DEF IInv, ItemsInv
<1>3. /\ stale \subseteq saved[p].bag /\ stale \subseteq lost
      /\ stale = {} \/ Cardinality(bag[p] \cup stale) <= BagSize[p]
  BY DEF StaleRows
<1>4. IsFiniteSet(bag[p] \cup stale)
  <2>1. IsFiniteSet(bag[p]) /\ IsFiniteSet(saved[p].bag) /\ bag[p] \subseteq saved[p].bag
    BY DEF IInv, ItemsInv
  <2> QED
    BY <2>1, <1>3, FS_Subset
<1>5. Cardinality(bag[p] \cup stale) <= BagSize[p]
  BY <1>1, <1>3
<1> DEFINE w == RowsWith(p, bag, count, money, stale)
<1>6. /\ w \in Rows /\ w.bag = bag[p] \cup stale /\ w.money = money[p] /\ w.spent = spent[p]
      /\ \A i \in Items : w.count[i] > 0 <=> i \in bag[p] \cup stale
  BY <1>1, <1>2, <1>3, RowsWritten
<1>7. saved' = [saved EXCEPT ![p] = w]
  BY DEF Saves
<1> HIDE DEF w
<1>8. saved' \in [Players -> Rows] /\ saved'[p] = w /\ \A q \in Players \ {p} : saved'[q] = saved[q]
  BY <1>1, <1>6, <1>7
<1> QED
  BY <1>3, <1>4, <1>5, <1>6, <1>8

(* The periodic save. *)
LEMMA SaveToDBKeeps ==
  ASSUME IInv, NEW p \in Players, SaveToDB(p)
  PROVE  IInv'
<1>0. /\ UNCHANGED <<m_trade, shown, agreed, updates, start, bag, count, money, spent, lost, copies>>
      /\ \E stale \in StaleRows(p, bag, lost) : Saves(p, stale)
  BY DEF SaveToDB
<1>1. PICK stale \in StaleRows(p, bag, lost) : Saves(p, stale)
  BY <1>0
<1>2. /\ stale \subseteq saved[p].bag /\ stale \subseteq lost
      /\ IsFiniteSet(bag[p] \cup stale) /\ Cardinality(bag[p] \cup stale) <= BagSize[p]
      /\ saved' \in [Players -> Rows] /\ saved'[p].bag = bag[p] \cup stale
      /\ \A i \in Items : saved'[p].count[i] > 0 <=> i \in bag[p] \cup stale
      /\ \A r \in Players \ {p} : saved'[r] = saved[r]
  BY <1>1, SavesWrites
<1>3. TradeTypeOK'
  BY <1>0, <1>2 DEF IInv, TradeTypeOK
<1>4. DeskInv'
  BY <1>0, BecomesIsDesk DEF IInv, DeskInv, desk
<1>5. ItemsInv'
  <2>1. ASSUME NEW r \in Players
        PROVE  /\ IsFiniteSet(bag[r]) /\ bag[r] \subseteq saved'[r].bag
               /\ IsFiniteSet(saved'[r].bag) /\ Cardinality(saved'[r].bag) <= BagSize[r]
               /\ \A i \in Items : saved'[r].count[i] > 0 <=> i \in saved'[r].bag
               /\ \A i \in saved'[r].bag \ bag[r] : count[i] = 0 \/ i \in lost
               /\ saved'[r].bag \subseteq saved[r].bag
    <3>1. CASE r = p
      BY <3>1, <1>2 DEF IInv, ItemsInv
    <3>2. CASE r # p
      BY <3>2, <1>2 DEF IInv, ItemsInv
    <3> QED
      BY <3>1, <3>2
  <2>2. \A r, o \in Players : r # o => bag[r] \cap bag[o] = {} /\ saved'[r].bag \cap saved'[o].bag = {}
    BY <2>1 DEF IInv, ItemsInv
  <2>3. \A r \in Players : \A i \in saved'[r].bag : start.count[i] > 0 \/ i \in copies
    BY <2>1 DEF IInv, ItemsInv
  <2> QED
    BY <1>0, <2>1, <2>2, <2>3 DEF IInv, ItemsInv
<1> QED
  BY <1>3, <1>4, <1>5 DEF IInv

(* LogoutPlayer cancels the trade and saves; at the next login the items of  *)
(* stale rows are there again.                                               *)
LEMMA LogoutKeeps ==
  ASSUME IInv, NEW p \in Players, LogoutPlayer(p)
  PROVE  IInv'
<1>0. /\ UNCHANGED <<start, money, spent, copies>>
      /\ \/ Trading(p) /\ NoTrade(p, Partner(p))
         \/ ~Trading(p) /\ UNCHANGED <<m_trade, shown, agreed, updates>>
  BY DEF LogoutPlayer
<1>1. PICK stale \in StaleRows(p, bag, lost) :
        /\ Saves(p, stale)
        /\ bag' = [bag EXCEPT ![p] = @ \cup stale] /\ lost' = lost \ stale
        /\ count' = [i \in Items |-> IF i \in stale THEN saved[p].count[i] ELSE count[i]]
  BY DEF LogoutPlayer
<1>2. /\ stale \subseteq saved[p].bag /\ stale \subseteq lost
      /\ IsFiniteSet(bag[p] \cup stale) /\ Cardinality(bag[p] \cup stale) <= BagSize[p]
      /\ saved' \in [Players -> Rows] /\ saved'[p].bag = bag[p] \cup stale
      /\ \A i \in Items : saved'[p].count[i] > 0 <=> i \in bag[p] \cup stale
      /\ \A r \in Players \ {p} : saved'[r] = saved[r]
  BY <1>1, SavesWrites
<1>3. /\ bag \in [Players -> SUBSET Items] /\ count \in [Items -> Nat] /\ lost \subseteq Items
      /\ saved[p].bag \subseteq Items /\ saved[p].count \in [Items -> Nat]
      /\ \A i \in Items : saved[p].count[i] > 0 <=> i \in saved[p].bag
      /\ TradeTypeOK /\ DeskInv
  BY DEF IInv, TradeTypeOK, ItemsInv, Rows
<1>4. /\ bag' \in [Players -> SUBSET Items] /\ bag'[p] = bag[p] \cup stale
      /\ \A r \in Players \ {p} : bag'[r] = bag[r]
      /\ count' \in [Items -> Nat] /\ \A i \in stale : count'[i] > 0
      /\ \A i \in Items \ stale : count'[i] = count[i]
  BY <1>1, <1>2, <1>3
<1>5. \A r \in Players \ {p} : bag[r] \cap stale = {} /\ saved[r].bag \cap stale = {}
  BY <1>2 DEF IInv, ItemsInv
<1>6. \A r \in Players \ {p} : bag'[r] = bag[r] /\ \A i \in bag[r] : count'[i] = count[i]
  BY <1>3, <1>4, <1>5
<1>7. /\ m_trade' \in [Players -> TradeData \cup {None}] /\ shown' \in [Players -> Seq(Offers)]
      /\ agreed' \in [Players -> Nat] /\ updates' = updates
  <2>1. CASE Trading(p) /\ NoTrade(p, Partner(p))
    BY <2>1, <1>6, NoTradeKeeps
  <2>2. CASE ~Trading(p) /\ UNCHANGED <<m_trade, shown, agreed, updates>>
    BY <2>2, <1>3 DEF TradeTypeOK
  <2> QED
    BY <1>0, <2>1, <2>2
<1>8. TradeTypeOK'
  <2>1. \A r \in Players : Cardinality(bag'[r]) <= BagSize[r]
    BY <1>2, <1>3, <1>4 DEF TradeTypeOK
  <2>2. lost' \subseteq Items
    BY <1>1, <1>3
  <2> QED
    BY <1>0, <1>2, <1>3, <1>4, <1>7, <2>1, <2>2 DEF TradeTypeOK
<1>9. DeskInv'
  <2>1. CASE Trading(p) /\ NoTrade(p, Partner(p))
    BY <2>1, <1>6, <1>8, NoTradeKeeps
  <2>2. CASE ~Trading(p) /\ UNCHANGED <<m_trade, shown, agreed, updates>>
    <3>1. \A r \in Players : Trading(r) => /\ m_trade[r].trader \in Players \ {p} /\ Agrees(desk, r)
      BY <2>2, <1>3, TradersKnown DEF Partner
    <3>2. \A r \in Players : Trading(r) /\ m_trade[r].accepted => agreed[r] = Len(shown[r])
      BY <3>1 DEF Agrees, desk
    <3>3. PairedIn(m_trade)'
      BY <2>2, DeskFacts DEF DeskOK, PairedIn
    <3> QED
      BY <2>2, <1>3, <1>6, <1>8, <3>1, <3>2, <3>3, DeskStill DEF Trading, SameOffer
  <2> QED
    BY <1>0, <2>1, <2>2
<1>10. ItemsInv'
  <2>1. ASSUME NEW r \in Players
        PROVE  /\ IsFiniteSet(bag'[r]) /\ bag'[r] \subseteq saved'[r].bag
               /\ IsFiniteSet(saved'[r].bag) /\ Cardinality(saved'[r].bag) <= BagSize[r]
               /\ \A i \in Items : saved'[r].count[i] > 0 <=> i \in saved'[r].bag
               /\ \A i \in saved'[r].bag \ bag'[r] : count'[i] = 0 \/ i \in lost'
               /\ saved'[r].bag \subseteq saved[r].bag /\ saved[r].bag \subseteq Items
    <3>0. saved[r].bag \subseteq Items
      BY <1>3 DEF TradeTypeOK, Rows
    <3>1. CASE r = p
      BY <3>0, <3>1, <1>2, <1>4 DEF IInv, ItemsInv
    <3>2. CASE r # p
      <4>1. \A i \in saved[r].bag \ bag[r] : (count[i] = 0 \/ i \in lost) /\ i \in Items \ stale
        BY <3>0, <3>2, <1>5 DEF IInv, ItemsInv
      <4>2. \A i \in saved[r].bag \ bag[r] : count'[i] = 0 \/ i \in lost'
        BY <4>1, <1>1, <1>4
      <4> QED
        BY <3>0, <3>2, <4>2, <1>2, <1>4 DEF IInv, ItemsInv
    <3> QED
      BY <3>1, <3>2
  <2>2. \A r, o \in Players : r # o => bag'[r] \cap bag'[o] = {} /\ saved'[r].bag \cap saved'[o].bag = {}
    <3>1. \A r, o \in Players : r # o => saved[r].bag \cap saved[o].bag = {}
      BY DEF IInv, ItemsInv
    <3>2. \A r \in Players : bag'[r] \subseteq saved[r].bag /\ saved'[r].bag \subseteq saved[r].bag
      BY <2>1
    <3> QED
      BY <3>1, <3>2
  <2>3. \A r \in Players : \A i \in saved'[r].bag : start'.count[i] > 0 \/ i \in copies'
    BY <2>1, <1>0 DEF IInv, ItemsInv
  <2>4. ASSUME NEW i \in Items
        PROVE  /\ (count'[i] > 0 /\ i \notin lost') <=> \E r \in Players : i \in bag'[r]
               /\ count'[i] > 0 => start'.count[i] > 0 \/ i \in copies'
    <3>1. CASE i \in stale
      <4>1. start.count[i] > 0 \/ i \in copies
        BY <3>1, <1>2 DEF IInv, ItemsInv
      <4> QED
        BY <3>1, <4>1, <1>0, <1>1, <1>4
    <3>2. CASE i \notin stale
      <4>1. (\E r \in Players : i \in bag'[r]) <=> \E r \in Players : i \in bag[r]
        BY <3>2, <1>4
      <4>2. count'[i] = count[i] /\ (i \in lost' <=> i \in lost)
        BY <3>2, <1>1, <1>4
      <4> QED
        BY <4>1, <4>2, <1>0 DEF IInv, ItemsInv
    <3> QED
      BY <3>1, <3>2
  <2> QED
    BY <2>1, <2>2, <2>3, <2>4 DEF ItemsInv
<1> QED
  BY <1>8, <1>9, <1>10 DEF IInv

(* Money spent elsewhere while a trade is open. *)
LEMMA SpendKeeps ==
  ASSUME IInv, NEW p \in Players, SpendMoney(p)
  PROVE  IInv'
<1>1. money' \in [Players -> 0 .. MaxMoney] /\ spent' \in [Players -> Nat]
  BY MoneyAssumption DEF IInv, TradeTypeOK, SpendMoney
<1>2. TradeTypeOK'
  BY <1>1 DEF IInv, TradeTypeOK, SpendMoney
<1>3. DeskInv'
  BY BecomesIsDesk DEF IInv, DeskInv, SpendMoney, desk
<1>4. ItemsInv'
  BY DEF IInv, ItemsInv, SpendMoney
<1> QED
  BY <1>2, <1>3, <1>4 DEF IInv

(* A crash: the players come back as the database has them. *)
LEMMA CrashKeeps ==
  ASSUME IInv, Crash
  PROVE  IInv'
<1>1. saved \in [Players -> Rows] /\ UNCHANGED <<updates, start, saved, copies>>
  BY DEF IInv, TradeTypeOK, Crash
<1>2. \A p \in Players : /\ saved[p].bag \in SUBSET Items /\ saved[p].count \in [Items -> Nat]
                         /\ saved[p].money \in 0 .. MaxMoney /\ saved[p].spent \in Nat
                         /\ IsFiniteSet(saved[p].bag) /\ Cardinality(saved[p].bag) <= BagSize[p]
                         /\ \A i \in Items : saved[p].count[i] > 0 <=> i \in saved[p].bag
  BY <1>1 DEF Rows, IInv, ItemsInv
<1>3. \A p, q \in Players : p # q => saved[p].bag \cap saved[q].bag = {}
  BY DEF IInv, ItemsInv
<1>4. ASSUME NEW i \in Items
      PROVE  LET S == {saved[p].count[i] : p \in Players} IN
             Max(S) \in Nat /\ (Max(S) > 0 <=> \E p \in Players : i \in saved[p].bag)
  <2> DEFINE S == {saved[p].count[i] : p \in Players}
  <2>1. S \subseteq Nat /\ S # {}
    BY <1>2, PlayersAssumption
  <2>2. \E x \in S : \A y \in S : x >= y
    <3>1. CASE \E p \in Players : i \in saved[p].bag
      <4>1. PICK p \in Players : i \in saved[p].bag
        BY <3>1
      <4>2. \A q \in Players : q # p => saved[q].count[i] = 0
        BY <4>1, <1>2, <1>3
      <4>3. saved[p].count[i] \in S /\ saved[p].count[i] \in Nat
        BY <1>2
      <4>4. \A y \in S : y = saved[p].count[i] \/ y = 0
        BY <4>2
      <4> HIDE DEF S
      <4> QED
        BY <4>3, <4>4
    <3>2. CASE ~ \E p \in Players : i \in saved[p].bag
      <4>1. \A q \in Players : saved[q].count[i] = 0
        BY <3>2, <1>2
      <4> QED
        BY <4>1, PlayersAssumption
    <3> QED
      BY <3>1, <3>2
  <2> HIDE DEF S
  <2>3. Max(S) \in S /\ \A y \in S : Max(S) >= y
    BY <2>2 DEF Max
  <2>4. PICK x : x = Max(S)
    OBVIOUS
  <2>5. x \in S /\ \A y \in S : x >= y
    BY <2>3, <2>4
  <2>6. x \in Nat /\ (x > 0 <=> \E p \in Players : i \in saved[p].bag)
    <3>1. PICK p \in Players : x = saved[p].count[i]
      BY <2>5 DEF S
    <3>2. \A q \in Players : saved[q].count[i] \in Nat /\ x >= saved[q].count[i]
      BY <2>5, <1>2 DEF S
    <3> QED
      BY <3>1, <3>2, <1>2
  <2> QED
    BY <2>4, <2>6 DEF S
<1>5. count' \in [Items -> Nat] /\ \A i \in Items : count'[i] > 0 <=> \E p \in Players : i \in saved[p].bag
  BY <1>4 DEF Crash
<1>6. \A p \in Players : bag'[p] = saved[p].bag
  BY DEF Crash
<1>7. TradeTypeOK'
  <2>1. bag' \in [Players -> SUBSET Items] /\ \A p \in Players : Cardinality(bag'[p]) <= BagSize[p]
    BY <1>2, <1>6 DEF Crash
  <2>2. money' \in [Players -> 0 .. MaxMoney] /\ spent' \in [Players -> Nat]
    BY <1>2 DEF Crash
  <2>3. m_trade' \in [Players -> TradeData \cup {None}] /\ agreed' \in [Players -> Nat]
        /\ shown' \in [Players -> Seq(Offers)]
    BY DEF Crash
  <2> QED
    BY <1>1, <1>5, <2>1, <2>2, <2>3 DEF IInv, TradeTypeOK, Crash
<1>8. ItemsInv'
  <2>1. \A i \in Items : i \in lost' => \A p \in Players : i \notin saved[p].bag
    BY DEF Crash
  <2>2. \A p \in Players : \A i \in saved[p].bag : start.count[i] > 0 \/ i \in copies
    BY DEF IInv, ItemsInv
  <2>3. \A i \in Items : /\ (count'[i] > 0 /\ i \notin lost') <=> \E p \in Players : i \in bag'[p]
                         /\ count'[i] > 0 => start.count[i] > 0 \/ i \in copies
    <3> TAKE i \in Items
    <3>1. (\E p \in Players : i \in bag'[p]) <=> \E p \in Players : i \in saved[p].bag
      BY <1>6
    <3>2. count'[i] > 0 <=> \E p \in Players : i \in saved[p].bag
      BY <1>5
    <3> QED
      BY <3>1, <3>2, <2>1, <2>2
  <2>4. ASSUME NEW r \in Players
        PROVE  /\ IsFiniteSet(bag'[r]) /\ bag'[r] = saved'[r].bag /\ Cardinality(saved'[r].bag) <= BagSize[r]
               /\ \A i \in Items : saved'[r].count[i] > 0 <=> i \in saved'[r].bag
               /\ \A i \in saved'[r].bag : start'.count[i] > 0 \/ i \in copies'
    BY <1>1, <1>2, <1>6, <2>2
  <2>5. \A r, o \in Players : r # o => bag'[r] \cap bag'[o] = {} /\ saved'[r].bag \cap saved'[o].bag = {}
    BY <1>1, <1>3, <1>6
  <2> QED
    BY <1>1, <2>3, <2>4, <2>5 DEF ItemsInv
<1>9. DeskInv'
  <2>1. \A r \in Players : m_trade'[r] = None
    BY DEF Crash
  <2> QED
    BY <1>7, <2>1, DeskStill DEF IInv, PairedIn, Trading
<1> QED
  BY <1>7, <1>8, <1>9 DEF IInv

(* What the invariant says of one item. *)
LEMMA ItemKnown ==
  ASSUME IInv, NEW i \in Items
  PROVE  /\ (count[i] > 0 /\ i \notin lost) <=> \E p \in Players : i \in bag[p]
         /\ count[i] > 0 => start.count[i] > 0 \/ i \in copies
  BY DEF IInv, ItemsInv

(* DestroyItem takes the item out of the bags. *)
LEMMA DestroyKeeps ==
  ASSUME IInv, NEW p \in Players, NEW i \in Items, DestroyItem(p, i)
  PROVE  IInv'
<1>1. /\ i \in bag[p] /\ bag' = [bag EXCEPT ![p] = @ \ {i}] /\ count' = [count EXCEPT ![i] = 0]
      /\ UNCHANGED <<m_trade, shown, agreed, updates, start, money, spent, saved, lost, copies>>
  BY DEF DestroyItem
<1>2. /\ bag \in [Players -> SUBSET Items] /\ count \in [Items -> Nat]
      /\ \A q \in Players : BagSize[q] \in Nat /\ Cardinality(bag[q]) <= BagSize[q] /\ IsFiniteSet(bag[q])
  BY BagAssumption DEF IInv, TradeTypeOK, ItemsInv
<1>3. /\ bag' \in [Players -> SUBSET Items] /\ count' \in [Items -> Nat]
      /\ bag'[p] = bag[p] \ {i} /\ \A q \in Players \ {p} : bag'[q] = bag[q]
      /\ count'[i] = 0 /\ \A j \in Items \ {i} : count'[j] = count[j]
  BY <1>1, <1>2
<1>4. IsFiniteSet(bag[p] \ {i}) /\ Cardinality(bag[p] \ {i}) <= BagSize[p]
  <2>1. IsFiniteSet(bag[p] \ {i}) /\ Cardinality(bag[p] \ {i}) <= Cardinality(bag[p])
    BY <1>2, FS_Subset
  <2>2. Cardinality(bag[p] \ {i}) \in Nat /\ Cardinality(bag[p]) \in Nat
    BY <1>2, <2>1, FS_CardinalityType
  <2> QED
    BY <1>2, <2>1, <2>2
<1>5. \A q \in Players : IsFiniteSet(bag'[q]) /\ Cardinality(bag'[q]) <= BagSize[q]
  BY <1>2, <1>3, <1>4
<1>6. TradeTypeOK'
  BY <1>1, <1>3, <1>5 DEF IInv, TradeTypeOK
<1>7. ItemsInv'
  <2>1. \A q \in Players : q # p => i \notin bag[q] /\ i \notin saved[q].bag
    BY <1>1 DEF IInv, ItemsInv
  <2>2. \A q \in Players : bag'[q] \subseteq bag[q]
    BY <1>3
  <2>3. \A q \in Players : \A j \in saved[q].bag \ bag'[q] : count'[j] = 0 \/ j \in lost
    <3> TAKE q \in Players
    <3> TAKE j \in saved[q].bag \ bag'[q]
    <3>1. CASE j = i
      BY <3>1, <1>3
    <3>2. CASE j # i
      <4>1. j \in saved[q].bag \ bag[q]
        BY <3>2, <1>3
      <4>2. j \in Items
        BY <4>1 DEF IInv, TradeTypeOK, Rows
      <4> QED
        BY <4>1, <4>2, <3>2, <1>3 DEF IInv, ItemsInv
    <3> QED
      BY <3>1, <3>2
  <2>4. \A j \in Items : /\ (count'[j] > 0 /\ j \notin lost) <=> \E q \in Players : j \in bag'[q]
                         /\ count'[j] > 0 => start.count[j] > 0 \/ j \in copies
    <3> TAKE j \in Items
    <3>1. CASE j = i
      <4>1. \A q \in Players : j \notin bag'[q]
        BY <3>1, <2>1, <1>3
      <4> QED
        BY <3>1, <4>1, <1>3
    <3>2. CASE j # i
      <4>1. (\E q \in Players : j \in bag'[q]) <=> \E q \in Players : j \in bag[q]
        BY <3>2, <1>3
      <4>2. count'[j] = count[j]
        BY <3>2, <1>3
      <4> QED
        BY <4>1, <4>2, ItemKnown
    <3> QED
      BY <3>1, <3>2
  <2>5. ASSUME NEW q \in Players
        PROVE  /\ bag[q] \subseteq saved[q].bag
               /\ IsFiniteSet(saved[q].bag) /\ Cardinality(saved[q].bag) <= BagSize[q]
               /\ \A j \in Items : saved[q].count[j] > 0 <=> j \in saved[q].bag
               /\ \A j \in saved[q].bag : start.count[j] > 0 \/ j \in copies
    BY DEF IInv, ItemsInv
  <2>6. \A q, r \in Players : q # r => bag'[q] \cap bag'[r] = {} /\ saved[q].bag \cap saved[r].bag = {}
    BY <2>2 DEF IInv, ItemsInv
  <2>7. \A q \in Players : bag'[q] \subseteq saved[q].bag
    BY <2>2, <2>5
  <2> QED
    BY <1>1, <1>5, <2>3, <2>4, <2>5, <2>6, <2>7 DEF ItemsInv
<1>8. \A q \in Players : \A j \in bag'[q] : j \in bag[q] /\ count'[j] = count[j]
  BY <1>1, <1>2, <1>3 DEF IInv, ItemsInv
<1>9. DeskInv'
  <2>1. \A r \in Players : Trading(r) => m_trade[r].trader \in Players /\ Agrees(desk, r)
    BY TradersKnown DEF IInv, Partner
  <2>2. \A r \in Players : Trading(r) /\ m_trade[r].accepted => agreed[r] = Len(shown[r])
    BY <2>1 DEF Agrees, desk
  <2>3. PairedIn(m_trade)'
    BY <1>1, DeskFacts DEF DeskOK, PairedIn
  <2> QED
    BY <1>1, <1>6, <1>8, <2>1, <2>2, <2>3, DeskStill DEF IInv, Trading, SameOffer
<1> QED
  BY <1>6, <1>7, <1>9 DEF IInv

(* A stack changes while it is offered. *)
LEMMA SetCountKeeps ==
  ASSUME IInv, NEW p \in Players, NEW i \in Items, SetCount(p, i)
  PROVE  IInv'
<1> DEFINE c == [count EXCEPT ![i] = @ - 1]
           slots == IF Trading(p) THEN {s \in Slots : m_trade[p].slot[s] = i} ELSE {}
<1>1. /\ i \in bag[p] /\ count[i] > 1 /\ count' = c
      /\ UNCHANGED <<agreed, start, bag, money, spent, saved, lost, copies>>
      /\ \/ slots = {} /\ UNCHANGED <<m_trade, shown, updates>>
         \/ \E s \in slots : Becomes(SetItem(desk, p, s, i, TRUE, c))
  BY DEF SetCount
<1>2. bag \in [Players -> SUBSET Items] /\ count \in [Items -> Nat] /\ TradeTypeOK /\ DeskInv
  BY DEF IInv, TradeTypeOK
<1>3. c \in Counts /\ c[i] > 0 /\ \A j \in Items \ {i} : c[j] = count[j]
  BY <1>1, <1>2 DEF Counts
<1> HIDE DEF c
<1>4. ItemsInv'
  <2>1. \A q \in Players : \A j \in saved[q].bag \ bag[q] : j # i
    BY <1>1 DEF IInv, ItemsInv
  <2>2. saved \in [Players -> Rows] /\ \A q \in Players : saved[q].bag \subseteq Items
    BY DEF IInv, TradeTypeOK, Rows
  <2>3. \A q \in Players : \A j \in saved[q].bag \ bag[q] : c[j] = 0 \/ j \in lost
    BY <2>1, <2>2, <1>3 DEF IInv, ItemsInv
  <2>4. \A j \in Items : c[j] > 0 <=> count[j] > 0
    BY <1>1, <1>2, <1>3
  <2> QED
    BY <1>1, <2>3, <2>4 DEF IInv, ItemsInv
<1>5. \A q \in Players \ {p} : \A j \in bag[q] : c[j] = count[j]
  BY <1>1, <1>2, <1>3 DEF IInv, ItemsInv
<1>6. CASE slots = {} /\ UNCHANGED <<m_trade, shown, updates>>
  <2>1. TradeTypeOK'
    BY <1>1, <1>2, <1>3, <1>6 DEF TradeTypeOK, Counts
  <2>2. \A r \in Players : Trading(r) => m_trade[r].trader \in Players /\ Agrees(desk, r)
    BY TradersKnown DEF IInv, Partner
  <2>3. \A r \in Players : Trading(r) /\ m_trade[r].accepted => agreed[r] = Len(shown[r])
    BY <2>2 DEF Agrees, desk
  <2>4. PairedIn(m_trade)'
    BY <1>6, DeskFacts DEF DeskOK, PairedIn
  <2>5. ASSUME NEW r \in Players, Trading(r), NEW s \in Slots, m_trade[m_trade[r].trader].slot[s] \in bag[m_trade[r].trader]
        PROVE  c[m_trade[m_trade[r].trader].slot[s]] = count[m_trade[m_trade[r].trader].slot[s]]
    <3>1. CASE m_trade[r].trader # p
      BY <3>1, <2>2, <2>5, <1>5
    <3>2. CASE m_trade[r].trader = p
      <4>1. Trading(p)
        BY <3>2, <2>5, <1>2, TradersKnown DEF Partner
      <4>2. m_trade[p].slot[s] # i
        BY <4>1, <1>6
      <4> QED
        BY <3>2, <4>2, <2>5, <1>2, <1>3
    <3> QED
      BY <3>1, <3>2
  <2>6. DeskInv'
    BY <1>1, <1>2, <1>6, <2>1, <2>2, <2>3, <2>4, <2>5, DeskStill DEF Trading, SameOffer
  <2> QED
    BY <1>4, <2>1, <2>6 DEF IInv
<1>7. CASE \E s \in slots : Becomes(SetItem(desk, p, s, i, TRUE, c))
  <2>1. PICK s \in Slots : Trading(p) /\ m_trade[p].slot[s] = i /\ Becomes(SetItem(desk, p, s, i, TRUE, c))
    BY <1>7
  <2> HIDE DEF slots
  <2>8. \A u \in Slots \ {s} : desk.trade[p].slot[u] # i
    <3>1. m_trade[p].slot \in Windows
      BY <2>1, <1>2, TradersKnown DEF TradeData
    <3> QED
      BY <2>1, <3>1, DeskFacts, NoneAssumption DEF Windows
  <2>2. ASSUME NEW r \in Players, desk.trade[r] # None, r # desk.trade[p].trader
        PROVE  Sees(desk, c, r)
    <3> DEFINE q == m_trade[r].trader
    <3>1. Trading(r)
      BY <2>2 DEF desk, Trading
    <3>2. q \in Players /\ q # p /\ Sees(desk, count, r)
      BY <2>1, <2>2, <3>1, <1>2, TradersKnown DEF Partner, desk
    <3>3. q = desk.trade[r].trader
      BY DEF desk
    <3> HIDE DEF q
    <3>4. Offer(desk.trade[q], q, c) = Offer(desk.trade[q], q, count)
      <4>1. \A k \in Slots : GetItem(desk.trade[q], q, k) # None =>
              c[GetItem(desk.trade[q], q, k)] = count[GetItem(desk.trade[q], q, k)]
        BY <3>2, <1>5 DEF GetItem
      <4> QED
        BY <4>1 DEF Offer
    <3> QED
      BY <3>2, <3>3, <3>4 DEF Sees
  <2>3. NearlyOK(desk, c, p)
    BY <2>2, DeskFacts DEF NearlyOK, DeskOK
  <2>4. DeskOK(SetItem(desk, p, s, i, TRUE, c), c)
    BY <2>1, <2>3, <2>8, <1>3, DeskFacts, SetItemKeeps
  <2>5. DeskInv'
    BY <1>1, <2>1, <2>4, BecomesIsDesk DEF Becomes
  <2>6. /\ m_trade' \in [Players -> TradeData \cup {None}] /\ shown' \in [Players -> Seq(Offers)]
    BY <2>1, <2>4 DEF DeskOK, Desks, Becomes
  <2>7. TradeTypeOK'
    <3>1. updates' \in Nat /\ count' \in [Items -> Nat]
      BY <1>1, <1>2, <1>3, <2>1 DEF TradeTypeOK, Counts, Becomes
    <3> QED
      BY <1>1, <1>2, <2>6, <3>1 DEF TradeTypeOK
  <2> QED
    BY <1>4, <2>5, <2>7 DEF IInv
<1> QED
  BY <1>1, <1>6, <1>7

(* Only what is in the bags can be traded. *)
LEMMA TradedFromBag ==
  ASSUME NEW p
  PROVE  TradedItems(p) \subseteq bag[p]
  BY DEF TradedItems, GetItem

(* ModifyMoney stays within 0 .. MAX_MONEY_AMOUNT, and adds up. *)
LEMMA ModifyMoneyType ==
  ASSUME NEW m \in 0 .. MaxMoney, NEW t \in 0 .. MaxMoney, NEW g \in 0 .. MaxMoney
  PROVE  /\ ModifyMoney(m, t, g) \in 0 .. MaxMoney
         /\ m >= t /\ m <= MaxMoney - g => ModifyMoney(m, t, g) = m - t + g
  BY MoneyAssumption DEF ModifyMoney

-----------------------------------------------------------------------------
(* moveItems. *)

(* Among the sets of a family of finite sets one is smallest. *)
LEMMA SmallestSet ==
  ASSUME NEW S, IsFiniteSet(S), NEW C, C \subseteq SUBSET S, C # {}
  PROVE  \E T \in C : \A x \in T : T \ {x} \notin C
<1>1. \A T \in SUBSET S : IsFiniteSet(T) /\ Cardinality(T) \in Nat
  BY FS_Subset, FS_CardinalityType
<1> DEFINE N == {Cardinality(T) : T \in C}
<1>2. N \subseteq Nat /\ N # {}
  BY <1>1
<1> HIDE DEF N
<1>3. \E n \in N : \A m \in N : ~(<<m, n>> \in OpToRel(<, Nat))
  BY <1>2, NatLessThanWellFounded, WFMin
<1>4. PICK n \in N : \A m \in N : ~(m < n)
  BY <1>2, <1>3 DEF OpToRel
<1>5. PICK T \in C : n = Cardinality(T)
  BY DEF N
<1>6. ASSUME NEW x \in T, T \ {x} \in C PROVE FALSE
  <2>1. IsFiniteSet(T) /\ Cardinality(T) \in Nat
    BY <1>1
  <2>2. Cardinality(T \ {x}) = Cardinality(T) - 1
    BY <2>1, FS_RemoveElement
  <2>3. Cardinality(T \ {x}) \in N
    BY <1>6 DEF N
  <2>4. Cardinality(T \ {x}) < n
    BY <2>1, <2>2, <1>5
  <2> QED BY <2>3, <2>4, <1>4
<1> QED BY <1>6

(* A finite set of slots has a last one ... *)
LEMMA LastSlot ==
  ASSUME NEW T, T \subseteq TradedSlots, T # {}
  PROVE  \E s \in T : \A t \in T : t <= s
<1> DEFINE C == {U \in SUBSET T : U # {} /\ \A s \in U : \E t \in U : ~(t <= s)}
<1>1. IsFiniteSet(T) /\ T \subseteq Nat
  BY SlotAssumption, FS_Subset
<1>2. ASSUME T \in C PROVE FALSE
  <2>1. PICK U \in C : \A x \in U : U \ {x} \notin C
    BY <1>1, <1>2, SmallestSet
  <2>2. U \in SUBSET T /\ U # {} /\ \A s \in U : \E t \in U : ~(t <= s)
    OBVIOUS
  <2>3. PICK y \in U : TRUE
    BY <2>2
  <2>4. U \ {y} = {} \/ \E s \in U \ {y} : \A t \in U \ {y} : t <= s
    BY <2>1, <2>2, <2>3
  <2> HIDE DEF C
  <2>5. \A t \in U : t \in Nat
    BY <2>2, <1>1
  <2>6. CASE U \ {y} = {}
    BY <2>2, <2>3, <2>5, <2>6
  <2>7. CASE \E s \in U \ {y} : \A t \in U \ {y} : t <= s
    <3>1. PICK s \in U \ {y} : \A t \in U \ {y} : t <= s
      BY <2>7
    <3>2. CASE y <= s
      <4>1. \A t \in U : t <= s
        BY <3>1, <3>2
      <4> QED
        BY <4>1, <3>1, <2>2
    <3>3. CASE ~(y <= s)
      <4>1. \A t \in U : t <= y
        BY <3>1, <3>3, <2>3, <2>5
      <4> QED
        BY <4>1, <2>2, <2>3
    <3> QED
      BY <3>2, <3>3
  <2> QED
    BY <2>4, <2>6, <2>7
<1> QED
  BY <1>2

(* ... and any set of them a first. *)
LEMMA FirstSlot ==
  ASSUME NEW T, T \subseteq TradedSlots, T # {}
  PROVE  \E s \in T : \A t \in T : ~(t < s)
<1>1. T \subseteq Nat
  BY SlotAssumption
<1>2. \E s \in T : \A t \in T : ~(<<t, s>> \in OpToRel(<, Nat))
  BY <1>1, NatLessThanWellFounded, WFMin
<1> QED
  BY <1>1, <1>2 DEF OpToRel

(* What moveItems starts from: the items in the slots of two players, and    *)
(* the outcome x.                                                            *)
Deal(r, o, x) ==
  /\ bag[r] \subseteq Items /\ bag[o] \subseteq Items /\ bag[r] \cap bag[o] = {}
  /\ \A i \in bag[r] \cup bag[o] : count[i] > 0 /\ i # None
  /\ \A s \in TradedSlots : InSlot(r, s) \in bag[r] \cup {None} /\ InSlot(o, s) \in bag[o] \cup {None}
  /\ \A s, t \in TradedSlots : s # t =>
       /\ InSlot(r, s) # InSlot(r, t) \/ InSlot(r, s) = None
       /\ InSlot(o, s) # InSlot(o, t) \/ InSlot(o, s) = None
  /\ x.done \subseteq TradedSlots
  /\ \A i \in x.back : i # None /\ \E s \in TradedSlots \ x.done : i \in {InSlot(r, s), InSlot(o, s)}
  /\ \A i \in x.back : x.copy[i] \in Fresh \cup {None}
  /\ \A i, j \in x.back : x.copy[i] # None /\ i # j => x.copy[i] # x.copy[j]

(* It is the same for both. *)
LEMMA DealIsMutual ==
  ASSUME NEW r, NEW o, NEW x, Deal(r, o, x)
  PROVE  Deal(o, r, x)
  BY DEF Deal

(* What HandleAcceptTrade finds is a deal. *)
LEMMA DealIsMade ==
  ASSUME IInv, NEW p \in Players, Trading(p), NEW x, MoveItems(p, Partner(p), x),
         x.done \subseteq TradedSlots, x.back \subseteq NotDone(p, Partner(p), x.done),
         x.copy \in [x.back -> Fresh \cup {None}]
  PROVE  Deal(p, Partner(p), x)
<1> DEFINE q == Partner(p)
<1>1. q \in Players /\ q # p /\ m_trade[p] \in TradeData /\ m_trade[q] \in TradeData
  BY TradersKnown DEF IInv
<1>2. \A r \in Players : bag[r] \subseteq Items
  BY DEF IInv, TradeTypeOK
<1>3. \A r \in Players : \A i \in bag[r] : count[i] > 0 /\ i # None
  BY <1>2, ItemKnown, NoneAssumption
<1>4. bag[p] \cap bag[q] = {}
  BY <1>1 DEF IInv, ItemsInv
<1>5. m_trade[p].slot \in Windows /\ m_trade[q].slot \in Windows
  BY <1>1 DEF TradeData
<1>6. \A s \in TradedSlots : s \in Slots
  BY DEF Slots
<1> HIDE DEF q
<1>7. ASSUME NEW r, m_trade[r].slot \in Windows
      PROVE  /\ \A s \in TradedSlots : InSlot(r, s) \in bag[r] \cup {None}
             /\ \A s, t \in TradedSlots : s # t => InSlot(r, s) # InSlot(r, t) \/ InSlot(r, s) = None
  BY <1>6, <1>7 DEF InSlot, GetItem, Windows
<1>8. \A i \in x.back : i # None /\ \E s \in TradedSlots \ x.done : i \in {InSlot(p, s), InSlot(q, s)}
  BY DEF NotDone, q
<1>9. /\ \A i \in x.back : x.copy[i] \in Fresh \cup {None}
      /\ \A i, j \in x.back : x.copy[i] # None /\ i # j => x.copy[i] # x.copy[j]
  BY DEF MoveItems
<1>10. Deal(p, q, x)
  BY <1>1, <1>2, <1>3, <1>4, <1>5, <1>7, <1>8, <1>9 DEF Deal
<1> QED
  BY <1>10 DEF q

(* An unused guid is in nobody's bags. *)
LEMMA FreshIsNew ==
  ASSUME NEW i \in Fresh
  PROVE  i \in Items /\ i \notin lost /\ count[i] = 0 /\ \A p \in Players : i \notin saved[p].bag
  BY DEF Fresh

(* What r has in the end: what it did not give away, what it was given, and  *)
(* copies of what was given back.                                            *)
Has(r, o, x, i) ==
  \/ i \in bag[r] /\ \A s \in TradedSlots : InSlot(r, s) = i => s \notin x.done /\ i \in x.back
  \/ i \in bag[o] /\ \E s \in x.done : InSlot(o, s) = i
  \/ i # None /\ \E j \in x.back : j \in bag[r] /\ i = x.copy[j]

(* moveItems leaves r with just that. *)
LEMMA BagAfterIs ==
  ASSUME NEW r, NEW o, NEW x, Deal(r, o, x), NEW i
  PROVE  i \in BagAfter(r, o, TradedSlots, x) <=> Has(r, o, x, i)
<1>1. i \in BagAfter(r, o, TradedSlots, x) <=>
        \/ i \in bag[r] \ TradedItems(r)
        \/ \E s \in TradedSlots : i \in StoredIn(r, o, s, x)
  BY DEF BagAfter
<1>2. i \in TradedItems(r) <=> i # None /\ \E s \in TradedSlots : i = InSlot(r, s)
  BY DEF TradedItems, InSlot
<1>3. \A s \in TradedSlots : i \in StoredIn(r, o, s, x) <=>
        /\ i # None
        /\ \/ s \in x.done /\ i = InSlot(o, s)
           \/ s \notin x.done /\ InSlot(r, s) \in x.back /\ i \in {InSlot(r, s), x.copy[InSlot(r, s)]}
  BY DEF StoredIn
<1>4. ASSUME i \in BagAfter(r, o, TradedSlots, x) PROVE Has(r, o, x, i)
  <2>1. CASE i \in bag[r] \ TradedItems(r)
    BY <2>1, <1>2 DEF Has, Deal
  <2>2. CASE \E s \in TradedSlots : i \in StoredIn(r, o, s, x)
    <3>1. PICK s \in TradedSlots : i \in StoredIn(r, o, s, x)
      BY <2>2
    <3>2. CASE s \in x.done
      <4>1. i = InSlot(o, s) /\ i # None
        BY <3>1, <3>2, <1>3
      <4>2. i \in bag[o]
        BY <4>1 DEF Deal
      <4> QED
        BY <3>2, <4>1, <4>2 DEF Has
    <3>3. CASE s \notin x.done
      <4>1. InSlot(r, s) \in x.back /\ i \in {InSlot(r, s), x.copy[InSlot(r, s)]} /\ i # None
        BY <3>1, <3>3, <1>3
      <4>2. InSlot(r, s) \in bag[r] /\ \A t \in TradedSlots : InSlot(r, t) = InSlot(r, s) => t = s
        BY <4>1 DEF Deal
      <4> QED
        BY <3>3, <4>1, <4>2 DEF Has
    <3> QED
      BY <3>2, <3>3
  <2> QED
    BY <1>1, <1>4, <2>1, <2>2
<1>5. ASSUME Has(r, o, x, i) PROVE i \in BagAfter(r, o, TradedSlots, x)
  <2>1. CASE i \in bag[r] /\ \A s \in TradedSlots : InSlot(r, s) = i => s \notin x.done /\ i \in x.back
    <3>1. i # None
      BY <2>1 DEF Deal
    <3> QED
      BY <2>1, <3>1, <1>1, <1>2, <1>3
  <2>2. CASE i \in bag[o] /\ \E s \in x.done : InSlot(o, s) = i
    <3>1. i # None /\ x.done \subseteq TradedSlots
      BY <2>2 DEF Deal
    <3> QED
      BY <2>2, <3>1, <1>1, <1>3
  <2>3. CASE i # None /\ \E j \in x.back : j \in bag[r] /\ i = x.copy[j]
    <3>1. PICK j \in x.back : j \in bag[r] /\ i = x.copy[j]
      BY <2>3
    <3>2. PICK s \in TradedSlots \ x.done : j = InSlot(r, s) \/ j = InSlot(o, s)
      BY <3>1 DEF Deal
    <3>3. j = InSlot(r, s)
      BY <3>1, <3>2 DEF Deal
    <3> QED
      BY <2>3, <3>1, <3>2, <3>3, <1>1, <1>3
  <2> QED
    BY <1>5, <2>1, <2>2, <2>3 DEF Has
<1> QED
  BY <1>4, <1>5

(* No item ends in the bags of both. *)
LEMMA BagsStayApart ==
  ASSUME NEW r, NEW o, NEW x, Deal(r, o, x)
  PROVE  BagAfter(r, o, TradedSlots, x) \cap BagAfter(o, r, TradedSlots, x) = {}
<1> SUFFICES ASSUME NEW i, Has(r, o, x, i), Has(o, r, x, i) PROVE FALSE
  BY BagAfterIs, DealIsMutual
<1>0. /\ bag[r] \cap bag[o] = {} /\ x.done \subseteq TradedSlots
      /\ \A j \in bag[r] \cup bag[o] : count[j] > 0
      /\ \A j \in x.back : x.copy[j] \in Fresh \cup {None}
      /\ \A j, k \in x.back : x.copy[j] # None /\ j # k => x.copy[j] # x.copy[k]
  BY DEF Deal
<1>1. \A j \in Fresh : j \notin bag[r] \cup bag[o]
  BY <1>0, FreshIsNew
<1>2. CASE i \in bag[r] \cup bag[o]
  <2>1. ~ \E j \in x.back : i # None /\ i = x.copy[j]
    BY <1>0, <1>1, <1>2
  <2> QED
    BY <1>0, <1>2, <2>1 DEF Has
<1>3. CASE i \notin bag[r] \cup bag[o]
  BY <1>0, <1>3 DEF Has
<1> QED
  BY <1>2, <1>3

(* Together the two have what they had, without what was lost, and the       *)
(* copies.                                                                   *)
LEMMA NothingElseMoves ==
  ASSUME NEW r, NEW o, NEW x, Deal(r, o, x)
  PROVE  BagAfter(r, o, TradedSlots, x) \cup BagAfter(o, r, TradedSlots, x) =
           ((bag[r] \cup bag[o]) \ (NotDone(r, o, x.done) \ x.back)) \cup Copied(x)
<1> SUFFICES ASSUME NEW i
             PROVE  Has(r, o, x, i) \/ Has(o, r, x, i) <=>
                      \/ i \in bag[r] \cup bag[o] /\ (i \in NotDone(r, o, x.done) => i \in x.back)
                      \/ i \in Copied(x)
  BY BagAfterIs, DealIsMutual
<1>1. i \in NotDone(r, o, x.done) <=>
        i # None /\ \E s \in TradedSlots \ x.done : i = InSlot(r, s) \/ i = InSlot(o, s)
  BY DEF NotDone
<1>2. i \in Copied(x) <=> i # None /\ \E j \in x.back : i = x.copy[j]
  BY DEF Copied
<1>3. \A j \in x.back : j \in bag[r] \cup bag[o]
  BY DEF Deal
<1>4. i \in bag[r] => /\ i # None /\ i \notin bag[o] /\ \A s \in TradedSlots : i # InSlot(o, s)
                      /\ \A s, t \in TradedSlots : i = InSlot(r, s) /\ i = InSlot(r, t) => s = t
  BY DEF Deal
<1>5. i \in bag[o] => /\ i # None /\ i \notin bag[r] /\ \A s \in TradedSlots : i # InSlot(r, s)
                      /\ \A s, t \in TradedSlots : i = InSlot(o, s) /\ i = InSlot(o, t) => s = t
  BY DEF Deal
<1>6. x.done \subseteq TradedSlots
  BY DEF Deal
<1>7. CASE i \in bag[r]
  BY <1>1, <1>2, <1>3, <1>4, <1>6, <1>7 DEF Has
<1>8. CASE i \in bag[o]
  BY <1>1, <1>2, <1>3, <1>5, <1>6, <1>8 DEF Has
<1>9. CASE i \notin bag[r] \cup bag[o]
  BY <1>2, <1>3, <1>9 DEF Has
<1> QED
  BY <1>7, <1>8, <1>9

(* One player's side of moveItems, with the item counts c. *)
Stores(r, o, x, c) ==
  \A s \in TradedSlots :
    /\ s \in x.done => CanStoreItem(r, BagAfter(r, o, Before(s), x), InSlot(o, s), c, 0)
    /\ s \notin x.done => GivesBack(r, o, s, c, x)

(* What the two have is finite. *)
LEMMA MovedIsFinite ==
  ASSUME NEW r, NEW o, NEW x, Deal(r, o, x), IsFiniteSet(bag[r]), IsFiniteSet(bag[o]),
         x.copy \in [x.back -> Fresh \cup {None}]
  PROVE  IsFiniteSet(BagAfter(r, o, TradedSlots, x))
<1>1. x.back \subseteq bag[r] \cup bag[o]
  BY DEF Deal
<1>2. IsFiniteSet(bag[r] \cup bag[o])
  BY FS_Union
<1>3. IsFiniteSet(x.back)
  BY <1>1, <1>2, FS_Subset
<1> DEFINE T == {x.copy[i] : i \in x.back}
<1>4. x.copy \in Surjection(x.back, T)
  BY DEF Surjection
<1>5. IsFiniteSet(T)
  <2> HIDE DEF T
  <2> QED  BY <1>3, <1>4, FS_Surjection
<1>6. IsFiniteSet((bag[r] \cup bag[o]) \cup T)
  <2> HIDE DEF T
  <2> QED  BY <1>2, <1>5, FS_Union
<1>7. BagAfter(r, o, TradedSlots, x) \subseteq (bag[r] \cup bag[o]) \cup T
  <2>1. \A i : Has(r, o, x, i) => i \in (bag[r] \cup bag[o]) \cup T
    BY DEF Has
  <2> QED
    BY <2>1, BagAfterIs
<1> QED
  BY <1>6, <1>7, FS_Subset

(* The item stored last fitted into the bags, and so do all.                 *)
LEMMA MovedFits ==
  ASSUME NEW r, NEW o, NEW x, NEW c, Deal(r, o, x), Stores(r, o, x, c),
         IsFiniteSet(bag[r]), Cardinality(bag[r]) <= BagSize[r], BagSize[r] \in Nat,
         IsFiniteSet(BagAfter(r, o, TradedSlots, x))
  PROVE  Cardinality(BagAfter(r, o, TradedSlots, x)) <= BagSize[r]
<1> DEFINE B == BagAfter(r, o, TradedSlots, x)
           T == {s \in TradedSlots : StoredIn(r, o, s, x) # {}}
<1>1. CASE T = {}
  <2>1. B \subseteq bag[r]
    BY <1>1 DEF BagAfter
  <2>2. Cardinality(B) <= Cardinality(bag[r]) /\ Cardinality(B) \in Nat /\ Cardinality(bag[r]) \in Nat
    BY <2>1, FS_Subset, FS_CardinalityType
  <2> QED
    BY <2>2
<1>2. CASE T # {}
  <2>1. PICK s \in T : \A t \in T : t <= s
    BY <1>2, LastSlot
  <2>2. s \in TradedSlots /\ \A t \in TradedSlots : t \in Nat
    BY SlotAssumption
  <2> DEFINE b == BagAfter(r, o, Before(s), x)
  <2>3. B = b \cup StoredIn(r, o, s, x)
    <3>1. \A t \in TradedSlots : StoredIn(r, o, t, x) # {} => t \in Before(s) \/ t = s
      BY <2>1, <2>2 DEF Before
    <3>2. Before(s) \subseteq TradedSlots
      BY DEF Before
    <3> QED
      BY <3>1, <3>2, <2>2 DEF BagAfter
  <2>4. IsFiniteSet(b)
    <3>1. b \subseteq B
      BY <2>3
    <3> QED
      BY <3>1, FS_Subset
  <2> HIDE DEF b, B
  <2>5. CASE s \in x.done
    <3>1. StoredIn(r, o, s, x) = {InSlot(o, s)} /\ InSlot(o, s) # None
      BY <2>1, <2>5 DEF StoredIn
    <3>2. Cardinality(b \cup {InSlot(o, s)}) + 0 <= BagSize[r]
      BY <2>2, <2>5, <3>1 DEF Stores, CanStoreItem, b
    <3>3. IsFiniteSet(b \cup {InSlot(o, s)})
      BY <2>4, FS_AddElement
    <3>4. Cardinality(b \cup {InSlot(o, s)}) \in Nat
      BY <3>3, FS_CardinalityType
    <3> QED
      BY <2>3, <3>1, <3>2, <3>4 DEF B
  <2>6. CASE s \notin x.done
    <3> DEFINE i == InSlot(r, s)
               k == x.copy[i]
               used == IF InSlot(o, s) # None /\ CanStoreItem(r, b, InSlot(o, s), c, 0) THEN 1 ELSE 0
    <3>1. i \in x.back /\ i # None
      <4>1. i \in x.back
        BY <2>1, <2>6 DEF StoredIn
      <4> QED
        BY <4>1 DEF Deal
    <3>2. StoredIn(r, o, s, x) = {i, k} \ {None}
      BY <2>6, <3>1 DEF StoredIn
    <3>3. GivesBack(r, o, s, c, x)
      BY <2>2, <2>6 DEF Stores
    <3>4. CanStoreItem(r, b, i, c, used) /\ (k # None => used = 1)
      BY <3>1, <3>3 DEF GivesBack, b
    <3>5. Cardinality(b \cup {i}) + used <= BagSize[r]
      BY <3>1, <3>4 DEF CanStoreItem
    <3>6. used \in {0, 1}
      OBVIOUS
    <3> HIDE DEF i, k, used
    <3>7. IsFiniteSet(b \cup {i})
      BY <2>4, FS_AddElement
    <3>8. Cardinality(b \cup {i}) \in Nat
      BY <3>7, FS_CardinalityType
    <3>9. CASE k = None
      <4>1. B = b \cup {i}
        BY <2>3, <3>1, <3>2, <3>9
      <4> QED
        BY <4>1, <3>5, <3>6, <3>8 DEF B
    <3>10. CASE k # None
      <4>1. B = (b \cup {i}) \cup {k}
        BY <2>3, <3>1, <3>2, <3>10
      <4>2. Cardinality((b \cup {i}) \cup {k}) <= Cardinality(b \cup {i}) + 1
        <5> DEFINE S == b \cup {i}
        <5>1. IsFiniteSet(S) /\ Cardinality(S) \in Nat
          BY <3>7, <3>8
        <5> HIDE DEF S
        <5>2. Cardinality(S \cup {k}) = IF k \in S THEN Cardinality(S) ELSE Cardinality(S) + 1
          BY <5>1, FS_AddElement
        <5>3. Cardinality(S \cup {k}) <= Cardinality(S) + 1
          BY <5>1, <5>2
        <5> QED
          BY <5>3 DEF S
      <4>3. Cardinality((b \cup {i}) \cup {k}) \in Nat
        BY <3>7, FS_AddElement, FS_CardinalityType
      <4>4. used = 1
        BY <3>4, <3>10
      <4> QED
        BY <4>1, <4>2, <4>3, <4>4, <3>5, <3>8 DEF B
    <3> QED
      BY <3>9, <3>10
  <2> QED
    BY <2>5, <2>6 DEF B
<1> QED
  BY <1>1, <1>2

(* Copies are stacks of at least one, and nothing else changes its number.   *)
LEMMA CountAfterIs ==
  ASSUME NEW p, NEW q, NEW x, NEW c, Deal(p, q, x), Stores(p, q, x, c), Stores(q, p, x, c), count \in Counts
  PROVE  /\ CountAfter(p, q, x) \in Counts
         /\ \A k \in Items \ Copied(x) : CountAfter(p, q, x)[k] = count[k]
         /\ \A k \in Copied(x) : k \in Fresh /\ CountAfter(p, q, x)[k] > 0
<1>1. \A k \in Copied(x) : k \in Fresh /\ k \in Items
  <2>1. \A k \in Copied(x) : k \in Fresh
    BY DEF Copied, Deal
  <2> QED
    BY <2>1, FreshIsNew
<1>2. ASSUME NEW k \in Copied(x)
      PROVE  /\ CopyCount(p, q, CHOOSE i \in x.back : x.copy[i] = k) \in Nat
             /\ CopyCount(p, q, CHOOSE i \in x.back : x.copy[i] = k) > 0
  <2> DEFINE i == CHOOSE i \in x.back : x.copy[i] = k
  <2>1. i \in x.back /\ x.copy[i] = k /\ k # None
    BY DEF Copied
  <2> HIDE DEF i
  <2>2. PICK s \in TradedSlots \ x.done : i = InSlot(p, s) \/ i = InSlot(q, s)
    BY <2>1 DEF Deal
  <2>3. i # None /\ i \in Items
    BY <2>1, <2>2 DEF Deal
  <2>4. \E j \in Items : \E t \in TradedSlots :
          <<i, j>> \in {<<InSlot(p, t), InSlot(q, t)>>, <<InSlot(q, t), InSlot(p, t)>>}
    <3>0. GivesBack(p, q, s, c, x) /\ GivesBack(q, p, s, c, x)
      BY <2>2 DEF Stores
    <3>1. CASE i = InSlot(p, s)
      <4>1. InSlot(q, s) # None
        BY <2>1, <2>3, <3>0, <3>1 DEF GivesBack
      <4>2. InSlot(q, s) \in Items
        BY <4>1, <2>2 DEF Deal
      <4> QED
        BY <4>2, <3>1, <2>2
    <3>2. CASE i = InSlot(q, s)
      <4>1. InSlot(p, s) # None
        BY <2>1, <2>3, <3>0, <3>2 DEF GivesBack
      <4>2. InSlot(p, s) \in Items
        BY <4>1, <2>2 DEF Deal
      <4> QED
        BY <4>2, <3>2, <2>2
    <3> QED
      BY <2>2, <3>1, <3>2
  <2> DEFINE j == Opposite(p, q, i)
  <2>5. /\ j \in Items
        /\ \E t \in TradedSlots :
             <<i, j>> \in {<<InSlot(p, t), InSlot(q, t)>>, <<InSlot(q, t), InSlot(p, t)>>}
    BY <2>4 DEF Opposite
  <2> HIDE DEF j
  <2>6. PICK t \in TradedSlots : j = InSlot(p, t) \/ j = InSlot(q, t)
    BY <2>5
  <2>n. None \notin Items
    BY NoneAssumption
  <2>7. j \in bag[p] \cup bag[q]
    BY <2>5, <2>6, <2>n DEF Deal
  <2>8. count[j] \in Nat /\ count[j] > 0
    BY <2>5, <2>7 DEF Deal, Counts
  <2>9. MaxStackSize[Kind[i]] \in Nat /\ MaxStackSize[Kind[i]] > 0
    BY <2>3, LimitAssumption
  <2>10. CopyCount(p, q, i) \in Nat /\ CopyCount(p, q, i) > 0
    BY <2>8, <2>9 DEF CopyCount, j
  <2> QED
    BY <2>10 DEF i
<1>3. CountAfter(p, q, x) \in Counts
  BY <1>2 DEF CountAfter, Counts
<1>4. \A k \in Items \ Copied(x) : CountAfter(p, q, x)[k] = count[k]
  BY DEF CountAfter
<1>5. \A k \in Copied(x) : CountAfter(p, q, x)[k] > 0
  BY <1>1, <1>2 DEF CountAfter
<1> QED
  BY <1>1, <1>3, <1>4, <1>5

(* What a trade does to the bags, the counts, the money and the rows.        *)
Outcome(p, q, x, m, kp, kq) ==
  /\ x.done \subseteq TradedSlots /\ x.back \subseteq NotDone(p, q, x.done)
  /\ x.copy \in [x.back -> Fresh \cup {None}] /\ MoveItems(p, q, x)
  /\ bag' = [bag EXCEPT ![p] = BagAfter(p, q, TradedSlots, x), ![q] = BagAfter(q, p, TradedSlots, x)]
  /\ count' = CountAfter(p, q, x)
  /\ lost' = lost \cup (NotDone(p, q, x.done) \ x.back) /\ copies' = copies \cup Copied(x)
  /\ m = [money EXCEPT ![p] = ModifyMoney(@, m_trade[p].money, m_trade[q].money),
                       ![q] = ModifyMoney(@, m_trade[q].money, m_trade[p].money)]
  /\ money' = m
  /\ kp \in StaleRows(p, bag', lost') /\ kq \in StaleRows(q, bag', lost')
  /\ saved' = [saved EXCEPT ![p] = RowsWith(p, bag', count', m, kp), ![q] = RowsWith(q, bag', count', m, kq)]

(* Every trade that is carried out has an outcome. *)
LEMMA OutcomeExists ==
  ASSUME NEW p, NEW v, AcceptCompletes(p, v)
  PROVE  \E x, m, kp, kq : Outcome(p, Partner(p), x, m, kp, kq)
<1> DEFINE q == Partner(p)
           m == [money EXCEPT ![p] = ModifyMoney(@, m_trade[p].money, m_trade[q].money),
                              ![q] = ModifyMoney(@, m_trade[q].money, m_trade[p].money)]
           Moves(done, back, copy) ==
             LET x == [done |-> done, back |-> back, copy |-> copy]
                 b == [bag EXCEPT ![p] = BagAfter(p, q, TradedSlots, x), ![q] = BagAfter(q, p, TradedSlots, x)]
                 c == CountAfter(p, q, x)
                 l == lost \cup (NotDone(p, q, done) \ back)
             IN /\ MoveItems(p, q, x)
                /\ bag' = b /\ count' = c /\ lost' = l /\ copies' = copies \cup Copied(x)
                /\ SaveInventoryAndGoldToDB(p, q, b, c, m, l)
<1>a. \E done \in SUBSET TradedSlots : \E back \in SUBSET NotDone(p, q, done) :
        \E copy \in [back -> Fresh \cup {None}] : Moves(done, back, copy)
  BY Zenon DEF AcceptCompletes
<1>b. PICK done \in SUBSET TradedSlots : \E back \in SUBSET NotDone(p, q, done) :
        \E copy \in [back -> Fresh \cup {None}] : Moves(done, back, copy)
  <2> HIDE DEF Moves
  <2> QED  BY <1>a
<1>c. PICK back \in SUBSET NotDone(p, q, done) : \E copy \in [back -> Fresh \cup {None}] : Moves(done, back, copy)
  <2> HIDE DEF Moves
  <2> QED  BY <1>b
<1>1. PICK copy \in [back -> Fresh \cup {None}] : Moves(done, back, copy)
  <2> HIDE DEF Moves
  <2> QED  BY <1>c
<1> DEFINE x == [done |-> done, back |-> back, copy |-> copy]
<1>2. x.done = done /\ x.back = back /\ x.copy = copy
  OBVIOUS
<1>3. /\ MoveItems(p, q, x)
      /\ bag' = [bag EXCEPT ![p] = BagAfter(p, q, TradedSlots, x), ![q] = BagAfter(q, p, TradedSlots, x)]
      /\ count' = CountAfter(p, q, x)
      /\ lost' = lost \cup (NotDone(p, q, done) \ back) /\ copies' = copies \cup Copied(x)
      /\ SaveInventoryAndGoldToDB(p, q, bag', count', m, lost')
  BY <1>1, Zenon
<1>4. money' = m
  BY DEF AcceptCompletes
<1> HIDE DEF x
<1>5. PICK kp \in StaleRows(p, bag', lost'), kq \in StaleRows(q, bag', lost') :
        saved' = [saved EXCEPT ![p] = RowsWith(p, bag', count', m, kp), ![q] = RowsWith(q, bag', count', m, kq)]
  BY <1>3 DEF SaveInventoryAndGoldToDB
<1> HIDE DEF q
<1>6. Outcome(p, q, x, m, kp, kq)
  BY <1>1, <1>2, <1>3, <1>4, <1>5 DEF Outcome
<1> QED
  BY <1>6 DEF q

(* HandleAcceptTrade when both have accepted: the exchange and the save. *)
LEMMA CompletesKeeps ==
  ASSUME IInv, NEW p \in Players, NEW v \in 1 .. Len(shown[p]), AcceptCompletes(p, v)
  PROVE  IInv'
<1> DEFINE q == Partner(p)
<1>1. Trading(p) /\ NoTrade(p, q) /\ UNCHANGED <<start, spent>>
  BY DEF AcceptCompletes, Checked, Accepting
<1>2. q \in Players /\ q # p /\ m_trade[p] \in TradeData /\ m_trade[q] \in TradeData
  BY <1>1, TradersKnown DEF IInv
<1>3. PICK x, m, kp, kq : Outcome(p, q, x, m, kp, kq)
  BY OutcomeExists
<1>4. /\ bag \in [Players -> SUBSET Items] /\ count \in Counts /\ saved \in [Players -> Rows]
      /\ money \in [Players -> 0 .. MaxMoney] /\ lost \subseteq Items /\ copies \subseteq Items
      /\ \A r \in Players : /\ Cardinality(bag[r]) <= BagSize[r] /\ IsFiniteSet(bag[r]) /\ BagSize[r] \in Nat
                            /\ saved[r].bag \subseteq Items
  BY BagAssumption DEF IInv, TradeTypeOK, ItemsInv, Counts, Rows
<1>5. Deal(p, q, x) /\ Deal(q, p, x)
  BY <1>1, <1>3, DealIsMade, DealIsMutual DEF Outcome
<1> HIDE DEF q
<1>6. Stores(p, q, x, CountAfter(p, q, x)) /\ Stores(q, p, x, CountAfter(p, q, x))
  BY <1>3 DEF Outcome, MoveItems, Stores
<1> DEFINE L == NotDone(p, q, x.done) \ x.back
           C == Copied(x)
           bp == BagAfter(p, q, TradedSlots, x)
           bq == BagAfter(q, p, TradedSlots, x)
<1>7. /\ IsFiniteSet(bp) /\ Cardinality(bp) <= BagSize[p]
      /\ IsFiniteSet(bq) /\ Cardinality(bq) <= BagSize[q]
  <2>1. IsFiniteSet(bp) /\ IsFiniteSet(bq)
    BY <1>2, <1>3, <1>4, <1>5, MovedIsFinite DEF Outcome
  <2> QED
    BY <2>1, <1>2, <1>4, <1>5, <1>6, MovedFits
<1>8. bp \cap bq = {} /\ bp \cup bq = ((bag[p] \cup bag[q]) \ L) \cup C
  BY <1>5, BagsStayApart, NothingElseMoves
<1>9. /\ CountAfter(p, q, x) \in Counts
      /\ \A k \in Items \ C : CountAfter(p, q, x)[k] = count[k]
      /\ \A k \in C : k \in Fresh /\ CountAfter(p, q, x)[k] > 0
  BY <1>4, <1>5, <1>6, CountAfterIs
<1>10. L \subseteq bag[p] \cup bag[q]
  BY <1>5 DEF NotDone, Deal
<1>11. /\ bag' = [bag EXCEPT ![p] = bp, ![q] = bq] /\ count' = CountAfter(p, q, x)
       /\ lost' = lost \cup L /\ copies' = copies \cup C
       /\ m = [money EXCEPT ![p] = ModifyMoney(@, m_trade[p].money, m_trade[q].money),
                            ![q] = ModifyMoney(@, m_trade[q].money, m_trade[p].money)]
       /\ money' = m /\ kp \in StaleRows(p, bag', lost') /\ kq \in StaleRows(q, bag', lost')
       /\ saved' = [saved EXCEPT ![p] = RowsWith(p, bag', count', m, kp), ![q] = RowsWith(q, bag', count', m, kq)]
  BY <1>3 DEF Outcome
<1> HIDE DEF L, C, bp, bq
<1>12. \A k \in C : k \in Items /\ k \notin lost /\ count[k] = 0 /\ \A r \in Players : k \notin saved[r].bag
  BY <1>9, FreshIsNew
<1>13. /\ \A r \in Players : bag[r] \subseteq saved[r].bag /\ bag[r] \cap lost = {} /\ \A k \in bag[r] : count[k] > 0
       /\ \A r, o \in Players : r # o => bag[r] \cap bag[o] = {} /\ saved[r].bag \cap saved[o].bag = {}
  BY <1>4 DEF IInv, ItemsInv
<1>14. /\ bp \subseteq Items /\ bq \subseteq Items /\ (bp \cup bq) \cap lost' = {}
       /\ \A k \in bp \cup bq : count'[k] > 0
  <2>1. \A k \in bp \cup bq : k \in C \/ k \in (bag[p] \cup bag[q]) \ L
    BY <1>8
  <2>2. \A k \in C : k \in Items /\ k \notin lost' /\ count'[k] > 0
    BY <1>2, <1>9, <1>10, <1>11, <1>12, <1>13
  <2>3. \A k \in (bag[p] \cup bag[q]) \ L : k \in Items /\ k \notin lost' /\ k \notin C /\ count[k] > 0
    BY <1>2, <1>4, <1>11, <1>12, <1>13
  <2>4. \A k \in (bag[p] \cup bag[q]) \ L : count'[k] > 0
    BY <2>3, <1>9, <1>11
  <2> QED
    BY <2>1, <2>2, <2>3, <2>4
<1>15. /\ bag' \in [Players -> SUBSET Items] /\ bag'[p] = bp /\ bag'[q] = bq
       /\ \A r \in Players \ {p, q} : bag'[r] = bag[r]
  BY <1>2, <1>4, <1>11, <1>14
<1>16. \A r \in Players : IsFiniteSet(bag'[r]) /\ Cardinality(bag'[r]) <= BagSize[r]
  BY <1>4, <1>7, <1>15
<1>17. m \in [Players -> 0 .. MaxMoney]
  <2>1. m_trade[p].money \in 0 .. MaxMoney /\ m_trade[q].money \in 0 .. MaxMoney
    BY <1>2 DEF TradeData
  <2>2. /\ ModifyMoney(money[p], m_trade[p].money, m_trade[q].money) \in 0 .. MaxMoney
        /\ ModifyMoney(money[q], m_trade[q].money, m_trade[p].money) \in 0 .. MaxMoney
    BY <1>2, <1>4, <2>1, ModifyMoneyType
  <2> QED
    BY <1>2, <1>4, <1>11, <2>2
<1>18. kp \subseteq saved[p].bag /\ kp \subseteq lost' /\ (kp = {} \/ Cardinality(bp \cup kp) <= BagSize[p])
  BY <1>11, <1>15 DEF StaleRows
<1>19. kq \subseteq saved[q].bag /\ kq \subseteq lost' /\ (kq = {} \/ Cardinality(bq \cup kq) <= BagSize[q])
  BY <1>11, <1>15 DEF StaleRows
<1> DEFINE y == RowsWith(p, bag', count', m, kp)
           z == RowsWith(q, bag', count', m, kq)
<1>20. count' \in Counts
  BY <1>9, <1>11
<1>21. /\ y \in Rows /\ y.bag = bp \cup kp /\ \A i \in Items : y.count[i] > 0 <=> i \in bp \cup kp
       /\ z \in Rows /\ z.bag = bq \cup kq /\ \A i \in Items : z.count[i] > 0 <=> i \in bq \cup kq
  BY <1>2, <1>14, <1>15, <1>17, <1>18, <1>19, <1>20, RowsWritten
<1>22. saved' = [saved EXCEPT ![p] = y, ![q] = z]
  BY <1>11
<1> HIDE DEF y, z
<1>23. /\ saved' \in [Players -> Rows] /\ saved'[p] = y /\ saved'[q] = z
       /\ \A r \in Players \ {p, q} : saved'[r] = saved[r]
  BY <1>2, <1>4, <1>21, <1>22
<1>24. ASSUME NEW r \in Players \ {p, q}
       PROVE  bag'[r] = bag[r] /\ bag[r] \cap C = {} /\ \A i \in bag[r] : count'[i] = count[i]
  <2>1. bag[r] \cap C = {} /\ bag[r] \subseteq Items
    BY <1>4, <1>12, <1>13
  <2> QED
    BY <2>1, <1>9, <1>11, <1>15
<1>25. TradeTypeOK'
  <2>1. /\ m_trade' \in [Players -> TradeData \cup {None}] /\ shown' \in [Players -> Seq(Offers)]
        /\ agreed' \in [Players -> Nat] /\ updates' = updates
    BY <1>1, <1>24, NoTradeKeeps DEF q
  <2>2. lost' \subseteq Items /\ copies' \subseteq Items
    BY <1>2, <1>4, <1>10, <1>11, <1>12
  <2>3. count' \in [Items -> Nat] /\ money' \in [Players -> 0 .. MaxMoney]
    BY <1>11, <1>17, <1>20 DEF Counts
  <2> QED
    BY <1>1, <1>15, <1>16, <1>23, <2>1, <2>2, <2>3 DEF IInv, TradeTypeOK
<1>26. DeskInv'
  BY <1>1, <1>24, <1>25, NoTradeKeeps DEF q
<1>27. ItemsInv'
  <2>1. IsFiniteSet(bp \cup kp) /\ Cardinality(bp \cup kp) <= BagSize[p]
    <3>1. IsFiniteSet(kp)
      BY <1>18, FS_Subset DEF IInv, ItemsInv
    <3>2. IsFiniteSet(bp \cup kp)
      BY <1>7, <3>1, FS_Union
    <3>3. kp = {} => bp \cup kp = bp
      OBVIOUS
    <3> QED
      BY <3>2, <3>3, <1>7, <1>18
  <2>2. IsFiniteSet(bq \cup kq) /\ Cardinality(bq \cup kq) <= BagSize[q]
    <3>1. IsFiniteSet(kq)
      BY <1>2, <1>19, FS_Subset DEF IInv, ItemsInv
    <3>2. IsFiniteSet(bq \cup kq)
      BY <1>7, <3>1, FS_Union
    <3>3. kq = {} => bq \cup kq = bq
      OBVIOUS
    <3> QED
      BY <3>2, <3>3, <1>7, <1>19
  <2>3. ASSUME NEW r \in Players
        PROVE  /\ bag'[r] \subseteq saved'[r].bag
               /\ IsFiniteSet(saved'[r].bag) /\ Cardinality(saved'[r].bag) <= BagSize[r]
               /\ \A i \in Items : saved'[r].count[i] > 0 <=> i \in saved'[r].bag
               /\ \A i \in saved'[r].bag \ bag'[r] : count'[i] = 0 \/ i \in lost'
    <3>1. CASE r = p
      BY <3>1, <2>1, <1>15, <1>18, <1>21, <1>23
    <3>2. CASE r = q
      BY <3>2, <2>2, <1>15, <1>19, <1>21, <1>23
    <3>3. CASE r \notin {p, q}
      <4>1. \A i \in saved[r].bag \ bag[r] : (count[i] = 0 \/ i \in lost) /\ i \in Items \ C
        BY <1>4, <1>12 DEF IInv, ItemsInv
      <4>2. \A i \in saved[r].bag \ bag[r] : count'[i] = 0 \/ i \in lost'
        BY <4>1, <1>9, <1>11
      <4> QED
        BY <3>3, <4>2, <1>15, <1>23 DEF IInv, ItemsInv
    <3> QED
      BY <3>1, <3>2, <3>3
  <2>4. /\ bp \cup bq \subseteq saved[p].bag \cup saved[q].bag \cup C
        /\ \A r \in Players \ {p, q} : saved[r].bag \cap (saved[p].bag \cup saved[q].bag \cup C) = {}
    BY <1>2, <1>8, <1>12, <1>13
  <2>5. (bp \cup kp) \cap (bq \cup kq) = {}
    BY <1>2, <1>8, <1>13, <1>14, <1>18, <1>19
  <2>6. \A r \in Players \ {p, q} : saved[r].bag \cap (bp \cup kp) = {} /\ saved[r].bag \cap (bq \cup kq) = {}
    BY <2>4, <1>18, <1>19
  <2>7. \A r, o \in Players : r # o => saved'[r].bag \cap saved'[o].bag = {}
    BY <2>5, <2>6, <1>2, <1>13, <1>21, <1>23
  <2>8. \A r, o \in Players : r # o => bag'[r] \cap bag'[o] = {}
    BY <2>3, <2>7
  <2>9. ASSUME NEW r \in Players, NEW i \in saved'[r].bag PROVE start.count[i] > 0 \/ i \in copies'
    <3>1. \A o \in Players : \A k \in saved[o].bag : start.count[k] > 0 \/ k \in copies
      BY DEF IInv, ItemsInv
    <3>2. i \in C \/ \E o \in Players : i \in saved[o].bag
      BY <2>4, <2>9, <1>2, <1>18, <1>19, <1>21, <1>23
    <3> QED
      BY <3>1, <3>2, <1>11
  <2>10. ASSUME NEW i \in Items
         PROVE  /\ (count'[i] > 0 /\ i \notin lost') <=> \E r \in Players : i \in bag'[r]
                /\ count'[i] > 0 => start.count[i] > 0 \/ i \in copies'
    <3>1. CASE i \in C
      <4>1. i \in bp \cup bq
        BY <3>1, <1>8
      <4> QED
        BY <3>1, <4>1, <1>2, <1>9, <1>11, <1>14, <1>15
    <3>2. CASE i \notin C
      <4>1. count'[i] = count[i]
        BY <3>2, <1>9, <1>11
      <4>2. (\E r \in Players : i \in bag'[r]) <=> i \notin L /\ \E r \in Players : i \in bag[r]
        <5>1. i \in bp \cup bq <=> i \in (bag[p] \cup bag[q]) \ L
          BY <3>2, <1>8
        <5>2. \A r \in Players \ {p, q} : bag[r] \cap L = {}
          BY <1>2, <1>10, <1>13
        <5> QED
          BY <5>1, <5>2, <1>2, <1>15
      <4>3. i \in lost' <=> i \in lost \/ i \in L
        BY <1>11
      <4> QED
        BY <4>1, <4>2, <4>3, <1>11, ItemKnown
    <3> QED
      BY <3>1, <3>2
  <2> QED
    BY <2>3, <2>7, <2>8, <2>9, <2>10, <1>1, <1>16 DEF ItemsInv
<1> QED
  BY <1>25, <1>26, <1>27 DEF IInv

(* HandleAcceptTrade, in all its cases. *)
LEMMA AcceptKeeps ==
  ASSUME IInv, NEW p \in Players, NEW v \in 1 .. Len(shown[p]), HandleAcceptTrade(p, v)
  PROVE  IInv'
<1>1. CASE AcceptRefused(p, v)
  BY <1>1, AcceptsKeeps DEF AcceptRefused, Accepting
<1>2. CASE AcceptBlamesTrader(p, v)
  BY <1>2, AcceptsKeeps DEF AcceptBlamesTrader, Accepting, StateIndexIsCurrent
<1>3. CASE AcceptBlocked(p, v)
  BY <1>3, AcceptsKeeps DEF AcceptBlocked, Checked, Accepting, StateIndexIsCurrent
<1>4. CASE AcceptFirst(p, v)
  BY <1>4, AcceptsKeeps DEF AcceptFirst, Checked, Accepting, StateIndexIsCurrent
<1>5. CASE AcceptSpellFails(p, v)
  BY <1>5, SpellFailsKeeps
<1>6. CASE AcceptNoSpace(p, v)
  BY <1>6, AcceptsKeeps DEF AcceptNoSpace, Checked, Accepting
<1>7. CASE AcceptCompletes(p, v)
  BY <1>7, CompletesKeeps
<1> QED
  BY <1>1, <1>2, <1>3, <1>4, <1>5, <1>6, <1>7 DEF HandleAcceptTrade

(* Every step keeps the invariant. *)
LEMMA StepIInv == IInv /\ [TradeNext]_tradeVars => IInv'
<1> SUFFICES ASSUME IInv, [TradeNext]_tradeVars PROVE IInv'
  OBVIOUS
<1>1. ASSUME NEW p \in Players, NEW q \in Players, HandleInitiateTrade(p, q) PROVE IInv'
  BY <1>1, InitiateKeeps
<1>2. ASSUME NEW p \in Players,
             \/ \E m \in 0 .. MaxMoney : HandleSetTradeGold(p, m)
             \/ \E s \in Slots : HandleClearTradeItem(p, s) \/ \E i \in Items : HandleSetTradeItem(p, s, i)
             \/ CastOnTradeItem(p)
      PROVE  IInv'
  BY <1>2, OffersKeep
<1>3. ASSUME NEW p \in Players, NEW v \in 1 .. Len(shown[p]), HandleAcceptTrade(p, v) PROVE IInv'
  BY <1>3, AcceptKeeps
<1>4. ASSUME NEW p \in Players,
             \/ HandleUnacceptTrade(p) \/ TradeCancel(p) \/ SpendMoney(p) \/ SaveToDB(p) \/ LogoutPlayer(p)
      PROVE  IInv'
  BY <1>4, UnacceptKeeps, CancelKeeps, SpendKeeps, SaveToDBKeeps, LogoutKeeps
<1>5. ASSUME NEW p \in Players, NEW i \in Items, SetCount(p, i) \/ DestroyItem(p, i) PROVE IInv'
  BY <1>5, SetCountKeeps, DestroyKeeps
<1>6. CASE Crash
  BY <1>6, CrashKeeps
<1>7. CASE UNCHANGED tradeVars
  <2>1. /\ m_trade' = desk.trade /\ shown' = desk.shown /\ agreed' = agreed
        /\ UNCHANGED <<updates, possessions>> /\ count' = count /\ bag' = bag
    BY <1>7 DEF tradeVars, desk, possessions
  <2>2. DeskInv' /\ agreed' \in [Players -> Nat]
    BY <2>1, DeskFacts, BecomesIsDesk DEF IInv, TradeTypeOK
  <2> QED
    BY <2>1, <2>2, WindowOnly
<1> QED
  BY <1>1, <1>2, <1>3, <1>4, <1>5, <1>6, <1>7 DEF TradeNext

(* The invariant holds in every reachable state. *)
LEMMA TradeInvariant == TradeSpec => []IInv
  BY InitIInv, StepIInv, PTL DEF TradeSpec

-----------------------------------------------------------------------------
(* The results. *)

(* The state of every trade is well typed, and nobody holds more items than  *)
(* the bags have slots: CanStoreItem asks for every item that moveItems      *)
(* stores or gives back, and for the copy that comes with it.                *)
THEOREM TradeTypeCorrect == TradeSpec => []TradeTypeOK
<1>1. IInv => TradeTypeOK
  BY DEF IInv
<1> QED
  BY <1>1, TradeInvariant, PTL

(* Whoever asks for a trade, cancels or logs out, and in whatever order: the *)
(* two TradeData of a trade name each other.                                 *)
THEOREM TradesStayPaired == TradeSpec => []TradesArePaired
<1>1. IInv => TradesArePaired
  BY TradersKnown DEF IInv, TradesArePaired
<1> QED
  BY <1>1, TradeInvariant, PTL

(* What a player is counted as having accepted is the partner's offer as it  *)
(* stands, but for items that have left the bags.                            *)
THEOREM AcceptanceIsCurrent == TradeSpec => []AcceptedOfferIsCurrent
<1>1. IInv => AcceptedOfferIsCurrent
  <2> SUFFICES ASSUME IInv, NEW p \in Players, Trading(p), m_trade[p].accepted
               PROVE  LET seen == shown[p][agreed[p]]
                          now == Offer(m_trade[Partner(p)], Partner(p), count)
                      IN /\ agreed[p] \in DOMAIN shown[p]
                         /\ seen.money = now.money /\ seen.spell = now.spell
                         /\ \A s \in Slots : now.goods[s] \in {seen.goods[s], None}
    BY DEF AcceptedOfferIsCurrent
  <2>1. Sees(desk, count, p) /\ Agrees(desk, p) /\ shown[p] \in Seq(Offers)
    BY TradersKnown DEF IInv, TradeTypeOK
  <2>2. agreed[p] = Len(shown[p]) /\ Len(shown[p]) > 0
    BY <2>1 DEF Agrees, Sees, desk
  <2>3. agreed[p] \in DOMAIN shown[p]
    BY <2>1, <2>2
  <2> QED
    BY <2>1, <2>2, <2>3 DEF Sees, desk, Partner
<1> QED
  BY <1>1, TradeInvariant, PTL

(* Every item is in one player's bags and in one player's rows of the        *)
(* database, whenever the server stops, and was there from the start, but    *)
(* for those that moveItems has lost or made: the half of GoodsAreConserved  *)
(* that is about items.                                                      *)
THEOREM ItemsStayConserved == TradeSpec => []ItemsAreConserved
<1>1. IInv => ItemsAreConserved
  <2> SUFFICES ASSUME IInv, NEW i \in Items
               PROVE  /\ Cardinality({p \in Players : i \in bag[p]}) = IF count[i] > 0 /\ i \notin lost THEN 1 ELSE 0
                      /\ Cardinality({p \in Players : i \in saved[p].bag}) <= 1
                      /\ count[i] > 0 /\ i \notin lost => \E p \in Players : i \in saved[p].bag
                      /\ count[i] > 0 => start.count[i] > 0 \/ i \in copies
    BY DEF ItemsAreConserved
  <2>1. ASSUME NEW S \in SUBSET Players, \A p, q \in S : p = q
        PROVE  (S = {} /\ Cardinality(S) = 0) \/ (S # {} /\ Cardinality(S) = 1)
    <3>1. CASE S = {}
      BY <3>1, FS_EmptySet
    <3>2. CASE S # {}
      <4>1. PICK x \in S : S = {x}
        BY <3>2, <2>1
      <4> QED
        BY <4>1, FS_Singleton
    <3> QED
      BY <3>1, <3>2
  <2> DEFINE B == {p \in Players : i \in bag[p]}
             D == {p \in Players : i \in saved[p].bag}
  <2>2. /\ \A p, q \in B : p = q
        /\ \A p, q \in D : p = q
    BY DEF IInv, ItemsInv
  <2>3. B \in SUBSET Players /\ D \in SUBSET Players
    OBVIOUS
  <2>4. (B # {} <=> count[i] > 0 /\ i \notin lost) /\ B \subseteq D
    <3>1. B # {} <=> \E p \in Players : i \in bag[p]
      OBVIOUS
    <3>2. B \subseteq D
      BY DEF IInv, ItemsInv
    <3> QED
      BY <3>1, <3>2, ItemKnown
  <2>5. /\ (B = {} /\ Cardinality(B) = 0) \/ (B # {} /\ Cardinality(B) = 1)
        /\ (D = {} /\ Cardinality(D) = 0) \/ (D # {} /\ Cardinality(D) = 1)
    <3> HIDE DEF B, D
    <3> QED  BY <2>1, <2>2, <2>3
  <2>6. count[i] > 0 /\ i \notin lost => \E p \in Players : i \in saved[p].bag
    BY <2>4
  <2>7. Cardinality(B) = IF count[i] > 0 /\ i \notin lost THEN 1 ELSE 0
    <3> HIDE DEF B, D
    <3> QED  BY <2>4, <2>5
  <2>8. Cardinality(D) <= 1
    <3> HIDE DEF B, D
    <3> QED  BY <2>5
  <2> QED
    BY <2>6, <2>7, <2>8, ItemKnown
<1> QED
  BY <1>1, TradeInvariant, PTL

(* What one player's client shows of the other's items covers those that     *)
(* change hands.                                                             *)
LEMMA ShownCovers ==
  ASSUME IInv, NEW p \in Players, Trading(p), NEW i \in TradedItems(Partner(p))
  PROVE  \E s \in TradedSlots : shown[p][Len(shown[p])].goods[s] = <<i, count[i]>>
<1> DEFINE q == Partner(p)
           last == shown[p][Len(shown[p])]
           now == Offer(m_trade[q], q, count)
<1>1. Sees(desk, count, p) /\ q \in Players
  BY TradersKnown DEF IInv
<1>2. PICK s \in TradedSlots : GetItem(m_trade[q], q, s) = i /\ i # None
  BY DEF TradedItems
<1>3. s \in Slots /\ i \in Items
  BY <1>1, <1>2, TradedFromBag DEF Slots, IInv, TradeTypeOK
<1>4. now.goods[s] = <<i, count[i]>>
  BY <1>2, <1>3 DEF Offer
<1>5. now.goods[s] \in {last.goods[s], None}
  BY <1>1, <1>3 DEF Sees, desk, Partner
<1>6. <<i, count[i]>> # None
  BY <1>3, NoneAssumption DEF IInv, TradeTypeOK
<1> QED
  BY <1>4, <1>5, <1>6

(* While every slot before s is done, there is room for the item in s.       *)
LEMMA RoomBefore ==
  ASSUME NEW r, NEW o, NEW x, NEW c, NEW s \in TradedSlots, Before(s) \subseteq x.done,
         IsFiniteSet(bag[r]), IsFiniteSet(bag[o]), BagSize[r] \in Nat,
         Cardinality((bag[r] \ TradedItems(r)) \cup TradedItems(o)) <= BagSize[r],
         InSlot(o, s) # None => MaxCount[Kind[InSlot(o, s)]] = 0
  PROVE  CanStoreItem(r, BagAfter(r, o, Before(s), x), InSlot(o, s), c, 0)
<1> SUFFICES ASSUME InSlot(o, s) # None
             PROVE  Cardinality(BagAfter(r, o, Before(s), x) \cup {InSlot(o, s)}) + 0 <= BagSize[r]
  BY DEF CanStoreItem, CanTakeMoreSimilarItems
<1> DEFINE B == BagAfter(r, o, Before(s), x) \cup {InSlot(o, s)}
           A == (bag[r] \ TradedItems(r)) \cup TradedItems(o)
<1>1. \A t \in TradedSlots : InSlot(o, t) \in TradedItems(o) \cup {None}
  BY DEF TradedItems, InSlot
<1>2. B \subseteq A
  <2>1. \A t \in Before(s) : StoredIn(r, o, t, x) \subseteq TradedItems(o)
    BY <1>1 DEF StoredIn, Before
  <2> QED
    BY <2>1, <1>1 DEF BagAfter
<1>3. IsFiniteSet(A)
  <2>1. A \subseteq bag[r] \cup bag[o]
    BY TradedFromBag
  <2>2. IsFiniteSet(bag[r] \cup bag[o])
    BY FS_Union
  <2> QED
    BY <2>1, <2>2, FS_Subset
<1> HIDE DEF A, B
<1>4. Cardinality(B) <= Cardinality(A) /\ Cardinality(A) \in Nat /\ Cardinality(B) \in Nat
  BY <1>2, <1>3, FS_Subset, FS_CardinalityType
<1>5. Cardinality(A) <= BagSize[r]
  BY DEF A
<1>6. Cardinality(B) + 0 <= BagSize[r]
  BY <1>4, <1>5
<1> QED
  BY <1>6 DEF B

(* Unless an item of a limited kind is among them, all slots are done.       *)
LEMMA AllSlotsDone ==
  ASSUME NEW p, NEW q, NEW x, x.done \subseteq TradedSlots, MoveItems(p, q, x),
         IsFiniteSet(bag[p]), IsFiniteSet(bag[q]), BagSize[p] \in Nat, BagSize[q] \in Nat,
         CanStoreItems(p, TradedItems(q)), CanStoreItems(q, TradedItems(p)),
         \A i \in TradedItems(p) \cup TradedItems(q) : MaxCount[Kind[i]] = 0
  PROVE  x.done = TradedSlots
<1> SUFFICES ASSUME TradedSlots \ x.done # {} PROVE FALSE
  OBVIOUS
<1>1. PICK s \in TradedSlots \ x.done : \A t \in TradedSlots \ x.done : ~(t < s)
  BY FirstSlot
<1>2. Before(s) \subseteq x.done
  BY <1>1 DEF Before
<1>3. /\ Cardinality((bag[p] \ TradedItems(p)) \cup TradedItems(q)) <= BagSize[p]
      /\ Cardinality((bag[q] \ TradedItems(q)) \cup TradedItems(p)) <= BagSize[q]
  BY DEF CanStoreItems
<1>4. /\ InSlot(p, s) # None => MaxCount[Kind[InSlot(p, s)]] = 0
      /\ InSlot(q, s) # None => MaxCount[Kind[InSlot(q, s)]] = 0
  BY DEF TradedItems, InSlot
<1>5. /\ CanStoreItem(q, BagAfter(q, p, Before(s), x), InSlot(p, s), CountAfter(p, q, x), 0)
      /\ CanStoreItem(p, BagAfter(p, q, Before(s), x), InSlot(q, s), CountAfter(p, q, x), 0)
  BY <1>2, <1>3, <1>4, RoomBefore
<1> QED
  BY <1>5 DEF MoveItems

(* The exchange that HandleAcceptTrade carries out is the one both clients   *)
(* showed when their players accepted, whatever happened to the goods since: *)
(* nobody gets anything else but copies of what moveItems gave back, and     *)
(* unless an item of a limited kind is among them, everything changes hands. *)
THEOREM ExchangeCorrect == TradeSpec => ExchangeIsAgreed
<1>1. ASSUME IInv, NEW p \in Players, NEW v \in DOMAIN shown[p], AcceptCompletes(p, v)
      PROVE  LET q == Partner(p)
                 toP == shown[p][v]
                 toQ == shown[q][agreed[q]]
             IN /\ agreed[q] \in DOMAIN shown[q]
                /\ money'[p] = money[p] - toQ.money + toP.money
                /\ money'[q] = money[q] - toP.money + toQ.money
                /\ \A i \in bag'[p] \ (bag[p] \cup copies') : \E s \in TradedSlots : toP.goods[s] = <<i, count[i]>>
                /\ \A i \in bag'[q] \ (bag[q] \cup copies') : \E s \in TradedSlots : toQ.goods[s] = <<i, count[i]>>
                /\ (\A i \in TradedItems(p) \cup TradedItems(q) : MaxCount[Kind[i]] = 0) =>
                     /\ bag'[p] = (bag[p] \ TradedItems(p)) \cup TradedItems(q)
                     /\ bag'[q] = (bag[q] \ TradedItems(q)) \cup TradedItems(p)
  <2> DEFINE q == Partner(p)
             toP == shown[p][v]
             toQ == shown[q][agreed[q]]
  <2>1. /\ Trading(p) /\ v = Len(shown[p]) /\ m_trade[q].accepted
        /\ money[p] >= m_trade[p].money /\ money[q] >= m_trade[q].money
        /\ money[p] <= MaxMoney - m_trade[q].money /\ money[q] <= MaxMoney - m_trade[Partner(q)].money
    BY <1>1 DEF AcceptCompletes, Checked, Accepting, StateIndexIsCurrent, MoneyIsRight, HasEnoughMoney, MayReceive
  <2>2. /\ q \in Players /\ q # p /\ Trading(q) /\ Partner(q) = p
        /\ m_trade[p] \in TradeData /\ m_trade[q] \in TradeData
        /\ Sees(desk, count, p) /\ Sees(desk, count, q) /\ Agrees(desk, q)
    BY <1>1, <2>1, TradersKnown DEF IInv
  <2>3. shown[q] \in Seq(Offers) /\ agreed[q] = Len(shown[q]) /\ Len(shown[q]) > 0
    BY <1>1, <2>1, <2>2 DEF IInv, TradeTypeOK, Agrees, Sees, desk
  <2>4. toP.money = m_trade[q].money
    BY <2>1, <2>2 DEF Sees, desk, Partner, Offer
  <2>5. toQ.money = m_trade[p].money
    BY <2>2, <2>3 DEF Sees, desk, Partner, Offer
  <2>6. /\ bag \in [Players -> SUBSET Items] /\ money \in [Players -> 0 .. MaxMoney]
        /\ m_trade[p].money \in 0 .. MaxMoney /\ m_trade[q].money \in 0 .. MaxMoney
    BY <1>1, <2>2 DEF IInv, TradeTypeOK, TradeData
  <2>o. PICK x, m, kp, kq : Outcome(p, q, x, m, kp, kq)
    BY <1>1, OutcomeExists
  <2>7. money' = [money EXCEPT ![p] = ModifyMoney(@, m_trade[p].money, m_trade[q].money),
                               ![q] = ModifyMoney(@, m_trade[q].money, m_trade[p].money)]
    BY <2>o DEF Outcome
  <2>d. Deal(p, q, x) /\ Deal(q, p, x)
    BY <1>1, <2>1, <2>o, DealIsMade, DealIsMutual DEF Outcome
  <2>e. CanStoreItems(p, TradedItems(q)) /\ CanStoreItems(q, TradedItems(p))
    BY <1>1 DEF AcceptCompletes
  <2> HIDE DEF q, toP, toQ
  <2>8. agreed[q] \in DOMAIN shown[q]
    BY <2>3
  <2>9. /\ money'[p] = money[p] - m_trade[p].money + m_trade[q].money
        /\ money'[q] = money[q] - m_trade[q].money + m_trade[p].money
    <3>1. /\ money'[p] = ModifyMoney(money[p], m_trade[p].money, m_trade[q].money)
          /\ money'[q] = ModifyMoney(money[q], m_trade[q].money, m_trade[p].money)
      BY <2>2, <2>6, <2>7
    <3>2. money[p] \in 0 .. MaxMoney /\ money[q] \in 0 .. MaxMoney
      BY <2>2, <2>6
    <3>3. ModifyMoney(money[p], m_trade[p].money, m_trade[q].money)
            = money[p] - m_trade[p].money + m_trade[q].money
      BY <2>1, <2>6, <3>2, ModifyMoneyType
    <3>4. ModifyMoney(money[q], m_trade[q].money, m_trade[p].money)
            = money[q] - m_trade[q].money + m_trade[p].money
      BY <2>1, <2>2, <2>6, <3>2, ModifyMoneyType, ZenonT(60)
    <3> QED
      BY <3>1, <3>3, <3>4
  <2>b. /\ bag'[p] = BagAfter(p, q, TradedSlots, x) /\ bag'[q] = BagAfter(q, p, TradedSlots, x)
        /\ copies' = copies \cup Copied(x)
    BY <2>2, <2>6, <2>o DEF Outcome
  <2>10. /\ bag'[p] \ (bag[p] \cup copies') \subseteq TradedItems(q)
         /\ bag'[q] \ (bag[q] \cup copies') \subseteq TradedItems(p)
    <3>1. ASSUME NEW r, NEW o, Deal(r, o, x), NEW i, Has(r, o, x, i), i \notin bag[r], i \notin Copied(x)
          PROVE  i \in TradedItems(o)
      <4>1. ~ \E j \in x.back : i # None /\ i = x.copy[j]
        BY <3>1 DEF Copied
      <4>2. PICK s \in x.done : InSlot(o, s) = i
        BY <3>1, <4>1 DEF Has
      <4>3. i # None /\ s \in TradedSlots
        BY <3>1, <4>1 DEF Has, Deal
      <4> QED
        BY <4>2, <4>3 DEF TradedItems, InSlot
    <3> QED
      BY <3>1, <2>b, <2>d, BagAfterIs
  <2>u. ASSUME \A i \in TradedItems(p) \cup TradedItems(q) : MaxCount[Kind[i]] = 0
        PROVE  /\ bag'[p] = (bag[p] \ TradedItems(p)) \cup TradedItems(q)
               /\ bag'[q] = (bag[q] \ TradedItems(q)) \cup TradedItems(p)
    <3>1. \A r \in Players : IsFiniteSet(bag[r]) /\ BagSize[r] \in Nat
      BY <1>1, BagAssumption DEF IInv, ItemsInv
    <3>2. x.done = TradedSlots
      BY <2>2, <2>e, <2>o, <2>u, <3>1, AllSlotsDone DEF Outcome
    <3>3. \A r, o : UNION {StoredIn(r, o, s, x) : s \in TradedSlots} = TradedItems(o)
      BY <3>2 DEF StoredIn, TradedItems, InSlot
    <3> QED
      BY <3>3, <2>b DEF BagAfter
  <2>11. \A i \in TradedItems(q) : \E s \in TradedSlots : toP.goods[s] = <<i, count[i]>>
    BY <1>1, <2>1, ShownCovers DEF q, toP
  <2>12. \A i \in TradedItems(p) : \E s \in TradedSlots : toQ.goods[s] = <<i, count[i]>>
    BY <1>1, <2>2, <2>3, ShownCovers, ZenonT(60) DEF toQ
  <2> QED
    BY <2>4, <2>5, <2>8, <2>9, <2>10, <2>u, <2>11, <2>12 DEF q, toP, toQ
<1>2. IInv => \A p \in Players : \A v \in DOMAIN shown[p] :
        AcceptCompletes(p, v) =>
          LET q == Partner(p)
              toP == shown[p][v]
              toQ == shown[q][agreed[q]]
          IN /\ agreed[q] \in DOMAIN shown[q]
             /\ money'[p] = money[p] - toQ.money + toP.money
             /\ money'[q] = money[q] - toP.money + toQ.money
             /\ \A i \in bag'[p] \ (bag[p] \cup copies') : \E s \in TradedSlots : toP.goods[s] = <<i, count[i]>>
             /\ \A i \in bag'[q] \ (bag[q] \cup copies') : \E s \in TradedSlots : toQ.goods[s] = <<i, count[i]>>
             /\ (\A i \in TradedItems(p) \cup TradedItems(q) : MaxCount[Kind[i]] = 0) =>
                  /\ bag'[p] = (bag[p] \ TradedItems(p)) \cup TradedItems(q)
                  /\ bag'[q] = (bag[q] \ TradedItems(q)) \cup TradedItems(p)
  BY <1>1
<1> QED
  BY <1>2, TradeInvariant, PTL DEF ExchangeIsAgreed

-----------------------------------------------------------------------------
(* Sums over a finite set of players.  h gives the sum of f over every       *)
(* subset of S, whichever element is taken out first.                        *)
Additive(h, f, S) ==
  /\ h \in [SUBSET S -> Int] /\ h[{}] = 0
  /\ \A s \in SUBSET S : \A x \in s : h[s] = f[x] + h[s \ {x}]

(* The fold of MapThenSumSet: one step, and what it folds. *)
FoldStep(g, f, s) ==
  IF s = {} THEN 0 ELSE f[CHOOSE x \in s : TRUE] + g[s \ {CHOOSE x \in s : TRUE}]

IsFold(g, f, S) == g = [s \in SUBSET S |-> FoldStep(g, f, s)]

(* One more element. *)
LEMMA AdditiveExtends ==
  ASSUME NEW T, NEW y \in T, NEW f \in [T -> Int], NEW h, Additive(h, f, T \ {y})
  PROVE  \E h2 : Additive(h2, f, T)
<1> DEFINE U == T \ {y}
           h2 == [s \in SUBSET T |-> IF y \in s THEN f[y] + h[s \ {y}] ELSE h[s]]
<1>1. /\ h \in [SUBSET U -> Int] /\ h[{}] = 0
      /\ \A s \in SUBSET U : \A x \in s : h[s] = f[x] + h[s \ {x}]
  BY DEF Additive
<1>2. /\ \A s \in SUBSET T : s \ {y} \in SUBSET U
      /\ \A s \in SUBSET T : y \notin s => s \in SUBSET U
      /\ \A s \in SUBSET T : \A x \in s : s \ {x} \in SUBSET T
      /\ {} \in SUBSET T
  OBVIOUS
<1>3. \A s \in SUBSET U : h[s] \in Int
  BY <1>1
<1>4. \A x \in T : f[x] \in Int
  OBVIOUS
<1> HIDE DEF U
<1>5. h2 \in [SUBSET T -> Int] /\ h2[{}] = 0
  BY <1>1, <1>2, <1>3, <1>4
<1>6. /\ \A s \in SUBSET T : y \in s => h2[s] = f[y] + h[s \ {y}]
      /\ \A s \in SUBSET T : y \notin s => h2[s] = h[s]
  OBVIOUS
<1> HIDE DEF h2
<1>7. ASSUME NEW s \in SUBSET T, NEW x \in s PROVE h2[s] = f[x] + h2[s \ {x}]
  <2>0. s \ {x} \in SUBSET T /\ s \ {y} \in SUBSET U
    BY <1>2
  <2>1. CASE x = y
    <3>1. h2[s \ {y}] = h[s \ {y}] /\ h2[s] = f[y] + h[s \ {y}]
      BY <2>0, <2>1, <1>6
    <3> QED BY <2>1, <3>1
  <2>2. CASE x # y /\ y \in s
    <3>1. y \in s \ {x} /\ x \in s \ {y} /\ (s \ {y}) \ {x} = (s \ {x}) \ {y}
      BY <2>2
    <3>2. h[s \ {y}] = f[x] + h[(s \ {y}) \ {x}]
      BY <2>0, <3>1, <1>1
    <3>3. h2[s] = f[y] + h[s \ {y}] /\ h2[s \ {x}] = f[y] + h[(s \ {x}) \ {y}]
      BY <2>0, <2>2, <3>1, <1>6
    <3>4. (s \ {x}) \ {y} \in SUBSET U
      BY <2>0, <1>2
    <3>5. f[x] \in Int /\ f[y] \in Int /\ h[(s \ {x}) \ {y}] \in Int
      BY <3>4, <1>3, <1>4
    <3> DEFINE v == h[(s \ {x}) \ {y}]
    <3>6. h2[s] = f[y] + (f[x] + v) /\ h2[s \ {x}] = f[y] + v /\ v \in Int
      BY <3>1, <3>2, <3>3, <3>5
    <3> HIDE DEF v
    <3> QED BY <3>5, <3>6
  <2>3. CASE y \notin s
    <3>1. s \in SUBSET U /\ y \notin s \ {x}
      BY <2>3, <1>2
    <3>2. h2[s] = h[s] /\ h2[s \ {x}] = h[s \ {x}]
      BY <2>0, <2>3, <3>1, <1>6
    <3> QED BY <3>1, <3>2, <1>1
  <2> QED BY <2>1, <2>2, <2>3
<1>8. Additive(h2, f, T)
  BY <1>5, <1>7 DEF Additive
<1> QED BY <1>8

(* A finite set has its sums: a smallest subset without them would have one  *)
(* element more than one that has.                                           *)
LEMMA AdditiveExists ==
  ASSUME NEW S, IsFiniteSet(S), NEW f \in [S -> Int]
  PROVE  \E h : Additive(h, f, S)
<1> DEFINE C == {T \in SUBSET S : \A h : ~Additive(h, f, T)}
<1>1. ASSUME S \in C PROVE FALSE
  <2>1. PICK T \in C : \A x \in T : T \ {x} \notin C
    BY <1>1, SmallestSet
  <2>2. T \in SUBSET S /\ \A h : ~Additive(h, f, T)
    OBVIOUS
  <2>3. CASE T = {}
    <3> DEFINE h == [s \in SUBSET {} |-> 0]
    <3>1. h \in [SUBSET {} -> Int] /\ h[{}] = 0 /\ \A s \in SUBSET {} : \A x \in s : FALSE
      OBVIOUS
    <3>2. Additive(h, f, {})
      BY <3>1 DEF Additive
    <3> QED BY <2>2, <2>3, <3>2
  <2>4. CASE T # {}
    <3>1. PICK y : y \in T
      BY <2>4
    <3>2. PICK h : Additive(h, f, T \ {y})
      BY <2>1, <2>2, <3>1
    <3> DEFINE e == [x \in T |-> f[x]]
    <3>3. e \in [T -> Int] /\ \A x \in T : e[x] = f[x]
      BY <2>2
    <3> HIDE DEF e
    <3>4. Additive(h, e, T \ {y})
      BY <3>2, <3>3 DEF Additive
    <3>5. PICK h2 : Additive(h2, e, T)
      BY <3>1, <3>3, <3>4, AdditiveExtends
    <3>6. Additive(h2, f, T)
      BY <3>3, <3>5 DEF Additive
    <3> QED BY <2>2, <3>6
  <2> QED BY <2>3, <2>4
<1> QED BY <1>1

(* The sums of additive functions fold ... *)
LEMMA AdditiveFolds ==
  ASSUME NEW S, NEW f, NEW h, Additive(h, f, S)
  PROVE  IsFold(h, f, S)
<1>1. /\ h \in [SUBSET S -> Int] /\ h[{}] = 0
      /\ \A s \in SUBSET S : \A x \in s : h[s] = f[x] + h[s \ {x}]
  BY DEF Additive
<1>2. ASSUME NEW s \in SUBSET S PROVE h[s] = FoldStep(h, f, s)
  <2>1. CASE s = {}
    BY <2>1, <1>1 DEF FoldStep
  <2>2. CASE s # {}
    <3> DEFINE c == CHOOSE x \in s : TRUE
    <3>1. c \in s
      BY <2>2
    <3>2. h[s] = f[c] + h[s \ {c}]
      BY <3>1, <1>1
    <3> QED BY <2>2, <3>2 DEF FoldStep
  <2> QED BY <2>1, <2>2
<1> QED BY <1>1, <1>2 DEF IsFold

(* ... and nothing else folds. *)
LEMMA FoldIsAdditive ==
  ASSUME NEW S, IsFiniteSet(S), NEW f, NEW h, Additive(h, f, S), NEW g, IsFold(g, f, S)
  PROVE  \A s \in SUBSET S : g[s] = h[s]
<1> DEFINE C == {s \in SUBSET S : g[s] # h[s]}
<1>1. ASSUME C # {} PROVE FALSE
  <2>1. PICK s \in C : \A x \in s : s \ {x} \notin C
    BY <1>1, SmallestSet
  <2>2. s \in SUBSET S /\ g[s] # h[s]
    OBVIOUS
  <2>3. g[s] = FoldStep(g, f, s) /\ h[s] = FoldStep(h, f, s)
    <3>1. \A k : IsFold(k, f, S) => k[s] = FoldStep(k, f, s)
      BY <2>2, Zenon DEF IsFold
    <3>2. IsFold(h, f, S)
      BY AdditiveFolds
    <3> QED BY <3>1, <3>2
  <2>4. CASE s = {}
    BY <2>2, <2>3, <2>4 DEF FoldStep
  <2>5. CASE s # {}
    <3> DEFINE c == CHOOSE x \in s : TRUE
    <3>1. c \in s
      BY <2>5
    <3>2. s \ {c} \in SUBSET S /\ s \ {c} \notin C
      BY <2>1, <2>2, <3>1
    <3>3. g[s \ {c}] = h[s \ {c}]
      BY <3>2
    <3> QED BY <2>2, <2>3, <2>5, <3>3 DEF FoldStep
  <2> QED BY <2>4, <2>5
<1> QED BY <1>1

SumOver(f, S) == MapThenSumSet(LAMBDA p : f[p], S)

(* MapThenSumSet is the sum. *)
LEMMA SumIsAdditive ==
  ASSUME NEW S, IsFiniteSet(S), NEW f, NEW h, Additive(h, f, S)
  PROVE  SumOver(f, S) = h[S]
<1> DEFINE g == CHOOSE k : IsFold(k, f, S)
<1>1. SumOver(f, S) = g[S]
  BY Zenon DEF SumOver, MapThenSumSet, MapThenFoldSet, FoldStep, IsFold
<1>2. IsFold(g, f, S)
  BY AdditiveFolds
<1> HIDE DEF g
<1>3. g[S] = h[S]
  BY <1>2, FoldIsAdditive
<1> QED BY <1>1, <1>3

(* From f to f2, q gives d to p. *)
Transfer(f, f2, S, p, q, d) ==
  /\ f \in [S -> Int] /\ f2 \in [S -> Int]
  /\ p \in S /\ q \in S /\ p # q /\ d \in Int
  /\ f2[p] = f[p] + d /\ f2[q] = f[q] - d
  /\ \A x \in S \ {p, q} : f2[x] = f[x]

(* What one element gives another leaves the sum as it is. *)
LEMMA SumOfTransfer ==
  ASSUME NEW S, IsFiniteSet(S), NEW f, NEW f2, NEW p, NEW q, NEW d, Transfer(f, f2, S, p, q, d)
  PROVE  SumOver(f2, S) = SumOver(f, S)
<1>0. /\ f \in [S -> Int] /\ f2 \in [S -> Int]
      /\ p \in S /\ q \in S /\ p # q /\ d \in Int
      /\ f2[p] = f[p] + d /\ f2[q] = f[q] - d
      /\ \A x \in S \ {p, q} : f2[x] = f[x]
  BY DEF Transfer
<1>1. PICK h : Additive(h, f, S)
  BY <1>0, AdditiveExists
<1>2. /\ h \in [SUBSET S -> Int] /\ h[{}] = 0
      /\ \A s \in SUBSET S : \A x \in s : h[s] = f[x] + h[s \ {x}]
  BY <1>1 DEF Additive
<1> DEFINE In(x, s) == IF x \in s THEN d ELSE 0
           h2 == [s \in SUBSET S |-> h[s] + In(p, s) - In(q, s)]
<1>3. h2 \in [SUBSET S -> Int] /\ h2[{}] = 0 /\ \A s \in SUBSET S : h2[s] = h[s] + In(p, s) - In(q, s)
  BY <1>0, <1>2
<1>4. h2[S] = h[S]
  BY <1>0, <1>2
<1> HIDE DEF h2
<1>5. ASSUME NEW s \in SUBSET S, NEW x \in s PROVE h2[s] = f2[x] + h2[s \ {x}]
  <2>1. s \ {x} \in SUBSET S /\ x \in S
    OBVIOUS
  <2>2. h[s] = f[x] + h[s \ {x}] /\ h[s \ {x}] \in Int /\ f[x] \in Int
    BY <2>1, <1>0, <1>2
  <2>3. /\ h2[s] = h[s] + In(p, s) - In(q, s)
        /\ h2[s \ {x}] = h[s \ {x}] + In(p, s \ {x}) - In(q, s \ {x})
    BY <2>1, <1>3
  <2> DEFINE v == h[s \ {x}]
             a == f[x]
  <2>4. v \in Int /\ a \in Int /\ h[s] = a + v
    BY <2>2
  <2>5. CASE x = p
    <3>1. In(p, s) = d /\ In(p, s \ {x}) = 0 /\ In(q, s \ {x}) = In(q, s) /\ In(q, s) \in Int /\ f2[x] = a + d
      BY <2>5, <1>0
    <3>2. h2[s] = (a + v) + d - In(q, s) /\ h2[s \ {x}] = v + 0 - In(q, s)
      BY <3>1, <2>3, <2>4
    <3> HIDE DEF In, v, a
    <3> QED BY <3>1, <3>2, <2>4, <1>0
  <2>6. CASE x = q
    <3>1. In(q, s) = d /\ In(q, s \ {x}) = 0 /\ In(p, s \ {x}) = In(p, s) /\ In(p, s) \in Int /\ f2[x] = a - d
      BY <2>6, <1>0
    <3>2. h2[s] = (a + v) + In(p, s) - d /\ h2[s \ {x}] = v + In(p, s) - 0
      BY <3>1, <2>3, <2>4
    <3> HIDE DEF In, v, a
    <3> QED BY <3>1, <3>2, <2>4, <1>0
  <2>7. CASE x # p /\ x # q
    <3>1. /\ In(q, s \ {x}) = In(q, s) /\ In(p, s \ {x}) = In(p, s)
          /\ In(p, s) \in Int /\ In(q, s) \in Int /\ f2[x] = a
      BY <2>1, <2>7, <1>0
    <3>2. h2[s] = (a + v) + In(p, s) - In(q, s) /\ h2[s \ {x}] = v + In(p, s) - In(q, s)
      BY <3>1, <2>3, <2>4
    <3> HIDE DEF In, v, a
    <3> QED BY <3>1, <3>2, <2>4, <1>0
  <2> QED BY <2>5, <2>6, <2>7
<1>6. Additive(h2, f2, S)
  BY <1>3, <1>5 DEF Additive
<1> HIDE DEF In
<1>7. SumOver(f2, S) = h2[S]
  BY <1>6, SumIsAdditive
<1>8. SumOver(f, S) = h[S]
  BY <1>1, SumIsAdditive
<1> QED BY <1>4, <1>7, <1>8

-----------------------------------------------------------------------------
(* Money.  What a player owns and has spent is in the database whatever      *)
(* happens between two saves, and a trade moves it from one to the other.    *)
Wealth == [p \in Players |-> money[p] + spent[p]]
Stored == [p \in Players |-> saved[p].money + saved[p].spent]

MoneyInv == Stored = Wealth /\ Total(Wealth) = Total(start.money)

(* Wealth is a number, and so is what is stored of it. *)
LEMMA WealthType ==
  ASSUME TradeTypeOK
  PROVE  /\ Wealth \in [Players -> Int] /\ Stored \in [Players -> Int]
         /\ \A p \in Players : /\ money[p] \in Int /\ spent[p] \in Int
                               /\ saved[p].money \in Int /\ saved[p].spent \in Int
<1>1. \A p \in Players : /\ money[p] \in Int /\ spent[p] \in Int
                         /\ saved[p].money \in Int /\ saved[p].spent \in Int
  <2>1. \A x \in Rows : x.money \in Int /\ x.spent \in Int
    BY MoneyAssumption DEF Rows
  <2> QED
    BY <2>1, MoneyAssumption DEF TradeTypeOK
<1> QED
  BY <1>1 DEF Wealth, Stored

(* At the start everything is stored and nothing is spent. *)
LEMMA InitMoney == TradeInit => MoneyInv
<1> SUFFICES ASSUME TradeInit PROVE MoneyInv
  OBVIOUS
<1>1. Wealth = start.money
  <2>1. start.money \in [Players -> 0 .. MaxMoney] /\ money = start.money /\ spent = [p \in Players |-> 0]
    BY StartAssumption DEF TradeInit
  <2>2. \A p \in Players : money[p] + spent[p] = start.money[p]
    BY <2>1, MoneyAssumption
  <2> QED
    BY <2>1, <2>2 DEF Wealth
<1>2. Stored = Wealth
  BY DEF TradeInit, RowsOf, Stored, Wealth
<1> QED
  BY <1>1, <1>2 DEF MoneyInv

(* A step that changes nobody's wealth, stored or not. *)
LEMMA MoneyStays ==
  ASSUME MoneyInv, Wealth' = Wealth, Stored' = Stored, start' = start
  PROVE  MoneyInv'
  BY DEF MoneyInv

(* What is done at the window, and what becomes of items, leaves the money. *)
LEMMA MoneyUntouched ==
  ASSUME MoneyInv, UNCHANGED <<start, money, spent, saved>>
  PROVE  MoneyInv'
  BY MoneyStays DEF Wealth, Stored

(* ModifyMoney by a shop, a repair, a mail: from money to spent. *)
LEMMA MoneySpent ==
  ASSUME IInv, MoneyInv, NEW p \in Players, SpendMoney(p)
  PROVE  MoneyInv'
<1>1. /\ money' = [money EXCEPT ![p] = @ - 1] /\ spent' = [spent EXCEPT ![p] = @ + 1] /\ saved' = saved
      /\ money \in [Players -> 0 .. MaxMoney] /\ spent \in [Players -> Nat]
  BY DEF SpendMoney, IInv, TradeTypeOK
<1>2. \A r \in Players : money[r] \in Int /\ spent[r] \in Int
  BY WealthType DEF IInv
<1>3. \A r \in Players : money'[r] + spent'[r] = money[r] + spent[r]
  <2> TAKE r \in Players
  <2>1. CASE r = p
    <3>1. money'[r] = money[r] - 1 /\ spent'[r] = spent[r] + 1
      BY <1>1, <2>1
    <3> QED
      BY <3>1, <1>2
  <2>2. CASE r # p
    BY <1>1, <2>2
  <2> QED
    BY <2>1, <2>2
<1> QED
  BY <1>1, <1>3, MoneyStays DEF Wealth, Stored, SpendMoney

(* A save stores what the rows did not have yet. *)
LEMMA MoneySaved ==
  ASSUME IInv, MoneyInv, NEW p \in Players, NEW stale \in StaleRows(p, bag, lost), Saves(p, stale),
         UNCHANGED <<start, money, spent>>
  PROVE  MoneyInv'
<1>2. saved'[p].money = money[p] /\ saved'[p].spent = spent[p] /\ \A r \in Players \ {p} : saved'[r] = saved[r]
  BY SavesWrites
<1>3. \A r \in Players : saved[r].money + saved[r].spent = money[r] + spent[r]
  BY Zenon DEF MoneyInv, Stored, Wealth
<1>4. \A r \in Players : saved'[r].money + saved'[r].spent = saved[r].money + saved[r].spent
  BY <1>2, <1>3
<1> QED
  BY <1>4, MoneyStays DEF Wealth, Stored

(* After a crash everybody owns what was stored. *)
LEMMA MoneyReloaded ==
  ASSUME MoneyInv, Crash
  PROVE  MoneyInv'
<1>1. Stored' = Stored /\ Wealth' = Stored /\ start' = start
  BY DEF Crash, Stored, Wealth
<1> QED
  BY <1>1, MoneyStays DEF MoneyInv

(* The total of all players does not see what one gives another. *)
LEMMA TotalOfTransfer ==
  ASSUME NEW f, NEW f2, NEW p, NEW q, NEW d, Transfer(f, f2, Players, p, q, d)
  PROVE  Total(f2) = Total(f)
<1>1. SumOver(f2, Players) = SumOver(f, Players)
  BY PlayersAssumption, SumOfTransfer
<1> QED
  BY <1>1, Zenon DEF Total, SumOver

(* A trade moves money between the two, and stores both in one transaction.  *)
LEMMA MoneyTraded ==
  ASSUME IInv, MoneyInv, NEW p \in Players, NEW v \in 1 .. Len(shown[p]), AcceptCompletes(p, v)
  PROVE  MoneyInv'
<1> DEFINE q == Partner(p)
           d == m_trade[q].money - m_trade[p].money
<1>1. /\ Trading(p) /\ q = Partner(p)
      /\ money[p] >= m_trade[p].money /\ money[q] >= m_trade[q].money
      /\ money[p] <= MaxMoney - m_trade[q].money /\ money[q] <= MaxMoney - m_trade[Partner(q)].money
  BY DEF AcceptCompletes, Checked, Accepting, MoneyIsRight, HasEnoughMoney, MayReceive
<1>2. /\ q \in Players /\ q # p /\ Partner(q) = p
      /\ m_trade[p] \in TradeData /\ m_trade[q] \in TradeData
  BY <1>1, TradersKnown DEF IInv
<1>3. /\ money \in [Players -> 0 .. MaxMoney] /\ saved \in [Players -> Rows]
      /\ m_trade[p].money \in 0 .. MaxMoney /\ m_trade[q].money \in 0 .. MaxMoney
  BY <1>2 DEF IInv, TradeTypeOK, TradeData
<1>4. /\ money' = [money EXCEPT ![p] = ModifyMoney(@, m_trade[p].money, m_trade[q].money),
                                ![q] = ModifyMoney(@, m_trade[q].money, m_trade[p].money)]
      /\ spent' = spent
  BY DEF AcceptCompletes
<1>5. \E b, c, kp, kq : saved' = [saved EXCEPT ![p] = RowsWith(p, b, c, money', kp), ![q] = RowsWith(q, b, c, money', kq)]
  <2>1. PICK x, m, kp, kq : Outcome(p, q, x, m, kp, kq)
    BY OutcomeExists
  <2>2. money' = m /\ saved' = [saved EXCEPT ![p] = RowsWith(p, bag', count', m, kp), ![q] = RowsWith(q, bag', count', m, kq)]
    BY <2>1 DEF Outcome
  <2>3. saved' = [saved EXCEPT ![p] = RowsWith(p, bag', count', money', kp), ![q] = RowsWith(q, bag', count', money', kq)]
    BY <2>2
  <2> QED
    BY <2>3, Zenon
<1> HIDE DEF q
<1>6. /\ money'[p] = money[p] + d /\ money'[q] = money[q] - d
      /\ \A r \in Players \ {p, q} : money'[r] = money[r]
  <2>1. money[p] \in 0 .. MaxMoney /\ money[q] \in 0 .. MaxMoney
    BY <1>2, <1>3
  <2>2. ModifyMoney(money[p], m_trade[p].money, m_trade[q].money) = money[p] - m_trade[p].money + m_trade[q].money
    BY <1>1, <1>3, <2>1, ModifyMoneyType, ZenonT(60)
  <2>3. ModifyMoney(money[q], m_trade[q].money, m_trade[p].money) = money[q] - m_trade[q].money + m_trade[p].money
    BY <1>1, <1>2, <1>3, <2>1, ModifyMoneyType, ZenonT(60)
  <2>4. /\ money'[p] = money[p] - m_trade[p].money + m_trade[q].money
        /\ money'[q] = money[q] - m_trade[q].money + m_trade[p].money
    BY <1>2, <1>3, <1>4, <2>2, <2>3
  <2>5. m_trade[p].money \in Int /\ m_trade[q].money \in Int /\ money[p] \in Int /\ money[q] \in Int
    BY <1>3, <2>1, MoneyAssumption
  <2> QED
    BY <1>2, <1>3, <1>4, <2>4, <2>5
<1>7. d \in Int
  BY <1>3, MoneyAssumption
<1> HIDE DEF d
<1>8. /\ Wealth \in [Players -> Int] /\ Wealth' \in [Players -> Int]
      /\ \A r \in Players : money[r] \in Int /\ spent[r] \in Int
  <2>1. TradeTypeOK /\ TradeTypeOK'
    BY CompletesKeeps DEF IInv
  <2>2. \A r \in Players : money'[r] \in Int /\ spent'[r] \in Int
    BY <2>1, MoneyAssumption DEF TradeTypeOK
  <2> QED
    BY <2>1, <2>2, WealthType DEF Wealth
<1>9. /\ Wealth'[p] = Wealth[p] + d /\ Wealth'[q] = Wealth[q] - d
      /\ \A r \in Players \ {p, q} : Wealth'[r] = Wealth[r]
  <2>1. \A r \in Players : Wealth[r] = money[r] + spent[r] /\ Wealth'[r] = money'[r] + spent[r]
    BY <1>4 DEF Wealth
  <2>2. \A r \in Players \ {p, q} : Wealth'[r] = Wealth[r]
    BY <1>6, <2>1
  <2>3. Wealth'[p] = money[p] + d + spent[p] /\ Wealth'[q] = money[q] - d + spent[q]
    BY <1>2, <1>6, <2>1
  <2>4. Wealth[p] = money[p] + spent[p] /\ Wealth[q] = money[q] + spent[q]
    BY <1>2, <2>1
  <2>5. money[p] \in Int /\ spent[p] \in Int /\ money[q] \in Int /\ spent[q] \in Int
    BY <1>2, <1>8
  <2>6. \A a, b \in Int : a + d + b = (a + b) + d /\ a - d + b = (a + b) - d
    BY <1>7
  <2>7. /\ money[p] + d + spent[p] = (money[p] + spent[p]) + d
        /\ money[q] - d + spent[q] = (money[q] + spent[q]) - d
    BY <2>5, <2>6
  <2> QED
    BY <2>2, <2>3, <2>4, <2>7
<1>10. Total(Wealth') = Total(Wealth)
  <2>1. Transfer(Wealth, Wealth', Players, p, q, d)
    BY <1>2, <1>7, <1>8, <1>9 DEF Transfer
  <2> QED
    BY <2>1, TotalOfTransfer
<1>11. Stored' = Wealth'
  <2>1. /\ saved'[p].money = money'[p] /\ saved'[p].spent = spent[p]
        /\ saved'[q].money = money'[q] /\ saved'[q].spent = spent[q]
        /\ \A r \in Players \ {p, q} : saved'[r] = saved[r]
    <3>1. PICK b, c, kp, kq :
            saved' = [saved EXCEPT ![p] = RowsWith(p, b, c, money', kp), ![q] = RowsWith(q, b, c, money', kq)]
      BY <1>5
    <3>2. \A r, k : RowsWith(r, b, c, money', k).money = money'[r] /\ RowsWith(r, b, c, money', k).spent = spent[r]
      BY DEF RowsWith, RowsOf
    <3>3. /\ saved'[p] = RowsWith(p, b, c, money', kp) /\ saved'[q] = RowsWith(q, b, c, money', kq)
          /\ \A r \in Players \ {p, q} : saved'[r] = saved[r]
      BY <1>2, <1>3, <3>1
    <3> QED
      BY <3>2, <3>3
  <2>2. \A r \in Players : saved[r].money + saved[r].spent = money[r] + spent[r]
    BY Zenon DEF MoneyInv, Stored, Wealth
  <2>3. \A r \in Players : saved'[r].money + saved'[r].spent = money'[r] + spent'[r]
    BY <1>4, <1>6, <2>1, <2>2
  <2> QED
    BY <2>3 DEF Stored, Wealth
<1>12. start' = start
  BY DEF AcceptCompletes
<1> QED
  BY <1>10, <1>11, <1>12 DEF MoneyInv

(* Every step keeps the money. *)
LEMMA StepMoney == IInv /\ MoneyInv /\ [TradeNext]_tradeVars => MoneyInv'
<1> SUFFICES ASSUME IInv, MoneyInv, [TradeNext]_tradeVars PROVE MoneyInv'
  OBVIOUS
<1>1. ASSUME NEW p \in Players, NEW v \in 1 .. Len(shown[p]), HandleAcceptTrade(p, v) PROVE MoneyInv'
  <2>1. CASE AcceptCompletes(p, v)
    BY <2>1, MoneyTraded
  <2>2. CASE ~AcceptCompletes(p, v)
    <3>1. UNCHANGED <<start, money, spent, saved>>
      BY <1>1, <2>2 DEF HandleAcceptTrade, AcceptRefused, AcceptBlamesTrader, AcceptBlocked,
           AcceptFirst, AcceptSpellFails, AcceptNoSpace, Accepts, possessions
    <3> QED
      BY <3>1, MoneyUntouched
  <2> QED
    BY <2>1, <2>2
<1>2. ASSUME NEW p \in Players,
             \/ \E q \in Players : HandleInitiateTrade(p, q)
             \/ \E m \in 0 .. MaxMoney : HandleSetTradeGold(p, m)
             \/ \E s \in Slots : HandleClearTradeItem(p, s) \/ \E i \in Items : HandleSetTradeItem(p, s, i)
             \/ CastOnTradeItem(p) \/ HandleUnacceptTrade(p) \/ TradeCancel(p)
             \/ \E i \in Items : SetCount(p, i) \/ DestroyItem(p, i)
      PROVE  MoneyInv'
  <2>1. UNCHANGED <<start, money, spent, saved>>
    BY <1>2 DEF HandleInitiateTrade, Begins, HandleSetTradeGold, HandleClearTradeItem, HandleSetTradeItem,
         CastOnTradeItem, HandleUnacceptTrade, TradeCancel, SetCount, DestroyItem, possessions
  <2> QED
    BY <2>1, MoneyUntouched
<1>3. ASSUME NEW p \in Players, SpendMoney(p) PROVE MoneyInv'
  BY <1>3, MoneySpent
<1>4. ASSUME NEW p \in Players, SaveToDB(p) \/ LogoutPlayer(p) PROVE MoneyInv'
  BY <1>4, MoneySaved DEF SaveToDB, LogoutPlayer
<1>5. CASE Crash
  BY <1>5, MoneyReloaded
<1>6. CASE UNCHANGED tradeVars
  BY <1>6, MoneyUntouched DEF tradeVars
<1> QED
  BY <1>1, <1>2, <1>3, <1>4, <1>5, <1>6 DEF TradeNext

(* A trade, a save or a crash at any point neither loses nor doubles goods:  *)
(* every item stays with one player in the game and in the database, but for *)
(* those that moveItems has lost or copied, and the money of all players,    *)
(* with what they have spent, stays the same in both.                        *)
THEOREM GoodsStayConserved == TradeSpec => []GoodsAreConserved
<1>1. MoneyInv => MoneyIsConserved
  BY DEF MoneyInv, MoneyIsConserved, Wealth, Stored
<1>2. TradeSpec => []MoneyInv
  BY InitMoney, StepMoney, TradeInvariant, PTL DEF TradeSpec
<1> QED
  BY <1>1, <1>2, ItemsStayConserved, PTL DEF GoodsAreConserved
=============================================================================
