-------------------------------- MODULE Trade --------------------------------
(***************************************************************************)
(* The trade window: Handlers/TradeHandler.cpp, Player/TradeData.cpp and    *)
(* what Player, Item and Spell do to an open trade.  All of it runs on the  *)
(* world thread; what races is the client, whose packets were sent when it  *)
(* showed an older state of the other offer, and everything else that takes *)
(* money and items from the players while the window is open.               *)
(*                                                                         *)
(* The server state index, a random number drawn at every change of an      *)
(* offer, is the number of offers shown to the partner: a number that did   *)
(* not occur before.  Item counts are the stack sizes, 0 for an item that   *)
(* was used up, sold, mailed or destroyed.  An item takes one slot of the    *)
(* bags: stacks are not merged.                                              *)
(***************************************************************************)
EXTENDS Integers, Sequences, FiniteSets, FiniteSetsExt

CONSTANTS Players, Items,
          Consumables,   \* the items that may be used up or destroyed
          TradedSlots,   \* the slots of the window whose items change hands
          NonTraded,     \* TRADE_SLOT_NONTRADED: its item may get an enchantment
          BagSize,       \* slots of each player's bags
          Kinds, Kind,   \* the item template, or the limit category, of an item
          MaxCount,      \* how many of a kind a player may have, 0 for any number
          MaxStackSize,  \* how many of a kind one item may be
          MaxMoney,      \* MAX_MONEY_AMOUNT
          Starts,        \* who may be there and have what at first, with a
                         \* bound: how often offers are changed from there
          None

Slots == TradedSlots \cup {NonTraded}

ASSUME ItemAssumption == Consumables \subseteq Items
ASSUME SlotAssumption ==
  NonTraded \notin TradedSlots /\ TradedSlots \subseteq Nat /\ IsFiniteSet(TradedSlots)
(* Items of a limited kind do not stack.                                      *)
ASSUME LimitAssumption ==
  /\ Kind \in [Items -> Kinds] /\ MaxCount \in [Kinds -> Nat] /\ MaxStackSize \in [Kinds -> Nat \ {0}]
  /\ \A k \in Kinds : MaxCount[k] > 0 => MaxStackSize[k] = 1
ASSUME PlayersAssumption == Players # {} /\ IsFiniteSet(Players)
ASSUME MoneyAssumption == MaxMoney \in Nat
ASSUME BagAssumption == BagSize \in [Players -> Nat]
ASSUME StartAssumption == \A st \in Starts :
  /\ st.bag \in [Players -> SUBSET Items] /\ st.count \in [Items -> Nat]
  /\ st.money \in [Players -> 0 .. MaxMoney] /\ st.maxUpdates \in Nat
  /\ st.online \subseteq Players
  /\ \A p \in Players : IsFiniteSet(st.bag[p]) /\ Cardinality(st.bag[p]) <= BagSize[p]
  /\ \A p, q \in Players : p # q => st.bag[p] \cap st.bag[q] = {}
  /\ \A i \in Items : /\ st.count[i] > 0 <=> \E p \in Players : i \in st.bag[p]
                      /\ st.count[i] <= MaxStackSize[Kind[i]]

VARIABLES m_trade,  \* the TradeData of each player, or None
          shown,    \* the offers of the partner each client was sent
          agreed,   \* which of them was accepted last (history)
          updates,  \* how often an offer was changed, for the bound
          start,    \* what the players had at first (history)
          bag, count, money,
          spent,    \* money that left the game (history)
          saved,    \* the rows of each player in the database
          lost,     \* items moveItems could neither store nor give back
          copies    \* items moveItems made in giving one back (history)

tradeVars == <<m_trade, shown, agreed, updates, start, bag, count, money, spent, saved, lost, copies>>
possessions == <<start, bag, count, money, spent, saved, lost, copies>>

(* An item lies in one slot of the window. *)
Windows ==
  {w \in [Slots -> Items \cup {None}] : \A s, t \in Slots : s # t => w[s] # w[t] \/ w[s] = None}

TradeData ==
  [trader : Players, accepted : BOOLEAN, money : 0 .. MaxMoney, spell : BOOLEAN,
   slot : Windows]

Goods == (Items \X Nat) \cup {None}
Offers == [money : 0 .. MaxMoney, spell : BOOLEAN, goods : [Slots -> Goods]]

ASSUME NoneAssumption == None \notin Items \cup Players \cup (Items \X Nat) \cup TradeData

Rows == [bag : SUBSET Items, count : [Items -> Nat], money : 0 .. MaxMoney, spent : Nat]

TradeTypeOK ==
  /\ m_trade \in [Players -> TradeData \cup {None}]
  /\ shown \in [Players -> Seq(Offers)]
  /\ agreed \in [Players -> Nat] /\ updates \in Nat /\ start \in Starts
  /\ bag \in [Players -> SUBSET Items] /\ count \in [Items -> Nat]
  /\ \A p \in Players : Cardinality(bag[p]) <= BagSize[p]
  /\ money \in [Players -> 0 .. MaxMoney] /\ spent \in [Players -> Nat]
  /\ saved \in [Players -> Rows]
  /\ lost \subseteq Items /\ copies \subseteq Items

RowsOf(p, b, c, m) ==
  [bag |-> b[p], count |-> [i \in Items |-> IF i \in b[p] THEN c[i] ELSE 0],
   money |-> m[p], spent |-> spent[p]]

TradeInit ==
  /\ m_trade = [p \in Players |-> None] /\ updates = 0
  /\ shown = [p \in Players |-> <<>>] /\ agreed = [p \in Players |-> 0]
  /\ start \in Starts /\ bag = start.bag /\ count = start.count /\ money = start.money
  /\ spent = [p \in Players |-> 0] /\ lost = {} /\ copies = {}
  /\ saved = [p \in Players |-> RowsOf(p, start.bag, start.count, start.money)]

-----------------------------------------------------------------------------
(* TradeData.  A desk is the state of the trades and of the clients.         *)

Trading(p) == m_trade[p] # None
Partner(p) == m_trade[p].trader
desk == [trade |-> m_trade, shown |-> shown]

(* GetItem: an offered item that is no longer in the bags is no item.        *)
GetItem(t, p, s) == IF t.slot[s] \in bag[p] THEN t.slot[s] ELSE None

(* SendUpdateTrade: the offer of p as the partner's client shows it. *)
Offer(t, p, c) ==
  [money |-> t.money, spell |-> t.spell,
   goods |-> [s \in Slots |-> LET i == GetItem(t, p, s) IN IF i = None THEN None ELSE <<i, c[i]>>]]

(* The partner's acceptance stands: a plausible slip. *)
ChangedForOne(d, p, c) ==
  [trade |-> [d.trade EXCEPT ![p].accepted = FALSE],
   shown |-> [d.shown EXCEPT ![d.trade[p].trader] = Append(@, Offer(d.trade[p], p, c))]]

(* SetAccepted(false) for both, UpdateServerStateIndex and Update, with      *)
(* which every change of an offer ends.                                      *)
Changed(d, p, c) ==
  LET q == d.trade[p].trader IN
  [trade |-> [d.trade EXCEPT ![p].accepted = FALSE, ![q].accepted = FALSE],
   shown |-> [d.shown EXCEPT ![q] = Append(@, Offer(d.trade[p], p, c))]]

SetSpell(d, p, spell, c) ==
  IF d.trade[p].spell = spell THEN d
  ELSE Changed([d EXCEPT !.trade[p].spell = spell], p, c)

(* A change of the slot to be enchanted takes back the partner's spell, and  *)
(* every change of an item the player's own.                                 *)
SetItem(d, p, s, i, update, c) ==
  IF d.trade[p].slot[s] = i /\ ~update THEN d
  ELSE LET d1 == Changed([d EXCEPT !.trade[p].slot[s] = i], p, c)
           d2 == IF s = NonTraded THEN SetSpell(d1, d.trade[p].trader, FALSE, c) ELSE d1
       IN SetSpell(d2, p, FALSE, c)

Becomes(d) == m_trade' = d.trade /\ shown' = d.shown /\ updates' = updates + 1

(* Bound: the offers are changed start.maxUpdates times at most. *)
MayChange == updates < start.maxUpdates

-----------------------------------------------------------------------------
(* Handlers of the trade window. *)

NewTrade(q) ==
  [trader |-> q, accepted |-> FALSE, money |-> 0, spell |-> FALSE, slot |-> [s \in Slots |-> None]]

(* m_serverStateIndex(1): before the first update the offer shown is empty.  *)
NothingOffered == [money |-> 0, spell |-> FALSE, goods |-> [s \in Slots |-> None]]

Begins(p, q) ==
  /\ p # q /\ {p, q} \subseteq start.online /\ ~Trading(p)
  /\ m_trade' = [m_trade EXCEPT ![p] = NewTrade(q), ![q] = NewTrade(p)]
  /\ shown' = [shown EXCEPT ![p] = <<NothingOffered>>, ![q] = <<NothingOffered>>]
  /\ agreed' = [agreed EXCEPT ![p] = 0, ![q] = 0]
  /\ UNCHANGED <<updates, possessions>>

(* Whether the other player is already trading is not asked: a plausible slip. *)
HandleInitiateTradeAnyway(p, q) == Begins(p, q)

HandleInitiateTrade(p, q) == ~Trading(q) /\ Begins(p, q)

HandleSetTradeGold(p, m) ==
  /\ Trading(p) /\ MayChange
  /\ m # m_trade[p].money /\ m <= money[p]
  /\ Becomes(Changed([desk EXCEPT !.trade[p].money = m], p, count))
  /\ UNCHANGED <<agreed, possessions>>

HandleSetTradeItem(p, s, i) ==
  /\ Trading(p) /\ MayChange
  /\ i \in bag[p]
  /\ \A s2 \in Slots : m_trade[p].slot[s2] # i
  /\ Becomes(SetItem(desk, p, s, i, FALSE, count))
  /\ UNCHANGED <<agreed, possessions>>

HandleClearTradeItem(p, s) ==
  /\ Trading(p) /\ MayChange
  /\ m_trade[p].slot[s] # None
  /\ Becomes(SetItem(desk, p, s, None, FALSE, count))
  /\ UNCHANGED <<agreed, possessions>>

(* Spell::cast on the slot to be enchanted: the spell waits in the trade.    *)
CastOnTradeItem(p) ==
  /\ Trading(p) /\ MayChange
  /\ ~m_trade[p].spell /\ GetItem(m_trade[Partner(p)], Partner(p), NonTraded) # None
  /\ Becomes(SetSpell(desk, p, TRUE, count))
  /\ UNCHANGED <<agreed, possessions>>

HandleUnacceptTrade(p) ==
  /\ Trading(p) /\ m_trade[p].accepted
  /\ m_trade' = [m_trade EXCEPT ![p].accepted = FALSE]
  /\ UNCHANGED <<shown, agreed, updates, possessions>>

(* Both TradeData are deleted, and what the clients were shown is of no use. *)
NoTrade(p, q) ==
  /\ m_trade' = [m_trade EXCEPT ![p] = None, ![q] = None]
  /\ shown' = [shown EXCEPT ![p] = <<>>, ![q] = <<>>]
  /\ agreed' = [agreed EXCEPT ![p] = 0, ![q] = 0]
  /\ UNCHANGED updates

(* By either player, by a taxi flight, by ignoring or being busy. *)
TradeCancel(p) ==
  /\ Trading(p)
  /\ NoTrade(p, Partner(p))
  /\ UNCHANGED possessions

-----------------------------------------------------------------------------
(* HandleAcceptTrade(p, v): v is the index the client of p sends, that of    *)
(* an offer it was shown.  The checks are in the order of the code; each     *)
(* failure leaves the acceptances as the code leaves them.                   *)

Accepting(p, v) == Trading(p) /\ v \in 1 .. Len(shown[p])

Accepts(p, v, mine, his) ==
  /\ m_trade' = [m_trade EXCEPT ![p].accepted = mine,
                                ![Partner(p)].accepted = his /\ @]
  /\ agreed' = [agreed EXCEPT ![p] = IF mine THEN v ELSE @]
  /\ UNCHANGED <<shown, updates, possessions>>

(* The index is not compared: a plausible slip. *)
StateIndexIgnored(p, v) == TRUE

(* his_trade->GetServerStateIndex() == acceptTrade.StateIndex *)
StateIndexIsCurrent(p, v) == v = Len(shown[p])

HasEnoughMoney(p) == money[p] >= m_trade[p].money

(* How much the receiver already has is not asked: a plausible slip. *)
MayReceiveAny(p) == TRUE
MayReceive(p) == money[p] <= MaxMoney - m_trade[Partner(p)].money

MoneyIsRight(p, q) == HasEnoughMoney(p) /\ HasEnoughMoney(q) /\ MayReceive(p) /\ MayReceive(q)

(* An old index, too far away (whatever the index), or the money of p wrong. *)
AcceptRefused(p, v) ==
  /\ Accepting(p, v)
  /\ m_trade[p].accepted
  /\ Accepts(p, v, FALSE, TRUE)

AcceptBlamesTrader(p, v) ==
  LET q == Partner(p) IN
  /\ Accepting(p, v) /\ StateIndexIsCurrent(p, v) /\ HasEnoughMoney(p)
  /\ ~HasEnoughMoney(q) \/ (MayReceive(p) /\ ~MayReceive(q))
  /\ Accepts(p, v, TRUE, FALSE)

(* What setAcceptTradeMode collects. *)
TradedItems(p) == {GetItem(m_trade[p], p, s) : s \in TradedSlots} \ {None}

Checked(p, v) ==
  Accepting(p, v) /\ StateIndexIsCurrent(p, v) /\ MoneyIsRight(p, Partner(p))

(* CanBeTraded or IsBindedNotWith turns an offered item down (it is being    *)
(* looted, was put on, is a bag in use): p stays accepted.                   *)
AcceptBlocked(p, v) ==
  /\ Checked(p, v) /\ TradedItems(p) \cup TradedItems(Partner(p)) # {}
  /\ Accepts(p, v, TRUE, TRUE)

AcceptFirst(p, v) ==
  /\ Checked(p, v) /\ ~m_trade[Partner(p)].accepted
  /\ Accepts(p, v, TRUE, TRUE)

(* The spell of p or of the partner cannot be cast, for want of the item or  *)
(* for another reason, and is taken back.                                    *)
AcceptSpellFails(p, v) ==
  LET q == Partner(p) IN
  /\ Checked(p, v) /\ m_trade[q].accepted /\ MayChange
  /\ \E caster \in {p, q} :
       /\ m_trade[caster].spell
       /\ Becomes(SetSpell([desk EXCEPT !.trade[p].accepted = TRUE], caster, FALSE, count))
  /\ UNCHANGED <<agreed, possessions>>

SpellsHaveItems(p, q) ==
  /\ m_trade[p].spell => GetItem(m_trade[q], q, NonTraded) # None
  /\ m_trade[q].spell => GetItem(m_trade[p], p, NonTraded) # None

(* CanTakeMoreSimilarItems: i beside the items b, of which there are c each.  *)
CanTakeMoreSimilarItems(b, i, c) ==
  LET max == MaxCount[Kind[i]]
      similar == {j \in b \ {i} : Kind[j] = Kind[i]}
  IN max = 0 \/ MapThenSumSet(LAMBDA j : c[j], similar) + c[i] <= max

(* The bags are not asked before the items are moved: a plausible slip. *)
CanStoreAnything(p, items) == TRUE

(* CanStoreItems, while the items to be given away are marked as in trade    *)
(* and leave their slots free.  The limit of a kind is asked for one item    *)
(* at a time, beside all that p has now.                                     *)
CanStoreItems(p, items) ==
  /\ Cardinality((bag[p] \ TradedItems(p)) \cup items) <= BagSize[p]
  /\ \A i \in items : CanTakeMoreSimilarItems(bag[p], i, count)

AcceptNoSpace(p, v) ==
  LET q == Partner(p) IN
  /\ Checked(p, v) /\ m_trade[q].accepted /\ SpellsHaveItems(p, q)
  /\ ~(CanStoreItems(p, TradedItems(q)) /\ CanStoreItems(q, TradedItems(p)))
  /\ Accepts(p, v, FALSE, FALSE)

(* ModifyMoney: taking stops at 0, giving is refused above the maximum.      *)
ModifyMoney(m, taken, given) ==
  LET rest == IF m > taken THEN m - taken ELSE 0 IN
  IF rest <= MaxMoney - given THEN rest + given ELSE rest

(* moveItems.  All items have been taken out and are now stored slot by      *)
(* slot.  An outcome x says which slots are done (both items have changed    *)
(* hands), which items of the other slots are back with their owners, and    *)
(* which new item, if any, each of these was copied to.                      *)
InSlot(p, s) == GetItem(m_trade[p], p, s)

Before(s) == {t \in TradedSlots : t < s}

(* What is not traded is not given back: a plausible slip. *)
NothingBack(r, o, s, x) == (IF s \in x.done THEN {InSlot(o, s)} ELSE {}) \ {None}

(* What r gets in slot s: the item of o, or its own, and the copy, back.     *)
StoredIn(r, o, s, x) ==
  (IF s \in x.done THEN {InSlot(o, s)}
   ELSE IF InSlot(r, s) \in x.back THEN {InSlot(r, s), x.copy[InSlot(r, s)]} ELSE {}) \ {None}

BagAfter(r, o, slots, x) ==
  (bag[r] \ TradedItems(r)) \cup UNION {StoredIn(r, o, s, x) : s \in slots}

(* The items with an unused guid. *)
Fresh == {i \in Items \ lost : count[i] = 0 /\ \A p \in Players : i \notin saved[p].bag}

(* CloneItem: a copy has the count asked for the item on the other side of   *)
(* the slot, in whose place it lies, or as many as may stack.                *)
Opposite(p, q, i) ==
  CHOOSE j \in Items : \E s \in TradedSlots :
    <<i, j>> \in {<<InSlot(p, s), InSlot(q, s)>>, <<InSlot(q, s), InSlot(p, s)>>}

Copied(x) == {x.copy[i] : i \in x.back} \ {None}

CopyCount(p, q, i) ==
  LET n == count[Opposite(p, q, i)] IN
  IF n > MaxStackSize[Kind[i]] THEN MaxStackSize[Kind[i]] ELSE n

CountAfter(p, q, x) ==
  [k \in Items |-> IF k \in Copied(x) THEN CopyCount(p, q, CHOOSE i \in x.back : x.copy[i] = k)
                   ELSE count[k]]

(* The free slots are not counted: a plausible slip. *)
CanStoreAnyItem(r, b, i, c, used) == i = None \/ CanTakeMoreSimilarItems(b, i, c)

(* CanStoreItem into the bag b of r, where dest already names used places.   *)
CanStoreItem(r, b, i, c, used) ==
  i = None \/ (Cardinality(b \cup {i}) + used <= BagSize[r] /\ CanTakeMoreSimilarItems(b, i, c))

(* One side of a slot that is not done.  When r could have stored the item   *)
(* of o, its place is still in dest: it is not free for the item that comes  *)
(* back, and StoreItem puts a copy there.                                    *)
GivesBack(r, o, s, c, x) ==
  LET b == BagAfter(r, o, Before(s), x)
      i == InSlot(r, s)
      reserved == InSlot(o, s) # None /\ CanStoreItem(r, b, InSlot(o, s), c, 0)
  IN i # None =>
       /\ i \in x.back <=> CanStoreItem(r, b, i, c, IF reserved THEN 1 ELSE 0)
       /\ i \in x.back => (x.copy[i] # None <=> reserved)

MoveItems(p, q, x) ==
  LET c == CountAfter(p, q, x) IN
  /\ \A s \in TradedSlots :
       /\ s \in x.done <=> /\ CanStoreItem(q, BagAfter(q, p, Before(s), x), InSlot(p, s), c, 0)
                          /\ CanStoreItem(p, BagAfter(p, q, Before(s), x), InSlot(q, s), c, 0)
       /\ s \notin x.done => GivesBack(p, q, s, c, x) /\ GivesBack(q, p, s, c, x)
  /\ \A i, j \in x.back : x.copy[i] # None =>
       Kind[x.copy[i]] = Kind[i] /\ (i # j => x.copy[i] # x.copy[j])

(* The items of the slots that are not done. *)
NotDone(p, q, done) ==
  {InSlot(r, s) : r \in {p, q}, s \in TradedSlots \ done} \ {None}

(* The row of a lost item, of which no player's update queue knows, stays    *)
(* until another item is saved in its slot of the bags.                      *)
StaleRows(p, b, l) ==
  {k \in SUBSET (saved[p].bag \cap l) : k = {} \/ Cardinality(b[p] \cup k) <= BagSize[p]}

RowsWith(p, b, c, m, stale) ==
  [RowsOf(p, b, c, m) EXCEPT
     !.bag = @ \cup stale,
     !.count = [i \in Items |-> IF i \in stale THEN saved[p].count[i] ELSE @[i]]]

(* The two players are saved one by one: a plausible slip. *)
SaveFirstOnly(p, q, b, c, m, l) == saved' = [saved EXCEPT ![p] = RowsOf(p, b, c, m)]

(* One transaction for both players. *)
SaveInventoryAndGoldToDB(p, q, b, c, m, l) ==
  \E kp \in StaleRows(p, b, l) : \E kq \in StaleRows(q, b, l) :
    saved' = [saved EXCEPT ![p] = RowsWith(p, b, c, m, kp), ![q] = RowsWith(q, b, c, m, kq)]

AcceptCompletes(p, v) ==
  LET q == Partner(p)
      m == [money EXCEPT ![p] = ModifyMoney(@, m_trade[p].money, m_trade[q].money),
                         ![q] = ModifyMoney(@, m_trade[q].money, m_trade[p].money)]
  IN
  /\ Checked(p, v) /\ m_trade[q].accepted /\ SpellsHaveItems(p, q)
  /\ CanStoreItems(p, TradedItems(q)) /\ CanStoreItems(q, TradedItems(p))
  /\ NoTrade(p, q) /\ money' = m /\ UNCHANGED <<start, spent>>
  /\ \E done \in SUBSET TradedSlots : \E back \in SUBSET NotDone(p, q, done) :
     \E copy \in [back -> Fresh \cup {None}] :
       LET x == [done |-> done, back |-> back, copy |-> copy]
           b == [bag EXCEPT ![p] = BagAfter(p, q, TradedSlots, x), ![q] = BagAfter(q, p, TradedSlots, x)]
           c == CountAfter(p, q, x)
           l == lost \cup (NotDone(p, q, done) \ back)
       IN
       /\ MoveItems(p, q, x)
       /\ bag' = b /\ count' = c /\ lost' = l /\ copies' = copies \cup Copied(x)
       /\ SaveInventoryAndGoldToDB(p, q, b, c, m, l)

HandleAcceptTrade(p, v) ==
  \/ AcceptRefused(p, v) \/ AcceptBlamesTrader(p, v) \/ AcceptBlocked(p, v)
  \/ AcceptFirst(p, v) \/ AcceptSpellFails(p, v) \/ AcceptNoSpace(p, v)
  \/ AcceptCompletes(p, v)

-----------------------------------------------------------------------------
(* What happens to the players outside the window. *)

(* Item::SetCount: a part of a stack is used, which renews an offer of it.   *)
SetCount(p, i) ==
  /\ i \in bag[p] \cap Consumables /\ count[i] > 1
  /\ Trading(p) => MayChange
  /\ LET c == [count EXCEPT ![i] = @ - 1]
         slots == IF Trading(p) THEN {s \in Slots : m_trade[p].slot[s] = i} ELSE {}
     IN
     /\ count' = c
     /\ IF slots = {} THEN UNCHANGED <<m_trade, shown, updates>>
        ELSE \E s \in slots : Becomes(SetItem(desk, p, s, i, TRUE, c))
  /\ UNCHANGED <<agreed, start, bag, money, spent, saved, lost, copies>>

(* The rest of it is used, sold, mailed or destroyed: no offer is told.      *)
DestroyItem(p, i) ==
  /\ i \in bag[p] \cap Consumables /\ count[i] = 1
  /\ bag' = [bag EXCEPT ![p] = @ \ {i}]
  /\ count' = [count EXCEPT ![i] = 0]
  /\ UNCHANGED <<m_trade, shown, agreed, updates, start, money, spent, saved, lost, copies>>

SpendMoney(p) ==
  /\ money[p] > 0
  /\ money' = [money EXCEPT ![p] = @ - 1] /\ spent' = [spent EXCEPT ![p] = @ + 1]
  /\ UNCHANGED <<m_trade, shown, agreed, updates, start, bag, count, saved, lost, copies>>

Saves(p, stale) == saved' = [saved EXCEPT ![p] = RowsWith(p, bag, count, money, stale)]

SaveToDB(p) ==
  /\ \E stale \in StaleRows(p, bag, lost) : Saves(p, stale)
  /\ UNCHANGED <<m_trade, shown, agreed, updates, start, bag, count, money, spent, lost, copies>>

(* LogoutPlayer saves the player and CleanupsBeforeDelete cancels the trade; *)
(* the next login loads what the database has, stale rows included.          *)
LogoutPlayer(p) ==
  /\ IF Trading(p) THEN NoTrade(p, Partner(p)) ELSE UNCHANGED <<m_trade, shown, agreed, updates>>
  /\ \E stale \in StaleRows(p, bag, lost) :
       /\ Saves(p, stale)
       /\ bag' = [bag EXCEPT ![p] = @ \cup stale] /\ lost' = lost \ stale
       /\ count' = [i \in Items |-> IF i \in stale THEN saved[p].count[i] ELSE count[i]]
  /\ UNCHANGED <<start, money, spent, copies>>

(* The server stops and starts again from the database. *)
Crash ==
  /\ m_trade' = [p \in Players |-> None]
  /\ shown' = [p \in Players |-> <<>>] /\ agreed' = [p \in Players |-> 0]
  /\ bag' = [p \in Players |-> saved[p].bag]
  /\ count' = [i \in Items |-> Max({saved[p].count[i] : p \in Players})]
  /\ money' = [p \in Players |-> saved[p].money]
  /\ spent' = [p \in Players |-> saved[p].spent]
  /\ lost' = lost \ UNION {saved[p].bag : p \in Players}
  /\ UNCHANGED <<updates, start, saved, copies>>

TradeNext ==
  \/ \E p \in Players :
       \/ \E q \in Players : HandleInitiateTrade(p, q)
       \/ \E m \in 0 .. MaxMoney : HandleSetTradeGold(p, m)
       \/ \E s \in Slots : HandleClearTradeItem(p, s) \/ \E i \in Items : HandleSetTradeItem(p, s, i)
       \/ \E v \in 1 .. Len(shown[p]) : HandleAcceptTrade(p, v)
       \/ CastOnTradeItem(p) \/ HandleUnacceptTrade(p) \/ TradeCancel(p)
       \/ \E i \in Items : SetCount(p, i) \/ DestroyItem(p, i)
       \/ SpendMoney(p) \/ SaveToDB(p) \/ LogoutPlayer(p)
  \/ Crash

TradeSpec == TradeInit /\ [][TradeNext]_tradeVars

-----------------------------------------------------------------------------
(* Properties. *)

(* The two TradeData of a trade name each other, whoever else asks for a     *)
(* trade, cancels or logs out: GetTraderData never leads to another trade or *)
(* to none.                                                                  *)
TradesArePaired ==
  \A p \in Players : Trading(p) => Partner(p) # p /\ Trading(Partner(p)) /\ Partner(Partner(p)) = p

(* A player who counts as having accepted has seen the partner's offer as it *)
(* is now, but for items that have left the partner's bags since.            *)
AcceptedOfferIsCurrent ==
  \A p \in Players : (Trading(p) /\ m_trade[p].accepted) =>
    LET seen == shown[p][agreed[p]]
        now == Offer(m_trade[Partner(p)], Partner(p), count)
    IN /\ agreed[p] \in DOMAIN shown[p]
       /\ seen.money = now.money /\ seen.spell = now.spell
       /\ \A s \in Slots : now.goods[s] \in {seen.goods[s], None}

(* When a trade is carried out, each player gets the money and only items,   *)
(* in the number, that his client showed when he accepted, and pays what     *)
(* the other's client showed, however late the packets arrive: the only      *)
(* other new item is a copy of one that was given back.  Unless an item of a *)
(* limited kind is among them, every item changes hands: the checks before   *)
(* have made room for each.                                                  *)
ExchangeIsAgreed ==
  [][ \A p \in Players : \A v \in DOMAIN shown[p] :
        AcceptCompletes(p, v) =>
          LET q == Partner(p)
              toP == shown[p][v]
              toQ == shown[q][agreed[q]]
          IN /\ agreed[q] \in DOMAIN shown[q]
             /\ money'[p] = money[p] - toQ.money + toP.money
             /\ money'[q] = money[q] - toP.money + toQ.money
             /\ \A i \in bag'[p] \ (bag[p] \cup copies') :
                  \E s \in TradedSlots : toP.goods[s] = <<i, count[i]>>
             /\ \A i \in bag'[q] \ (bag[q] \cup copies') :
                  \E s \in TradedSlots : toQ.goods[s] = <<i, count[i]>>
             /\ (\A i \in TradedItems(p) \cup TradedItems(q) : MaxCount[Kind[i]] = 0) =>
                  /\ bag'[p] = (bag[p] \ TradedItems(p)) \cup TradedItems(q)
                  /\ bag'[q] = (bag[q] \ TradedItems(q)) \cup TradedItems(p)
    ]_tradeVars

(* Every item that exists is in one player's bags and in one player's rows   *)
(* of the database, and was there from the start: whenever the server stops, *)
(* it is neither lost nor doubled.  The exceptions are those moveItems makes *)
(* when a limited item is refused: lost (in nobody's bags) and copies.       *)
ItemsAreConserved ==
  \A i \in Items :
    /\ Cardinality({p \in Players : i \in bag[p]}) = IF count[i] > 0 /\ i \notin lost THEN 1 ELSE 0
    /\ Cardinality({p \in Players : i \in saved[p].bag}) <= 1
    /\ count[i] > 0 /\ i \notin lost => \E p \in Players : i \in saved[p].bag
    /\ count[i] > 0 => start.count[i] > 0 \/ i \in copies

(* The sum over all players. *)
Total(f) == MapThenSumSet(LAMBDA p : f[p], Players)

(* The same for money, in the game and in the database. *)
MoneyIsConserved ==
  /\ Total([p \in Players |-> money[p] + spent[p]]) = Total(start.money)
  /\ Total([p \in Players |-> saved[p].money + saved[p].spent]) = Total(start.money)

(* A trade, a save or a crash at any point neither loses nor doubles goods.  *)
GoodsAreConserved == ItemsAreConserved /\ MoneyIsConserved
=============================================================================
