SPECIFICATION TradeSpec
CONSTANTS
  ann = ann bob = bob cat = cat cloth = cloth new = new
  ring1 = ring1 ring2 = ring2 ring3 = ring3 gem1 = gem1 gem2 = gem2
  Players = {ann, bob, cat}
  Items = {cloth, ring1, ring2, ring3, gem1, gem2, new}
  Consumables = {cloth}
  TradedSlots = {0, 1}
  NonTraded = 2
  BagSize <- MCBagSize
  Kinds = {"ring", "other"}
  Kind <- MCKind
  MaxCount <- MCMaxCount
  MaxStackSize <- MCMaxStackSize
  MaxMoney = 1
  Starts <- MCStarts
  None = None
SYMMETRY MCSymmetry
INVARIANTS TradeTypeOK TradesArePaired AcceptedOfferIsCurrent GoodsAreConserved
PROPERTY ExchangeIsAgreed
