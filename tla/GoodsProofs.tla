----------------------------- MODULE GoodsProofs -----------------------------
(***************************************************************************)
(* Theorems about Market and Mail, by which the players hand each other    *)
(* pieces and zeny, for every set of characters and every bound: what      *)
(* trades, stalls and carts do to what all have together, that partners    *)
(* agree unless they ask again while a request of theirs is open, and that *)
(* what a letter takes along has left its sender.                          *)
(***************************************************************************)
EXTENDS Market, Mail, Sums, SequenceTheorems

\* Nobody trades with oneself, or looks at the own stall.
NotOneself == \A p \in Traders : partner[p] # p /\ saw[p] # p

\* What a vendor's list offers is in the cart.
ListInCart == \A q \in Traders : vender[q] => vending[q].amount <= cart[q]

MarketInv == MarketTypeOK /\ NotOneself /\ ListInCart

-----------------------------------------------------------------------------
(* What the helpers do *)

TradeTypeOK ==
    /\ partner \in [Traders -> Traders \cup {Nobody}]
    /\ dealMode \in [Traders -> {0, 1}]
    /\ dealLocked \in [Traders -> 0..2]
    /\ dealItem \in [Traders -> [Slots -> Nat]]
    /\ dealZeny \in [Traders -> Nat]
    /\ ui \in [Traders -> {"none", "asked", "window"}]
    /\ shown \in [Traders -> [items : [Slots -> Nat], zeny : Nat]]

\* The way out of a trade keeps the types, and leaves nobody with oneself.
LEMMA CancelTypes ==
    ASSUME MarketInv, NEW p \in Traders, TradeCancel(p)
    PROVE  TradeTypeOK' /\ \A r \in Traders : partner'[r] # r
<1>1. NoItems \in [Slots -> Nat] /\ Nothing \in [items : [Slots -> Nat], zeny : Nat]
  BY DEF NoItems, Nothing
<1>2. \A r \in Traders : partner'[r] \in {partner[r], Nobody}
  BY DEF TradeCancel, Both
<1> QED BY <1>1, <1>2, MarketAssumption
        DEF MarketInv, MarketTypeOK, NotOneself, TradeTypeOK, TradeCancel, Both

\* A piece that is given leaves the types as they are, and all others alone.
LEMMA GiveItemType ==
    ASSUME NEW iv \in [Traders -> Nat], \A r \in Traders : iv[r] <= MaxWeight[r],
           NEW from \in Traders, NEW to \in Traders, from # to, NEW n \in Nat
    PROVE  /\ GiveItem(iv, from, to, n) \in [Traders -> Nat]
           /\ \A r \in Traders : GiveItem(iv, from, to, n)[r] <= MaxWeight[r]
           /\ \A r \in Traders : r # from /\ r # to => GiveItem(iv, from, to, n)[r] = iv[r]
  BY MarketAssumption DEF GiveItem

\* It changes hands if the one has it and the other can carry it.
LEMMA GiveItemGives ==
    ASSUME NEW iv \in [Traders -> Nat], \A r \in Traders : iv[r] <= MaxWeight[r],
           NEW from \in Traders, NEW to \in Traders, from # to, NEW n \in Nat,
           n <= iv[from], iv[to] + n <= MaxWeight[to]
    PROVE  /\ GiveItem(iv, from, to, n)[from] = iv[from] - n
           /\ GiveItem(iv, from, to, n)[to] = iv[to] + n
  BY MarketAssumption DEF GiveItem

LEMMA MinOfSlots ==
    ASSUME NEW S \in SUBSET Slots, S # {}
    PROVE  Min(S) \in S
<1>1. S \in SUBSET Nat
  BY DEF Slots
<1>2. \E x \in S : \A y \in S : x <= y
  BY <1>1, LeastExists
<1> QED BY <1>2 DEF Min

-----------------------------------------------------------------------------
(* The first invariant, handler by handler *)

\* Handlers of a trade that change no goods and no stall.
LEMMA TalkKeeps ==
    ASSUME MarketInv, NEW p \in Traders,
           \/ \E q \in Traders : TradeRequest(p, q)
           \/ TradeAck(p) \/ TradeOk(p) \/ PressCancel(p)
    PROVE  MarketInv'
<1> USE DEF MarketInv
<1>1. /\ UNCHANGED <<place, goods, stall, moves, chance>>
      /\ requests' \in 0..MaxRequests /\ again' \subseteq Traders
  BY MarketAssumption DEF TradeRequest, TradeAck, TradeOk, PressCancel, MarketTypeOK, asking
<1>2. TradeTypeOK /\ \A r \in Traders : partner[r] # r
  BY DEF MarketTypeOK, TradeTypeOK, NotOneself
<1>3. Nothing \in [items : [Slots -> Nat], zeny : Nat]
  BY DEF NoItems, Nothing
<1>4. TradeCancel(p) => TradeTypeOK' /\ \A r \in Traders : partner'[r] # r
  BY CancelTypes
<1>5. TradeTypeOK' /\ \A r \in Traders : partner'[r] # r
  <2>1. CASE \E q \in Traders : TradeRequest(p, q)
    <3>1. PICK q \in Traders : TradeRequest(p, q)
      BY <2>1
    <3>2. /\ p # q
          /\ partner' = [partner EXCEPT ![p] = q, ![q] = p]
          /\ ui' = [ui EXCEPT ![q] = "asked"]
          /\ UNCHANGED <<dealMode, dealLocked, dealItem, dealZeny, shown>>
      BY <3>1 DEF TradeRequest
    <3>3. \A r \in Traders : partner'[r] # r
      BY <1>2, <3>2 DEF TradeTypeOK
    <3> QED BY <1>2, <3>2, <3>3 DEF TradeTypeOK
  <2>2. CASE TradeAck(p)
    <3> DEFINE q == partner[p]
    <3>1. CASE /\ dealMode' = Both(dealMode, p, q, 1)
               /\ ui' = Both(ui, p, q, "window")
               /\ shown' = Both(shown, p, q, Nothing)
               /\ UNCHANGED <<partner, dealLocked, dealItem, dealZeny>>
      BY <1>2, <1>3, <3>1 DEF TradeTypeOK, Both
    <3>2. CASE /\ partner' = Both(partner, p, q, Nobody)
               /\ dealMode' = Both(dealMode, p, q, 0)
               /\ dealLocked' = Both(dealLocked, p, q, 0)
               /\ ui' = Both(ui, p, q, "none")
               /\ UNCHANGED <<dealItem, dealZeny, shown>>
      BY <1>2, <3>2, MarketAssumption DEF TradeTypeOK, Both
    <3> QED BY <1>4, <2>2, <3>1, <3>2 DEF TradeAck
  <2>3. CASE TradeOk(p)
    <3>1. CASE dealLocked' = [dealLocked EXCEPT ![p] = 1]
               /\ UNCHANGED <<partner, dealMode, dealItem, dealZeny, ui, shown>>
      BY <1>2, <3>1 DEF TradeTypeOK
    <3> QED BY <1>4, <2>3, <3>1 DEF TradeOk
  <2> QED BY <1>4, <2>1, <2>2, <2>3 DEF PressCancel
<1> QED BY <1>1, <1>5 DEF MarketTypeOK, TradeTypeOK, NotOneself, ListInCart, goods, stall, asking, chance

\* What is offered is a piece or zeny the player has.
LEMMA OfferKeeps ==
    ASSUME MarketInv, NEW p \in Traders,
           (\E n \in 1..Pieces : OfferItem(p, n)) \/ \E z \in 1..MaxZeny : OfferZeny(p, z)
    PROVE  MarketInv'
<1> USE DEF MarketInv
<1>1. CASE \E n \in 1..Pieces : OfferItem(p, n)
  <2>1. PICK n : OfferItem(p, n)
    BY <1>1
  <2> DEFINE free == {s \in Slots : dealItem[p][s] = 0}
             slot == Min(free)
  <2>2. slot \in Slots
    BY <2>1, MinOfSlots DEF OfferItem
  <2> HIDE DEF slot
  <2>3. n \in Nat
    BY <2>1 DEF OfferItem, MarketTypeOK
  <2>4. dealItem' = [dealItem EXCEPT ![p][slot] = n]
    BY <2>1 DEF OfferItem, slot
  <2>5. shown' = [shown EXCEPT ![partner[p]].items[slot] = n]
    BY <2>1 DEF OfferItem, slot
  <2>6. dealItem' \in [Traders -> [Slots -> Nat]]
    BY <2>2, <2>3, <2>4 DEF MarketTypeOK
  <2>7. shown' \in [Traders -> [items : [Slots -> Nat], zeny : Nat]]
    BY <2>2, <2>3, <2>5 DEF MarketTypeOK
  <2> QED BY <2>1, <2>6, <2>7
          DEF OfferItem, MarketTypeOK, NotOneself, ListInCart, goods, stall, asking, chance
<1>2. CASE \E z \in 1..MaxZeny : OfferZeny(p, z)
  <2>1. PICK z \in 1..MaxZeny : OfferZeny(p, z)
    BY <1>2
  <2>2. z \in Nat
    BY <2>1, MarketAssumption
  <2>3. dealZeny' \in [Traders -> Nat]
    BY <2>1, <2>2 DEF OfferZeny, MarketTypeOK
  <2>4. shown' \in [Traders -> [items : [Slots -> Nat], zeny : Nat]]
    <3>1. shown' = [shown EXCEPT ![partner[p]].zeny = z]
      BY <2>1 DEF OfferZeny
    <3>2. shown \in [Traders -> [items : [Slots -> Nat], zeny : Nat]]
      BY DEF MarketTypeOK
    <3> QED BY <2>2, <3>1, <3>2
  <2> QED BY <2>1, <2>3, <2>4
          DEF OfferZeny, MarketTypeOK, NotOneself, ListInCart, goods, stall, asking, chance
<1> QED BY <1>1, <1>2

\* The goods after the exchange.
LEMMA ExchangeTypes ==
    ASSUME MarketInv, NEW p \in Traders, NEW q \in Traders, p # q, Exchange(p, q),
           ZenyCheck(p, q)
    PROVE  /\ bag' \in [Traders -> Nat] /\ \A r \in Traders : bag'[r] <= MaxWeight[r]
           /\ \A r \in Traders : r # p /\ r # q => bag'[r] = bag[r]
           /\ zeny' \in [Traders -> 0..MaxZeny]
<1> USE DEF MarketInv
<1> DEFINE a == dealItem[p]
           b == dealItem[q]
           iv1 == GiveItem(bag, p, q, a[1])
           iv2 == GiveItem(iv1, q, p, b[1])
           iv3 == GiveItem(iv2, p, q, a[2])
           iv4 == GiveItem(iv3, q, p, b[2])
           Fits(iv) == /\ iv \in [Traders -> Nat]
                       /\ \A r \in Traders : iv[r] <= MaxWeight[r]
                       /\ \A r \in Traders : r # p /\ r # q => iv[r] = bag[r]
<1>1. a[1] \in Nat /\ a[2] \in Nat /\ b[1] \in Nat /\ b[2] \in Nat
  BY DEF MarketTypeOK, Slots
<1>2. bag' = iv4
  BY DEF Exchange
<1>3. Fits(bag)
  BY DEF MarketTypeOK
<1>4. ASSUME NEW iv, Fits(iv), NEW n \in Nat
      PROVE  Fits(GiveItem(iv, p, q, n)) /\ Fits(GiveItem(iv, q, p, n))
  <2>1. iv \in [Traders -> Nat] /\ \A r \in Traders : iv[r] <= MaxWeight[r]
    BY <1>4
  <2>2. Fits(GiveItem(iv, p, q, n))
    <3>1. /\ GiveItem(iv, p, q, n) \in [Traders -> Nat]
          /\ \A r \in Traders : GiveItem(iv, p, q, n)[r] <= MaxWeight[r]
          /\ \A r \in Traders : r # p /\ r # q => GiveItem(iv, p, q, n)[r] = iv[r]
      BY <1>4, <2>1, GiveItemType
    <3> QED BY <1>4, <3>1
  <2>3. Fits(GiveItem(iv, q, p, n))
    BY <1>4, <2>1, GiveItemType
  <2> QED BY <2>2, <2>3
<1> HIDE DEF Fits
<1>5. Fits(iv4)
  BY <1>1, <1>3, <1>4
<1>6. /\ bag' \in [Traders -> Nat] /\ \A r \in Traders : bag'[r] <= MaxWeight[r]
      /\ \A r \in Traders : r # p /\ r # q => bag'[r] = bag[r]
  BY <1>2, <1>5 DEF Fits
<1>8. zeny' \in [Traders -> 0..MaxZeny]
  <2>1. /\ zeny[p] \in Nat /\ zeny[q] \in Nat /\ MaxZeny \in Nat
        /\ dealZeny[p] \in Nat /\ dealZeny[q] \in Nat
    BY MarketAssumption DEF MarketTypeOK
  <2> DEFINE x == (zeny[p] - dealZeny[p]) + dealZeny[q]
             y == (zeny[q] - dealZeny[q]) + dealZeny[p]
  <2>2. x \in 0..MaxZeny /\ y \in 0..MaxZeny
    BY <2>1 DEF ZenyCheck
  <2>3. zeny' = [zeny EXCEPT ![p] = x, ![q] = y]
    BY DEF Exchange, MarketTypeOK
  <2> HIDE DEF x, y
  <2> QED BY <2>2, <2>3 DEF MarketTypeOK
<1> QED BY <1>6, <1>8

LEMMA CommitKeeps ==
    ASSUME MarketInv, NEW p \in Traders, TradeCommit(p)
    PROVE  MarketInv'
<1> USE DEF MarketInv
<1> DEFINE q == partner[p]
<1>1. q # Nobody => q \in Traders /\ q # p
  BY DEF MarketTypeOK, NotOneself
<1>2. UNCHANGED <<place, cart, stall, asking, moves, chance>>
  BY DEF TradeCommit
<1>3. CASE dealLocked' = [dealLocked EXCEPT ![p] = 2]
           /\ UNCHANGED <<bag, zeny, partner, dealMode, dealItem, dealZeny, ui, shown>>
  BY <1>2, <1>3 DEF MarketTypeOK, NotOneself, ListInCart, stall, asking, chance
<1>4. CASE q # Nobody /\ ZenyCheck(p, q) /\ Exchange(p, q)
  <2>1. TradeTypeOK' /\ \A r \in Traders : partner'[r] # r
    BY <1>4, CancelTypes DEF Exchange
  <2>2. /\ bag' \in [Traders -> Nat] /\ \A r \in Traders : bag'[r] <= MaxWeight[r]
        /\ zeny' \in [Traders -> 0..MaxZeny]
    BY <1>1, <1>4, ExchangeTypes
  <2> QED BY <1>2, <2>1, <2>2
          DEF MarketTypeOK, TradeTypeOK, NotOneself, ListInCart, stall, asking, chance
<1>5. CASE TradeCancel(p) /\ UNCHANGED <<bag, zeny>>
  BY <1>2, <1>5, CancelTypes
  DEF MarketTypeOK, TradeTypeOK, NotOneself, ListInCart, stall, asking, chance
<1> QED BY <1>3, <1>4, <1>5 DEF TradeCommit, BothLocked

\* The vendor's list and the cart.
LEMMA StallKeeps ==
    ASSUME MarketInv, NEW p \in Traders,
           \/ \E n \in 1..Pieces, v \in Prices : OpenVending(p, n, v)
           \/ CloseVending(p)
           \/ \E q \in Traders : VendingList(p, q)
    PROVE  MarketInv'
<1> USE DEF MarketInv
<1>1. CASE \E n \in 1..Pieces, v \in Prices : OpenVending(p, n, v)
  <2>1. PICK n \in 1..Pieces, v \in Prices : OpenVending(p, n, v)
    BY <1>1
  <2>2. n \in Nat /\ n <= cart[p] /\ v \in Nat
    BY <2>1, MarketAssumption DEF OpenVending, MarketTypeOK
  <2>3. TradeTypeOK' /\ \A r \in Traders : partner'[r] # r
    <3>1. CASE UNCHANGED tradeVars
      BY <3>1 DEF tradeVars, MarketTypeOK, TradeTypeOK, NotOneself
    <3> QED BY <2>1, <3>1, CancelTypes DEF OpenVending
  <2>4. vender' \in [Traders -> BOOLEAN] /\ vending' \in [Traders -> [amount : Nat, value : Nat]]
    BY <2>1, <2>2 DEF OpenVending, MarketTypeOK
  <2>5. ListInCart'
    BY <2>1, <2>2 DEF OpenVending, MarketTypeOK, ListInCart, goods
  <2> QED BY <2>1, <2>3, <2>4, <2>5
          DEF OpenVending, MarketTypeOK, TradeTypeOK, NotOneself, goods, asking, chance
<1>2. CASE CloseVending(p)
  BY <1>2 DEF CloseVending, Close, MarketTypeOK, NoList, NotOneself, ListInCart,
              goods, tradeVars, asking, chance
<1>3. CASE \E q \in Traders : VendingList(p, q)
  BY <1>3 DEF VendingList, MarketTypeOK, NotOneself, ListInCart, goods, tradeVars, asking,
              chance
<1> QED BY <1>1, <1>2, <1>3

\* The seller of what is bought, and the price.
LEMMA PurchaseFacts ==
    ASSUME MarketInv, NEW p \in Traders, NEW n, Purchase(p, n)
    PROVE  LET q == saw[p]
               z == n * vending[q].value IN
           /\ q \in Traders /\ q # p /\ n \in Nat \ {0} /\ z \in Nat
           /\ n <= cart[q] /\ z <= zeny[p]
           /\ zeny' = [zeny EXCEPT ![p] = @ - z, ![q] = GetZeny(@, z)]
           /\ bag' = [bag EXCEPT ![p] = @ + n]
           /\ vending' = [vending EXCEPT ![q].amount = @ - n]
           /\ cart' = [cart EXCEPT ![q] = @ - n]
<1> DEFINE q == saw[p]
           z == n * vending[q].value
<1>1. q \in Traders /\ q # p
  BY DEF Purchase, MarketInv, MarketTypeOK, NotOneself
<1>2. vending[q].amount \in Nat /\ vending[q].value \in Nat /\ cart[q] \in Nat
  BY <1>1 DEF MarketInv, MarketTypeOK
<1>3. n \in Nat \ {0} /\ n <= vending[q].amount
  BY <1>2 DEF Purchase
<1>4. n <= cart[q] /\ ~(n > cart[q])
  BY <1>1, <1>2, <1>3 DEF Purchase, MarketInv, ListInCart
<1>5. z \in Nat
  BY <1>2, <1>3
<1> QED BY <1>1, <1>3, <1>4, <1>5 DEF Purchase

LEMMA PurchaseKeeps ==
    ASSUME MarketInv, NEW p \in Traders, NEW n, Purchase(p, n)
    PROVE  MarketInv'
<1> USE DEF MarketInv
<1> DEFINE q == saw[p]
           z == n * vending[q].value
<1>1. /\ q \in Traders /\ q # p /\ n \in Nat \ {0} /\ z \in Nat
      /\ n <= cart[q] /\ z <= zeny[p]
      /\ zeny' = [zeny EXCEPT ![p] = @ - z, ![q] = GetZeny(@, z)]
      /\ bag' = [bag EXCEPT ![p] = @ + n]
      /\ vending' = [vending EXCEPT ![q].amount = @ - n]
      /\ cart' = [cart EXCEPT ![q] = @ - n]
  BY PurchaseFacts
<1>2. /\ bag[p] + n <= MaxWeight[p] /\ vender[q] /\ n <= vending[q].amount
      /\ saw' = [saw EXCEPT ![p] = Nobody]
      /\ UNCHANGED <<place, tradeVars, vender, asking, moves, chance>>
  BY DEF Purchase, MarketTypeOK
<1> HIDE DEF z
<1>3. zeny' \in [Traders -> 0..MaxZeny]
  <2>1. zeny[p] \in Nat /\ zeny[q] \in Nat /\ MaxZeny \in Nat
        /\ zeny[p] <= MaxZeny /\ zeny[q] <= MaxZeny
    BY <1>1, MarketAssumption DEF MarketTypeOK
  <2>2. zeny[p] - z \in 0..MaxZeny /\ GetZeny(zeny[q], z) \in 0..MaxZeny
    BY <1>1, <2>1 DEF GetZeny
  <2> QED BY <1>1, <2>2 DEF MarketTypeOK
<1>4. bag' \in [Traders -> Nat] /\ \A r \in Traders : bag'[r] <= MaxWeight[r]
  BY <1>1, <1>2 DEF MarketTypeOK
<1>5. cart' \in [Traders -> Nat]
  BY <1>1 DEF MarketTypeOK
<1>6. vending' \in [Traders -> [amount : Nat, value : Nat]]
  <2>1. vending[q].amount \in Nat /\ vending[q].amount - n \in Nat
    BY <1>1, <1>2 DEF MarketTypeOK
  <2> DEFINE k == vending[q].amount - n
  <2>2. vending' = [vending EXCEPT ![q] = [vending[q] EXCEPT !.amount = k]]
    BY <1>1 DEF MarketTypeOK
  <2>3. vending[q] \in [amount : Nat, value : Nat]
    BY <1>1 DEF MarketTypeOK
  <2>4. k \in Nat
    BY <2>1
  <2> HIDE DEF k
  <2>5. [vending[q] EXCEPT !.amount = k] \in [amount : Nat, value : Nat]
    BY <2>3, <2>4
  <2> QED BY <1>1, <2>2, <2>5 DEF MarketTypeOK
<1>7. ListInCart'
  BY <1>1, <1>2 DEF MarketTypeOK, ListInCart
<1>8. saw' \in [Traders -> Traders \cup {Nobody}] /\ \A r \in Traders : saw'[r] # r
  BY <1>2, MarketAssumption DEF MarketTypeOK, NotOneself
<1> QED BY <1>2, <1>3, <1>4, <1>5, <1>6, <1>7, <1>8
        DEF MarketTypeOK, NotOneself, tradeVars, asking, chance

LEMMA CartKeeps ==
    ASSUME MarketInv, NEW p \in Traders, NEW n, PutInCart(p, n) \/ GetFromCart(p, n)
    PROVE  MarketInv'
<1> USE DEF MarketInv
<1>1. n \in Nat /\ ~vender[p]
  BY DEF PutInCart, GetFromCart, CartAllowed, MarketTypeOK
<1>2. /\ bag' \in [Traders -> Nat] /\ \A r \in Traders : bag'[r] <= MaxWeight[r]
      /\ cart' \in [Traders -> Nat] /\ \A r \in Traders : r # p => cart'[r] = cart[r]
  <2>1. bag[p] \in Nat /\ cart[p] \in Nat /\ MaxWeight[p] \in Nat /\ bag[p] <= MaxWeight[p]
    BY MarketAssumption DEF MarketTypeOK
  <2>2. PICK b \in Nat, c \in Nat : /\ b <= MaxWeight[p]
                                   /\ bag' = [bag EXCEPT ![p] = b]
                                   /\ cart' = [cart EXCEPT ![p] = c]
    <3>1. CASE PutInCart(p, n)
      <4>1. bag[p] - n \in Nat /\ cart[p] + n \in Nat /\ bag[p] - n <= MaxWeight[p]
        BY <1>1, <2>1, <3>1 DEF PutInCart
      <4> QED BY <3>1, <4>1 DEF PutInCart
    <3>2. CASE GetFromCart(p, n)
      <4>1. bag[p] + n \in Nat /\ cart[p] - n \in Nat /\ bag[p] + n <= MaxWeight[p]
        BY <1>1, <2>1, <3>2 DEF GetFromCart
      <4> QED BY <3>2, <4>1 DEF GetFromCart
    <3> QED BY <3>1, <3>2
  <2> QED BY <2>2 DEF MarketTypeOK
<1>3. UNCHANGED <<place, zeny, tradeVars, stall, asking, moves, chance>>
  BY DEF PutInCart, GetFromCart
<1>4. ListInCart'
  BY <1>1, <1>2, <1>3 DEF ListInCart, stall
<1> QED BY <1>2, <1>3, <1>4 DEF MarketTypeOK, NotOneself, tradeVars, stall, asking, chance

\* What else happens.
LEMMA ChanceCounts ==
    ASSUME MarketInv, moves + found + earned + spent < MaxChance
    PROVE  {moves + 1, found + 1, earned + 1, spent + 1} \subseteq 0..MaxChance
  BY MarketAssumption DEF MarketInv, MarketTypeOK

LEMMA MoveKeeps ==
    ASSUME MarketInv, NEW p \in Traders, NEW x \in Places,
           Walk(p, x) \/ KnockedBack(p, x) \/ LeaveMap(p, x)
    PROVE  MarketInv'
<1> USE DEF MarketInv
<1>1. moves' \in 0..MaxChance /\ place' \in [Traders -> Places]
  <2>1. /\ moves + found + earned + spent < MaxChance
        /\ moves' = moves + 1
        /\ place' = [place EXCEPT ![p] = x]
    BY DEF Walk, KnockedBack, LeaveMap, Moved
  <2>2. moves + 1 \in 0..MaxChance
    BY <2>1, ChanceCounts
  <2> QED BY <2>1, <2>2 DEF MarketTypeOK
<1>2. CASE Walk(p, x) \/ KnockedBack(p, x)
  BY <1>1, <1>2 DEF Walk, KnockedBack, MarketTypeOK, NotOneself, ListInCart,
                    goods, tradeVars, stall, asking, chance
<1>3. CASE LeaveMap(p, x)
  <2>1. TradeTypeOK' /\ \A r \in Traders : partner'[r] # r
    <3>1. CASE UNCHANGED tradeVars
      BY <3>1 DEF tradeVars, MarketTypeOK, TradeTypeOK, NotOneself
    <3> QED BY <1>3, <3>1, CancelTypes DEF LeaveMap
  <2>2. /\ vender' \in [Traders -> BOOLEAN] /\ vending' \in [Traders -> [amount : Nat, value : Nat]]
        /\ ListInCart'
    BY <1>3 DEF LeaveMap, Close, NoList, MarketTypeOK, ListInCart, goods
  <2> QED BY <1>1, <1>3, <2>1, <2>2
          DEF LeaveMap, MarketTypeOK, TradeTypeOK, NotOneself, goods, asking, chance
<1> QED BY <1>2, <1>3

LEMMA LuckKeeps ==
    ASSUME MarketInv, NEW p \in Traders, Find(p) \/ Earn(p) \/ Spend(p)
    PROVE  MarketInv'
<1> USE DEF MarketInv
<1>1. {found', earned', spent'} \subseteq 0..MaxChance
  BY ChanceCounts DEF Find, Earn, Spend, Chance, MarketTypeOK
<1>2. bag' \in [Traders -> Nat] /\ \A r \in Traders : bag'[r] <= MaxWeight[r]
  <2>1. CASE Find(p)
    <3>1. bag[p] + 1 \in Nat /\ bag[p] + 1 <= MaxWeight[p] /\ bag' = [bag EXCEPT ![p] = @ + 1]
      BY <2>1 DEF Find, MarketTypeOK
    <3> QED BY <3>1 DEF MarketTypeOK
  <2>2. CASE bag' = bag
    BY <2>2 DEF MarketTypeOK
  <2> QED BY <2>1, <2>2 DEF Earn, Spend
<1>3. zeny' \in [Traders -> 0..MaxZeny]
  <2>1. zeny \in [Traders -> 0..MaxZeny] /\ zeny[p] \in 0..MaxZeny /\ MaxZeny \in Nat
    BY MarketAssumption DEF MarketTypeOK
  <2>2. GetZeny(zeny[p], 1) \in 0..MaxZeny
    BY <2>1 DEF GetZeny
  <2>3. zeny[p] > 0 => zeny[p] - 1 \in 0..MaxZeny
    BY <2>1
  <2> QED BY <2>1, <2>2, <2>3 DEF Find, Earn, Spend
<1>4. UNCHANGED <<place, cart, tradeVars, stall, asking, moves>>
  BY DEF Find, Earn, Spend
<1> QED BY <1>1, <1>2, <1>3, <1>4 DEF MarketTypeOK, NotOneself, ListInCart, tradeVars, stall,
              asking

LEMMA MarketInitKeeps ==
    ASSUME MarketInit
    PROVE  MarketInv
<1>1. NoItems \in [Slots -> Nat] /\ Nothing \in [items : [Slots -> Nat], zeny : Nat]
      /\ NoList \in [amount : Nat, value : Nat]
  BY DEF NoItems, Nothing, NoList
<1> QED BY <1>1, MarketAssumption DEF MarketInit, MarketInv, MarketTypeOK, NotOneself, ListInCart

LEMMA MarketStepKeeps ==
    ASSUME MarketInv, [MarketNext]_marketVars
    PROVE  MarketInv'
<1>1. CASE UNCHANGED marketVars
  BY <1>1 DEF marketVars, MarketInv, MarketTypeOK, NotOneself, ListInCart,
              goods, tradeVars, stall, asking, chance
<1>2. CASE MarketNext
  BY <1>2, TalkKeeps, OfferKeeps, CommitKeeps, StallKeeps, PurchaseKeeps, CartKeeps,
     MoveKeeps, LuckKeeps DEF MarketNext
<1> QED BY <1>1, <1>2

\* Types, and two facts they need: nobody is the own partner, and what a stall offers
\* is in the cart.
THEOREM MarketInvariance == MarketSpec => []MarketInv
<1>1. MarketInit => MarketInv
  BY MarketInitKeeps
<1>2. MarketInv /\ [MarketNext]_marketVars => MarketInv'
  BY MarketStepKeeps
<1> QED BY <1>1, <1>2, PTL DEF MarketSpec

\* Purses, bags, offers and lists keep to their types and limits.
THEOREM MarketTypeCorrect == MarketSpec => []MarketTypeOK
<1>1. MarketInv => MarketTypeOK
  BY DEF MarketInv
<1> QED BY <1>1, MarketInvariance, PTL

-----------------------------------------------------------------------------
(* Pieces *)

LEMMA SumOverTraders ==
    ASSUME NEW f
    PROVE  Sum(f) = SumOver(f, Traders)
  BY DEF Sum, SumOver

LEMMA SumIsInt ==
    ASSUME NEW f \in [Traders -> Nat]
    PROVE  Sum(f) \in Int
<1>1. f \in [Traders -> Int] /\ IsFiniteSet(Traders)
  BY MarketAssumption
<1> QED BY <1>1, SumOverTraders, SumType

\* One number changes.
LEMMA SumStep ==
    ASSUME NEW f \in [Traders -> Nat], NEW g \in [Traders -> Nat], NEW a \in Traders,
           \A r \in Traders : r # a => g[r] = f[r]
    PROVE  Sum(g) = Sum(f) + (g[a] - f[a])
<1>1. f \in [Traders -> Int] /\ g \in [Traders -> Int] /\ IsFiniteSet(Traders)
  BY MarketAssumption
<1>2. SumOver(g, Traders) = SumOver(f, Traders) + (g[a] - f[a])
  BY <1>1, SumChanges
<1> QED BY <1>2, SumOverTraders

\* Two change.
LEMMA SumStepTwice ==
    ASSUME NEW f \in [Traders -> Nat], NEW g \in [Traders -> Nat],
           NEW a \in Traders, NEW b \in Traders, a # b,
           \A r \in Traders : r # a /\ r # b => g[r] = f[r]
    PROVE  Sum(g) = Sum(f) + (g[a] - f[a]) + (g[b] - f[b])
<1>1. f \in [Traders -> Int] /\ g \in [Traders -> Int] /\ IsFiniteSet(Traders)
  BY MarketAssumption
<1>2. SumOver(g, Traders) = SumOver(f, Traders) + (g[a] - f[a]) + (g[b] - f[b])
  BY <1>1, SumChangesTwice
<1> QED BY <1>2, SumOverTraders

-----------------------------------------------------------------------------
(* Pieces: what each handler does to the bags and the carts *)

Conserved == (Sum(bag') + Sum(cart')) + found = (Sum(bag) + Sum(cart)) + found'

\* A trade of which both sides can carry what they are offered moves what is offered.
LEMMA ExchangeMoves ==
    ASSUME MarketInv, NEW p \in Traders, NEW q \in Traders, p # q, Exchange(p, q),
           TradeCheck(p, q),
           bag[q] + (dealItem[p][1] + dealItem[p][2]) <= MaxWeight[q],
           bag[p] + (dealItem[q][1] + dealItem[q][2]) <= MaxWeight[p]
    PROVE  /\ bag'[p] = (bag[p] - (dealItem[p][1] + dealItem[p][2]))
                             + (dealItem[q][1] + dealItem[q][2])
           /\ bag'[q] = (bag[q] - (dealItem[q][1] + dealItem[q][2]))
                             + (dealItem[p][1] + dealItem[p][2])
<1> USE DEF MarketInv
<1> DEFINE a1 == dealItem[p][1]
           a2 == dealItem[p][2]
           b1 == dealItem[q][1]
           b2 == dealItem[q][2]
           iv1 == GiveItem(bag, p, q, a1)
           iv2 == GiveItem(iv1, q, p, b1)
           iv3 == GiveItem(iv2, p, q, a2)
           iv4 == GiveItem(iv3, q, p, b2)
<1>1. a1 \in Nat /\ a2 \in Nat /\ b1 \in Nat /\ b2 \in Nat
  BY DEF MarketTypeOK, Slots
<1>2. bag' = iv4
  BY DEF Exchange
<1>3. /\ a1 <= bag[p] /\ b1 <= bag[q] + a1
      /\ a2 <= (bag[p] - a1) + b1 /\ b2 <= ((bag[q] + a1) - b1) + a2
  BY DEF TradeCheck
<1>4. bag[q] + (a1 + a2) <= MaxWeight[q] /\ bag[p] + (b1 + b2) <= MaxWeight[p]
  OBVIOUS
<1>5. /\ bag \in [Traders -> Nat] /\ \A r \in Traders : bag[r] <= MaxWeight[r]
      /\ bag[p] \in Nat /\ bag[q] \in Nat
      /\ MaxWeight[p] \in Nat /\ MaxWeight[q] \in Nat
  BY MarketAssumption DEF MarketTypeOK
<1> HIDE DEF a1, a2, b1, b2, iv1, iv2, iv3, iv4
<1>6. /\ iv1 \in [Traders -> Nat] /\ \A r \in Traders : iv1[r] <= MaxWeight[r]
      /\ iv1[p] = bag[p] - a1 /\ iv1[q] = bag[q] + a1
  <2>1. bag[q] + a1 <= MaxWeight[q]
    BY <1>1, <1>4, <1>5
  <2>2. a1 <= bag[p]
    BY <1>3, <2>1
  <2>3. iv1 \in [Traders -> Nat] /\ \A r \in Traders : iv1[r] <= MaxWeight[r]
    BY <1>1, <1>3, <1>5, GiveItemType DEF iv1
  <2>4. iv1[p] = bag[p] - a1 /\ iv1[q] = bag[q] + a1
    BY <1>1, <1>3, <1>5, <2>1, <2>2, GiveItemGives DEF iv1
  <2> QED BY <1>1, <1>3, <1>5, <2>3, <2>4
<1>7. /\ iv2 \in [Traders -> Nat] /\ \A r \in Traders : iv2[r] <= MaxWeight[r]
      /\ iv2[p] = (bag[p] - a1) + b1 /\ iv2[q] = (bag[q] + a1) - b1
  <2>1. iv1[p] + b1 <= MaxWeight[p] /\ b1 <= iv1[q]
    BY <1>1, <1>3, <1>4, <1>5, <1>6
  <2>2. b1 <= iv1[q]
    BY <1>3, <2>1
  <2>3. iv2 \in [Traders -> Nat] /\ \A r \in Traders : iv2[r] <= MaxWeight[r]
    BY <1>1, <1>6, GiveItemType DEF iv2
  <2>4. iv2[q] = iv1[q] - b1 /\ iv2[p] = iv1[p] + b1
    BY <1>1, <1>6, <2>1, <2>2, GiveItemGives DEF iv2
  <2> QED BY <1>1, <1>5, <1>6, <2>3, <2>4
<1>8. /\ iv3 \in [Traders -> Nat] /\ \A r \in Traders : iv3[r] <= MaxWeight[r]
      /\ iv3[p] = ((bag[p] - a1) + b1) - a2 /\ iv3[q] = ((bag[q] + a1) - b1) + a2
  <2>1. iv2[q] + a2 <= MaxWeight[q] /\ a2 <= iv2[p]
    BY <1>1, <1>3, <1>4, <1>5, <1>7
  <2>2. a2 <= iv2[p]
    BY <1>3, <2>1
  <2>3. iv3 \in [Traders -> Nat] /\ \A r \in Traders : iv3[r] <= MaxWeight[r]
    BY <1>1, <1>7, GiveItemType DEF iv3
  <2>4. iv3[p] = iv2[p] - a2 /\ iv3[q] = iv2[q] + a2
    BY <1>1, <1>7, <2>1, <2>2, GiveItemGives DEF iv3
  <2> QED BY <1>1, <1>5, <1>7, <2>3, <2>4
<1>9. /\ iv4[p] = (((bag[p] - a1) + b1) - a2) + b2
      /\ iv4[q] = (((bag[q] + a1) - b1) + a2) - b2
  <2>1. iv3[p] + b2 <= MaxWeight[p] /\ b2 <= iv3[q]
    BY <1>1, <1>3, <1>4, <1>5, <1>8
  <2> QED BY <1>1, <1>8, <2>1, GiveItemGives DEF iv4
<1>10. /\ iv4[p] = (bag[p] - (a1 + a2)) + (b1 + b2)
       /\ iv4[q] = (bag[q] - (b1 + b2)) + (a1 + a2)
  BY <1>1, <1>5, <1>9
<1> QED BY <1>2, <1>10 DEF a1, a2, b1, b2

\* So it moves pieces, and changes none.
LEMMA CommitConserves ==
    ASSUME MarketInv, NEW p \in Traders, TradeCommit(p), BothCanCarry
    PROVE  Conserved
<1> USE DEF MarketInv
<1> DEFINE q == partner[p]
<1>1. cart' = cart /\ found' = found
  BY DEF TradeCommit, chance
<1>2. CASE bag' = bag
  BY <1>1, <1>2 DEF Conserved
<1>3. CASE bag' # bag
  <2>0. q \in Traders /\ q # p
    BY <1>3 DEF TradeCommit, BothLocked, MarketTypeOK, NotOneself
  <2>1. TradeCheck(p, q) /\ ZenyCheck(p, q) /\ Exchange(p, q)
    BY <1>3 DEF TradeCommit
  <2>2. partner'[p] = Nobody
    BY <2>1 DEF Exchange, TradeCancel, Both
  <2>3. Closes(p, q)
    BY <1>3, <2>2 DEF Closes
  <2>4. /\ bag[q] + (dealItem[p][1] + dealItem[p][2]) <= MaxWeight[q]
        /\ bag[p] + (dealItem[q][1] + dealItem[q][2]) <= MaxWeight[p]
    BY <2>0, <2>3 DEF BothCanCarry
  <2>5. /\ bag'[p] = (bag[p] - (dealItem[p][1] + dealItem[p][2]))
                          + (dealItem[q][1] + dealItem[q][2])
        /\ bag'[q] = (bag[q] - (dealItem[q][1] + dealItem[q][2]))
                          + (dealItem[p][1] + dealItem[p][2])
    BY <2>0, <2>1, <2>4, ExchangeMoves
  <2>6. /\ bag' \in [Traders -> Nat]
        /\ \A r \in Traders : r # p /\ r # q => bag'[r] = bag[r]
    <3>1. q \in Traders /\ p # q /\ ZenyCheck(p, q) /\ Exchange(p, q)
      BY <2>0, <2>1
    <3> HIDE DEF q, MarketInv
    <3> QED BY <3>1, ExchangeTypes
  <2>7. Sum(bag') = Sum(bag) + (bag'[p] - bag[p]) + (bag'[q] - bag[q])
    <3>1. bag \in [Traders -> Nat] /\ q \in Traders /\ p # q
      BY <2>0 DEF MarketTypeOK
    <3> HIDE DEF q, MarketInv
    <3> QED BY <2>6, <3>1, SumStepTwice
  <2>8. /\ dealItem[p][1] \in Nat /\ dealItem[p][2] \in Nat
        /\ dealItem[q][1] \in Nat /\ dealItem[q][2] \in Nat
        /\ bag[p] \in Nat /\ bag[q] \in Nat /\ Sum(bag) \in Int
    BY <2>0, SumIsInt DEF MarketTypeOK, Slots
  <2>9. Sum(bag') = Sum(bag)
    BY <2>5, <2>7, <2>8
  <2> QED BY <1>1, <2>9 DEF Conserved
<1> QED BY <1>2, <1>3

\* What is bought leaves the cart of the one and comes into the bag of the other.
LEMMA PurchaseConserves ==
    ASSUME MarketInv, NEW p \in Traders, NEW n, Purchase(p, n)
    PROVE  Conserved
<1> USE DEF MarketInv
<1> DEFINE q == saw[p]
<1>1. /\ q \in Traders /\ q # p /\ n \in Nat /\ n <= cart[q]
      /\ bag' = [bag EXCEPT ![p] = @ + n]
      /\ cart' = [cart EXCEPT ![q] = @ - n]
      /\ found' = found
  BY PurchaseFacts DEF Purchase, chance
<1>2. bag \in [Traders -> Nat] /\ cart \in [Traders -> Nat]
  BY DEF MarketTypeOK
<1>3. Sum(bag') = Sum(bag) + n
  <2>1. bag[p] + n \in Nat
    BY <1>1, <1>2
  <2>2. bag' \in [Traders -> Nat] /\ bag'[p] = bag[p] + n
        /\ \A r \in Traders : r # p => bag'[r] = bag[r]
    BY <1>1, <1>2, <2>1
  <2>3. Sum(bag') = Sum(bag) + (bag'[p] - bag[p])
    BY <1>2, <2>2, SumStep
  <2> QED BY <1>1, <1>2, <2>2, <2>3
<1>4. Sum(cart') = Sum(cart) - n
  <2>1. cart[q] - n \in Nat
    BY <1>1, <1>2
  <2>2. cart' \in [Traders -> Nat] /\ cart'[q] = cart[q] - n
        /\ \A r \in Traders : r # q => cart'[r] = cart[r]
    BY <1>1, <1>2, <2>1
  <2>3. Sum(cart') = Sum(cart) + (cart'[q] - cart[q])
    BY <1>1, <1>2, <2>2, SumStep
  <2>4. Sum(cart) \in Int /\ cart[q] \in Nat
    BY <1>1, <1>2, SumIsInt
  <2> QED BY <1>1, <2>2, <2>3, <2>4
<1>5. Sum(bag) \in Int /\ Sum(cart) \in Int /\ found \in Int
  BY <1>2, SumIsInt, MarketAssumption DEF MarketTypeOK
<1> QED BY <1>1, <1>3, <1>4, <1>5 DEF Conserved

LEMMA CartConserves ==
    ASSUME MarketInv, NEW p \in Traders, NEW n, PutInCart(p, n) \/ GetFromCart(p, n)
    PROVE  Conserved
<1> USE DEF MarketInv
<1>1. /\ bag \in [Traders -> Nat] /\ cart \in [Traders -> Nat]
      /\ bag[p] \in Nat /\ cart[p] \in Nat /\ found' = found
      /\ Sum(bag) \in Int /\ Sum(cart) \in Int /\ found \in Int
  BY SumIsInt, MarketAssumption DEF MarketTypeOK, PutInCart, GetFromCart, chance
<1>2. PICK m \in Int : /\ bag[p] + m \in Nat /\ bag' = [bag EXCEPT ![p] = @ + m]
                       /\ cart[p] - m \in Nat /\ cart' = [cart EXCEPT ![p] = @ - m]
  <2>1. CASE PutInCart(p, n)
    <3>1. n \in Nat /\ n <= bag[p]
      BY <1>1, <2>1 DEF PutInCart
    <3>2. /\ 0 - n \in Int
          /\ bag[p] + (0 - n) = bag[p] - n /\ bag[p] - n \in Nat
          /\ cart[p] - (0 - n) = cart[p] + n /\ cart[p] + n \in Nat
      BY <1>1, <3>1
    <3>3. bag' = [bag EXCEPT ![p] = bag[p] + (0 - n)]
          /\ cart' = [cart EXCEPT ![p] = cart[p] - (0 - n)]
      BY <1>1, <2>1, <3>2 DEF PutInCart
    <3> QED BY <3>2, <3>3
  <2>2. CASE GetFromCart(p, n)
    <3>1. n \in Nat /\ n <= cart[p]
      BY <1>1, <2>2 DEF GetFromCart
    <3>2. n \in Int /\ bag[p] + n \in Nat /\ cart[p] - n \in Nat
      BY <1>1, <3>1
    <3> QED BY <2>2, <3>2 DEF GetFromCart
  <2> QED BY <2>1, <2>2
<1>3. /\ bag' \in [Traders -> Nat] /\ bag'[p] = bag[p] + m
      /\ \A r \in Traders : r # p => bag'[r] = bag[r]
      /\ cart' \in [Traders -> Nat] /\ cart'[p] = cart[p] - m
      /\ \A r \in Traders : r # p => cart'[r] = cart[r]
  BY <1>1, <1>2
<1>4. Sum(bag') = Sum(bag) + (bag'[p] - bag[p])
  BY <1>1, <1>3, SumStep
<1>5. Sum(cart') = Sum(cart) + (cart'[p] - cart[p])
  BY <1>1, <1>3, SumStep
<1> QED BY <1>1, <1>2, <1>3, <1>4, <1>5 DEF Conserved

LEMMA FindConserves ==
    ASSUME MarketInv, NEW p \in Traders, Find(p)
    PROVE  Conserved
<1> USE DEF MarketInv
<1>1. /\ bag \in [Traders -> Nat] /\ bag[p] \in Nat
      /\ Sum(bag) \in Int /\ Sum(cart) \in Int /\ found \in Int
  BY SumIsInt, MarketAssumption DEF MarketTypeOK
<1>2. bag' \in [Traders -> Nat] /\ bag'[p] = bag[p] + 1 /\ cart' = cart
      /\ found' = found + 1 /\ \A r \in Traders : r # p => bag'[r] = bag[r]
  BY <1>1 DEF Find
<1>3. Sum(bag') = Sum(bag) + (bag'[p] - bag[p])
  BY <1>1, <1>2, SumStep
<1> QED BY <1>1, <1>2, <1>3 DEF Conserved

\* The handlers by which nothing changes hands.
Quiet(p) ==
    \/ \E q \in Traders : TradeRequest(p, q) \/ VendingList(p, q)
    \/ TradeAck(p) \/ TradeOk(p) \/ PressCancel(p) \/ CloseVending(p)
    \/ \E n \in 1..Pieces : OfferItem(p, n) \/ \E v \in Prices : OpenVending(p, n, v)
    \/ \E z \in 1..MaxZeny : OfferZeny(p, z)
    \/ \E x \in Places : Walk(p, x) \/ KnockedBack(p, x) \/ LeaveMap(p, x)

LEMMA QuietLeavesGoods ==
    ASSUME NEW p \in Traders, Quiet(p)
    PROVE  UNCHANGED <<goods, chance>>
  BY DEF Quiet, TradeRequest, VendingList, TradeAck, TradeOk, PressCancel, CloseVending,
         OfferItem, OpenVending, OfferZeny, Walk, KnockedBack, LeaveMap

LEMMA StepIsOneOf ==
    ASSUME [MarketNext]_marketVars
    PROVE  \/ UNCHANGED <<goods, chance, saw>>
           \/ \E p \in Traders :
                 \/ Quiet(p) \/ TradeCommit(p) \/ Find(p) \/ Earn(p) \/ Spend(p)
                 \/ \E n \in 1..Pieces : Purchase(p, n) \/ PutInCart(p, n) \/ GetFromCart(p, n)
<1>1. CASE UNCHANGED marketVars
  BY <1>1 DEF marketVars, stall
<1>2. CASE MarketNext
  BY <1>2, Zenon DEF MarketNext, Quiet
<1> QED BY <1>1, <1>2

LEMMA StepConserves ==
    ASSUME MarketInv, [MarketNext]_marketVars, BothCanCarry
    PROVE  Conserved
<1>1. CASE UNCHANGED <<bag, cart, found>>
  BY <1>1 DEF Conserved
<1>2. ASSUME NEW p \in Traders, Quiet(p) \/ Earn(p) \/ Spend(p)
      PROVE  UNCHANGED <<bag, cart, found>>
  BY <1>2, QuietLeavesGoods DEF Earn, Spend, goods, chance
<1> QED BY <1>1, <1>2, StepIsOneOf, CommitConserves, PurchaseConserves, CartConserves,
           FindConserves DEF goods, chance

\* No step of any player makes or destroys a piece, if the two sides of a trade that is
\* closed can carry what they are offered.
THEOREM PiecesKeptHolds == MarketSpec => PiecesKept
<1>1. MarketInv /\ [MarketNext]_marketVars =>
        [<<bag, cart, found>>' # <<bag, cart, found>> /\ BothCanCarry => Conserved]_marketVars
  BY StepConserves
<1> QED BY <1>1, MarketInvariance, PTL DEF MarketSpec, PiecesKept, Conserved

-----------------------------------------------------------------------------
(* Zeny *)

LEMMA PursesAdd ==
    ASSUME MarketInv
    PROVE  /\ zeny \in [Traders -> Nat] /\ FirstZeny \in [Traders -> Nat]
           /\ \A r \in Traders : zeny[r] \in Nat /\ zeny[r] <= MaxZeny
           /\ MaxZeny \in Nat /\ spent \in Nat /\ earned \in Nat
           /\ Sum(zeny) \in Int /\ Sum(FirstZeny) \in Int
<1>1. zeny \in [Traders -> Nat] /\ FirstZeny \in [Traders -> Nat]
  BY MarketAssumption DEF MarketInv, MarketTypeOK
<1> QED BY <1>1, SumIsInt, MarketAssumption DEF MarketInv, MarketTypeOK

\* What one side pays the other gets, even if somebody spent it after offering it.
LEMMA CommitSolvent ==
    ASSUME MarketInv, NoZenyMade, NEW p \in Traders, TradeCommit(p)
    PROVE  NoZenyMade'
<1> DEFINE q == partner[p]
<1>1. UNCHANGED chance
  BY DEF TradeCommit
<1>2. CASE zeny' = zeny
  BY <1>1, <1>2 DEF NoZenyMade, chance
<1>3. CASE zeny' # zeny
  <2>1. q \in Traders /\ p # q /\ ZenyCheck(p, q) /\ Exchange(p, q)
    BY <1>3 DEF TradeCommit, BothLocked, MarketInv, MarketTypeOK, NotOneself
  <2>2. /\ dealZeny[p] \in Nat /\ dealZeny[q] \in Nat
        /\ zeny[p] \in Nat /\ zeny[q] \in Nat
    BY <2>1, PursesAdd DEF MarketInv, MarketTypeOK
  <2> DEFINE x == (zeny[p] - dealZeny[p]) + dealZeny[q]
             y == (zeny[q] - dealZeny[q]) + dealZeny[p]
  <2>3. zeny' = [zeny EXCEPT ![p] = x, ![q] = y]
    BY <2>1, PursesAdd DEF Exchange
  <2>4. x \in Nat /\ y \in Nat /\ (x - zeny[p]) + (y - zeny[q]) = 0
    BY <2>1, <2>2 DEF ZenyCheck
  <2> HIDE DEF x, y, q
  <2>5. /\ zeny' \in [Traders -> Nat] /\ zeny'[p] = x /\ zeny'[q] = y
        /\ \A r \in Traders : r # p /\ r # q => zeny'[r] = zeny[r]
    BY <2>1, <2>3, <2>4, PursesAdd
  <2>6. Sum(zeny') = Sum(zeny) + (zeny'[p] - zeny[p]) + (zeny'[q] - zeny[q])
    BY <2>1, <2>5, PursesAdd, SumStepTwice
  <2>7. Sum(zeny') = Sum(zeny)
    BY <2>2, <2>4, <2>5, <2>6, PursesAdd
  <2> QED BY <1>1, <2>7 DEF NoZenyMade, chance
<1> QED BY <1>2, <1>3

\* The seller gets what the buyer pays, or less, if the purse is full.
LEMMA PurchaseSolvent ==
    ASSUME MarketInv, NoZenyMade, NEW p \in Traders, NEW n, Purchase(p, n)
    PROVE  NoZenyMade'
<1> DEFINE q == saw[p]
           z == n * vending[q].value
<1>1. /\ q \in Traders /\ q # p /\ z \in Nat /\ z <= zeny[p]
      /\ zeny' = [zeny EXCEPT ![p] = @ - z, ![q] = GetZeny(@, z)]
      /\ UNCHANGED chance
  BY PurchaseFacts DEF Purchase
<1>2. zeny[p] \in Nat /\ zeny[q] \in Nat /\ zeny[q] <= MaxZeny /\ MaxZeny \in Nat
  BY <1>1, PursesAdd
<1> HIDE DEF q, z
<1>3. /\ zeny[p] - z \in Nat /\ GetZeny(zeny[q], z) \in Nat
      /\ GetZeny(zeny[q], z) <= zeny[q] + z
  BY <1>1, <1>2 DEF GetZeny
<1>4. /\ zeny' \in [Traders -> Nat] /\ zeny'[p] = zeny[p] - z
      /\ zeny'[q] = GetZeny(zeny[q], z)
      /\ \A r \in Traders : r # p /\ r # q => zeny'[r] = zeny[r]
  BY <1>1, <1>3, PursesAdd
<1>5. Sum(zeny') = Sum(zeny) + (zeny'[p] - zeny[p]) + (zeny'[q] - zeny[q])
  <2>1. zeny \in [Traders -> Nat] /\ q \in Traders /\ p # q
    BY <1>1, PursesAdd
  <2> QED BY <1>4, <2>1, SumStepTwice
<1>6. Sum(zeny') \in Int /\ Sum(zeny') <= Sum(zeny)
  BY <1>1, <1>2, <1>3, <1>4, <1>5, PursesAdd
<1>7. spent' = spent /\ earned' = earned
  BY <1>1 DEF chance
<1> QED BY <1>6, <1>7, PursesAdd DEF NoZenyMade

LEMMA EarnSpendSolvent ==
    ASSUME MarketInv, NoZenyMade, NEW p \in Traders, Earn(p) \/ Spend(p)
    PROVE  NoZenyMade'
<1>1. zeny[p] \in Nat /\ zeny[p] <= MaxZeny /\ MaxZeny \in Nat
  BY PursesAdd
<1>2. CASE Earn(p)
  <2>1. GetZeny(zeny[p], 1) \in Nat /\ GetZeny(zeny[p], 1) <= zeny[p] + 1
    BY <1>1 DEF GetZeny
  <2>2. /\ zeny' \in [Traders -> Nat] /\ zeny'[p] = GetZeny(zeny[p], 1)
        /\ \A r \in Traders : r # p => zeny'[r] = zeny[r]
        /\ earned' = earned + 1 /\ spent' = spent
    BY <1>2, <2>1, PursesAdd DEF Earn
  <2>3. Sum(zeny') = Sum(zeny) + (zeny'[p] - zeny[p])
    BY <2>2, PursesAdd, SumStep
  <2> QED BY <1>1, <2>1, <2>2, <2>3, PursesAdd DEF NoZenyMade
<1>3. CASE Spend(p)
  <2>1. zeny[p] - 1 \in Nat
    BY <1>1, <1>3 DEF Spend
  <2>2. /\ zeny' \in [Traders -> Nat] /\ zeny'[p] = zeny[p] - 1
        /\ \A r \in Traders : r # p => zeny'[r] = zeny[r]
        /\ spent' = spent + 1 /\ earned' = earned
    BY <1>3, <2>1, PursesAdd DEF Spend
  <2>3. Sum(zeny') = Sum(zeny) + (zeny'[p] - zeny[p])
    BY <2>2, PursesAdd, SumStep
  <2> QED BY <1>1, <2>1, <2>2, <2>3, PursesAdd DEF NoZenyMade
<1> QED BY <1>2, <1>3

LEMMA StepSolvent ==
    ASSUME MarketInv, NoZenyMade, [MarketNext]_marketVars
    PROVE  NoZenyMade'
<1>1. CASE UNCHANGED <<zeny, earned, spent>>
  BY <1>1 DEF NoZenyMade
<1>2. ASSUME NEW p \in Traders, NEW n, Quiet(p) \/ Find(p) \/ PutInCart(p, n) \/ GetFromCart(p, n)
      PROVE  UNCHANGED <<zeny, earned, spent>>
  BY <1>2, QuietLeavesGoods DEF Find, PutInCart, GetFromCart, goods, chance
<1> QED BY <1>1, <1>2, StepIsOneOf, CommitSolvent, PurchaseSolvent, EarnSpendSolvent
        DEF goods, chance

\* Whatever players offer, spend and buy at the same time, no zeny is made.
THEOREM NoZenyMadeHolds == MarketSpec => []NoZenyMade
<1>1. MarketInit => NoZenyMade
  <2>1. FirstZeny \in [Traders -> Nat]
    BY MarketAssumption
  <2>2. Sum(FirstZeny) \in Int
    BY <2>1, SumIsInt
  <2> QED BY <2>2 DEF MarketInit, NoZenyMade
<1>2. MarketInv /\ NoZenyMade /\ [MarketNext]_marketVars => NoZenyMade'
  BY StepSolvent
<1> QED BY <1>1, <1>2, MarketInvariance, PTL DEF MarketSpec

-----------------------------------------------------------------------------
(* What a buyer pays for *)

Delivered(p) ==
    LET q == saw[p] IN
    q # Nobody /\ saw'[p] = Nobody /\ zeny'[p] < zeny[p] =>
        /\ bag'[p] > bag[p]
        /\ bag'[p] - bag[p] = cart[q] - cart'[q]
        /\ zeny[p] - zeny'[p] = (bag'[p] - bag[p]) * vending[q].value

LEMMA PurchaseDelivers ==
    ASSUME MarketInv, NEW p \in Traders, NEW n, Purchase(p, n)
    PROVE  \A r \in Traders : Delivered(r)
<1> DEFINE q == saw[p]
           z == n * vending[q].value
<1>1. /\ q \in Traders /\ q # p /\ n \in Nat \ {0} /\ z \in Nat
      /\ n <= cart[q] /\ z <= zeny[p]
      /\ zeny' = [zeny EXCEPT ![p] = @ - z, ![q] = GetZeny(@, z)]
      /\ bag' = [bag EXCEPT ![p] = @ + n]
      /\ cart' = [cart EXCEPT ![q] = @ - n]
      /\ saw' = [saw EXCEPT ![p] = Nobody]
  BY PurchaseFacts DEF Purchase
<1>2. /\ bag[p] \in Nat /\ cart[q] \in Nat /\ zeny[p] \in Nat
      /\ bag \in [Traders -> Nat] /\ cart \in [Traders -> Nat] /\ zeny \in [Traders -> 0..MaxZeny]
      /\ saw \in [Traders -> Traders \cup {Nobody}]
  BY <1>1, PursesAdd DEF MarketInv, MarketTypeOK
<1>3. \A r \in Traders : r # p => saw'[r] = saw[r]
  BY <1>1, <1>2
<1>4. Delivered(p)
  <2>1. bag'[p] = bag[p] + n /\ cart'[q] = cart[q] - n /\ zeny'[p] = zeny[p] - z
    BY <1>1, <1>2
  <2>2. bag'[p] - bag[p] = n /\ cart[q] - cart'[q] = n /\ zeny[p] - zeny'[p] = z
        /\ bag'[p] > bag[p]
    BY <1>1, <1>2, <2>1
  <2> QED BY <2>2 DEF Delivered
<1> QED BY <1>3, <1>4 DEF Delivered

\* A buyer pays for exactly what comes out of the vendor's cart and into its hands, though
\* the list it saw may be old.
THEOREM PaidIsDeliveredHolds == MarketSpec => PaidIsDelivered
<1>1. MarketInv /\ [MarketNext]_marketVars => [\A p \in Traders : Delivered(p)]_marketVars
  <2>1. ASSUME MarketInv, [MarketNext]_marketVars
        PROVE  \A p \in Traders : Delivered(p)
    <3>1. CASE \A p \in Traders : saw[p] # Nobody => saw'[p] # Nobody
      BY <3>1 DEF Delivered
    <3>2. CASE UNCHANGED saw
      BY <3>2 DEF Delivered
    <3>3. ASSUME NEW p \in Traders, NEW n,
                 \/ Quiet(p) \/ TradeCommit(p) \/ Find(p) \/ Earn(p) \/ Spend(p)
                 \/ PutInCart(p, n) \/ GetFromCart(p, n)
          PROVE  \A r \in Traders : saw[r] # Nobody => saw'[r] # Nobody
      <4>1. CASE \E q \in Traders : VendingList(p, q)
        BY <2>1, <4>1, MarketAssumption DEF VendingList, MarketInv, MarketTypeOK
      <4>2. CASE UNCHANGED saw
        BY <4>2
      <4> QED BY <3>3, <4>1, <4>2
              DEF Quiet, TradeRequest, TradeAck, TradeOk, PressCancel, CloseVending,
                  OfferItem, OpenVending, OfferZeny, Walk, KnockedBack, LeaveMap, TradeCommit,
                  Find, Earn, Spend, PutInCart, GetFromCart, stall
    <3> QED BY <2>1, <3>1, <3>2, <3>3, StepIsOneOf, PurchaseDelivers
  <2> QED BY <2>1
<1> QED BY <1>1, MarketInvariance, PTL DEF MarketSpec, PaidIsDelivered, Delivered

-----------------------------------------------------------------------------
(* Partners, where nobody has asked again *)

Others == Traders \ again

\* Whoever points at a player who has not asked again is that player's partner.
Mutual == \A p \in Traders : partner[p] \in Others => partner[partner[p]] = p

\* Whoever has not asked again and is in no trade offers nothing.
Idle ==
    \A p \in Others :
        /\ partner[p] = Nobody => dealMode[p] = 0
        /\ dealMode[p] = 0 => dealItem[p] = NoItems /\ dealZeny[p] = 0
        /\ ui[p] = "asked" => partner[p] # Nobody /\ dealMode[p] = 0

\* Nor is it in a trade as long as its partner has not answered.
Waits ==
    \A p \in Others, q \in Traders :
        partner[p] = q /\ partner[q] = p /\ ui[q] = "asked" => dealMode[p] = 0

\* A window is only open in a trade.
Windows == \A p \in Traders : ui[p] = "window" => dealMode[p] = 1

\* Partners are in the same mode, and each window shows what the other side offers.
Shows ==
    \A p, q \in Others : partner[p] = q =>
        /\ dealMode[q] = dealMode[p]
        /\ dealMode[p] = 1 => shown[q] = [items |-> dealItem[p], zeny |-> dealZeny[p]]

\* Who has a stall is nobody's partner.
Away == \A p \in Others : vender[p] => partner[p] = Nobody

Deals == Mutual /\ Idle /\ Waits /\ Windows /\ Shows /\ Away

\* Whoever has not asked again is only the partner of its own partner.
LEMMA PointedAtBack ==
    ASSUME MarketInv, Mutual, NEW p \in Others, NEW q \in Traders, partner[q] = p
    PROVE  partner[p] = q
  BY DEF Mutual

\* The way out of a trade lets go of both sides, and of no other.
LEMMA CancelKeepsDeals ==
    ASSUME MarketInv, Deals, NEW p \in Traders, TradeCancel(p), again' = again
    PROVE  /\ (Mutual /\ Idle /\ Waits /\ Windows /\ Shows)'
           /\ \A r \in Traders : partner'[r] \in {partner[r], Nobody}
           /\ partner'[p] = Nobody
<1> DEFINE q == partner[p]
<1>1. TradeTypeOK /\ Nobody \notin Traders /\ Others' = Others /\ Others \subseteq Traders
  BY MarketAssumption DEF MarketInv, MarketTypeOK, TradeTypeOK, Others
<1>2. \A r \in Traders : r \in {p, q} =>
        /\ partner'[r] = Nobody /\ dealMode'[r] = 0
        /\ dealItem'[r] = NoItems /\ dealZeny'[r] = 0 /\ ui'[r] = "none"
  BY DEF TradeCancel, Both
<1>3. \A r \in Traders : r \notin {p, q} =>
        /\ partner'[r] = partner[r] /\ dealMode'[r] = dealMode[r]
        /\ dealItem'[r] = dealItem[r] /\ dealZeny'[r] = dealZeny[r]
        /\ ui'[r] = ui[r] /\ shown'[r] = shown[r]
  BY DEF TradeCancel, Both
<1>4. \A r \in Traders : r \notin {p, q} /\ partner[r] \in Others => partner[r] \notin {p, q}
  BY <1>1 DEF Deals, Mutual
<1> HIDE DEF q
<1>5. Mutual'
  <2>1. ASSUME NEW r \in Traders, partner'[r] \in Others
        PROVE  partner'[partner'[r]] = r
    <3>1. r \notin {p, q}
      BY <1>1, <1>2, <2>1
    <3>2. partner'[r] = partner[r] /\ partner[r] \in Others
      BY <1>3, <2>1, <3>1
    <3>3. partner[r] \notin {p, q} /\ partner[r] \in Traders
      BY <1>1, <1>4, <3>1, <3>2
    <3> QED BY <1>3, <3>2, <3>3 DEF Deals, Mutual
  <2> QED BY <1>1, <2>1 DEF Mutual
<1>6. Idle' /\ Windows'
  BY <1>1, <1>2, <1>3 DEF Deals, Idle, Windows
<1>7. Waits'
  <2>1. ASSUME NEW r \in Others, NEW t \in Traders,
               partner'[r] = t, partner'[t] = r, ui'[t] = "asked"
        PROVE  dealMode'[r] = 0
    <3>1. r \notin {p, q} /\ t \notin {p, q}
      BY <1>1, <1>2, <2>1
    <3> QED BY <1>1, <1>3, <2>1, <3>1 DEF Deals, Waits
  <2> QED BY <1>1, <2>1 DEF Waits
<1>8. Shows'
  <2>1. ASSUME NEW r \in Others, NEW t \in Others, partner'[r] = t
        PROVE  /\ dealMode'[t] = dealMode'[r]
               /\ dealMode'[r] = 1 => shown'[t] = [items |-> dealItem'[r], zeny |-> dealZeny'[r]]
    <3>1. r \notin {p, q}
      BY <1>1, <1>2, <2>1
    <3>2. partner[r] = t /\ t \notin {p, q}
      BY <1>1, <1>3, <1>4, <2>1, <3>1
    <3> QED BY <1>1, <1>3, <3>1, <3>2 DEF Deals, Shows
  <2> QED BY <1>1, <2>1 DEF Shows
<1> QED BY <1>1, <1>2, <1>3, <1>5, <1>6, <1>7, <1>8

\* Whoever asks has no partner, or has asked again from now on; whoever is asked
\* has none.
LEMMA RequestKeepsDeals ==
    ASSUME MarketInv, Deals, NEW p \in Traders, NEW q \in Traders, TradeRequest(p, q)
    PROVE  Deals'
<1>1. TradeTypeOK /\ Nobody \notin Traders /\ vender \in [Traders -> BOOLEAN]
  BY MarketAssumption DEF MarketInv, MarketTypeOK, TradeTypeOK
<1>2. /\ p # q /\ partner[q] = Nobody /\ dealMode[p] = 0
      /\ ~vender[p] /\ ~vender[q]
      /\ partner' = [partner EXCEPT ![p] = q, ![q] = p]
      /\ ui' = [ui EXCEPT ![q] = "asked"]
      /\ again' = IF partner[p] = Nobody THEN again ELSE again \cup {p}
      /\ UNCHANGED <<dealMode, dealLocked, dealItem, dealZeny, shown, vender>>
  BY DEF TradeRequest, stall
<1>3. Others' \subseteq Others /\ (p \in Others' => partner[p] = Nobody)
  BY <1>2 DEF Others
<1>4. /\ \A r \in Traders : r \notin {p, q} => partner'[r] = partner[r] /\ ui'[r] = ui[r]
      /\ partner'[p] = q /\ partner'[q] = p /\ ui'[p] = ui[p] /\ ui'[q] = "asked"
  BY <1>1, <1>2 DEF TradeTypeOK
<1>5. \A r \in Traders : partner[r] \in Others' => partner[r] \notin {p, q}
  BY <1>1, <1>2, <1>3 DEF Deals, Mutual
<1>6. q \in Others' => dealMode[q] = 0
  BY <1>2, <1>3 DEF Deals, Idle
<1>7. Mutual'
  <2>1. ASSUME NEW r \in Traders, partner'[r] \in Others'
        PROVE  partner'[partner'[r]] = r
    <3>1. CASE r \in {p, q}
      BY <1>4, <3>1
    <3>2. CASE r \notin {p, q}
      <4>1. partner'[r] = partner[r] /\ partner[r] \notin {p, q} /\ partner[r] \in Others
        BY <1>3, <1>4, <1>5, <2>1, <3>2
      <4>2. partner'[partner[r]] = partner[partner[r]]
        BY <1>4, <4>1 DEF Others
      <4> QED BY <4>1, <4>2 DEF Deals, Mutual
    <3> QED BY <3>1, <3>2
  <2> QED BY <2>1 DEF Mutual
<1>8. Idle'
  <2>1. ASSUME NEW r \in Others'
        PROVE  /\ partner'[r] = Nobody => dealMode[r] = 0
               /\ dealMode[r] = 0 => dealItem[r] = NoItems /\ dealZeny[r] = 0
               /\ ui'[r] = "asked" => partner'[r] # Nobody /\ dealMode[r] = 0
    <3>1. r \in Others /\ r \in Traders
      BY <1>3 DEF Others
    <3>2. CASE r \in {p, q}
      BY <1>1, <1>2, <1>4, <1>6, <3>1, <3>2 DEF Deals, Idle
    <3>3. CASE r \notin {p, q}
      BY <1>4, <3>1, <3>3 DEF Deals, Idle
    <3> QED BY <3>2, <3>3
  <2> QED BY <1>2, <2>1 DEF Idle
<1>9. Waits'
  <2>1. ASSUME NEW r \in Others', NEW t \in Traders,
               partner'[r] = t, partner'[t] = r, ui'[t] = "asked"
        PROVE  dealMode[r] = 0
    <3>1. r \in Others /\ r \in Traders
      BY <1>3 DEF Others
    <3>2. CASE r \in {p, q}
      BY <1>2, <1>6, <3>2
    <3>3. CASE r \notin {p, q}
      <4>1. partner[r] = t /\ t \notin {p, q}
        BY <1>4, <2>1, <3>1, <3>3
      <4> QED BY <1>4, <2>1, <3>1, <4>1 DEF Deals, Waits
    <3> QED BY <3>2, <3>3
  <2> QED BY <1>2, <2>1 DEF Waits
<1>10. Windows'
  BY <1>2, <1>4 DEF Deals, Windows
<1>11. Shows'
  <2>1. ASSUME NEW r \in Others', NEW t \in Others', partner'[r] = t
        PROVE  /\ dealMode[t] = dealMode[r]
               /\ dealMode[r] = 1 => shown[t] = [items |-> dealItem[r], zeny |-> dealZeny[r]]
    <3>1. r \in Others /\ t \in Others /\ r \in Traders
      BY <1>3 DEF Others
    <3>2. CASE r \in {p, q}
      BY <1>2, <1>4, <1>6, <2>1, <3>2
    <3>3. CASE r \notin {p, q}
      <4>1. partner[r] = t
        BY <1>4, <2>1, <3>1, <3>3
      <4> QED BY <3>1, <4>1 DEF Deals, Shows
    <3> QED BY <3>2, <3>3
  <2> QED BY <1>2, <2>1 DEF Shows
<1>12. Away'
  <2>1. ASSUME NEW r \in Others', vender[r]
        PROVE  partner'[r] = Nobody
    <3>1. r \in Others /\ r \in Traders /\ r \notin {p, q}
      BY <1>2, <1>3, <2>1 DEF Others
    <3> QED BY <1>4, <2>1, <3>1 DEF Deals, Away
  <2> QED BY <1>2, <2>1 DEF Away
<1> QED BY <1>7, <1>8, <1>9, <1>10, <1>11, <1>12 DEF Deals

\* The answer is given to the partner, which need not be who asked.
LEMMA AckKeepsDeals ==
    ASSUME MarketInv, Deals, NEW p \in Traders, TradeAck(p)
    PROVE  Deals'
<1> DEFINE q == partner[p]
<1>1. TradeTypeOK /\ Nobody \notin Traders /\ Others \subseteq Traders
  BY MarketAssumption DEF MarketInv, MarketTypeOK, TradeTypeOK, Others
<1>2. /\ ui[p] = "asked" /\ q \in Traders /\ q # p
      /\ UNCHANGED <<vender, again>> /\ Others' = Others
  BY <1>1 DEF TradeAck, TradeTypeOK, MarketInv, NotOneself, stall, asking, Others
<1>3. q \in Others => partner[q] = p
  BY DEF Deals, Mutual
<1>4. \A r \in {p, q} : r \in Others =>
        dealMode[r] = 0 /\ dealItem[r] = NoItems /\ dealZeny[r] = 0
  BY <1>1, <1>2, <1>3 DEF Deals, Idle, Waits
<1>5. \A r \in Traders : r \notin {p, q} /\ partner[r] \in Others => partner[r] \notin {p, q}
  BY <1>1, <1>3 DEF Deals, Mutual
<1>6. CASE TradeCancel(p)
  <2>1. /\ (Mutual /\ Idle /\ Waits /\ Windows /\ Shows)'
        /\ \A r \in Traders : partner'[r] \in {partner[r], Nobody}
    BY <1>2, <1>6, CancelKeepsDeals
  <2> QED BY <1>1, <1>2, <2>1 DEF Deals, Away
<1>7. CASE /\ dealMode' = Both(dealMode, p, q, 1)
           /\ ui' = Both(ui, p, q, "window")
           /\ shown' = Both(shown, p, q, Nothing)
           /\ UNCHANGED <<partner, dealLocked, dealItem, dealZeny>>
  <2> HIDE DEF q
  <2>1. \A r \in Traders : r \in {p, q} =>
          dealMode'[r] = 1 /\ ui'[r] = "window" /\ shown'[r] = Nothing
    BY <1>7 DEF Both
  <2>2. \A r \in Traders : r \notin {p, q} =>
          dealMode'[r] = dealMode[r] /\ ui'[r] = ui[r] /\ shown'[r] = shown[r]
    BY <1>7 DEF Both
  <2>3. partner[p] = q
    BY DEF q
  <2>4. Mutual' /\ Away'
    BY <1>2, <1>7 DEF Deals, Mutual, Away
  <2>5. Idle' /\ Windows'
    BY <1>1, <1>2, <1>3, <1>7, <2>1, <2>2, <2>3 DEF Deals, Idle, Windows
  <2>6. Waits'
    <3>1. ASSUME NEW r \in Others, NEW t \in Traders,
                 partner[r] = t, partner[t] = r, ui'[t] = "asked"
          PROVE  dealMode'[r] = 0
      <4>1. t \notin {p, q}
        BY <2>1, <3>1
      <4>2. r \notin {p, q}
        BY <1>3, <2>3, <3>1, <4>1
      <4> QED BY <1>1, <2>2, <3>1, <4>1, <4>2 DEF Deals, Waits
    <3> QED BY <1>2, <1>7, <3>1 DEF Waits
  <2>7. Shows'
    <3>1. ASSUME NEW r \in Others, NEW t \in Others, partner[r] = t
          PROVE  /\ dealMode'[t] = dealMode'[r]
                 /\ dealMode'[r] = 1 => shown'[t] = [items |-> dealItem[r], zeny |-> dealZeny[r]]
      <4>1. CASE r \in {p, q}
        <5>1. t \in {p, q}
          BY <1>3, <2>3, <3>1, <4>1
        <5> QED BY <1>1, <1>4, <2>1, <4>1, <5>1 DEF Nothing
      <4>2. CASE r \notin {p, q}
        <5>1. t \notin {p, q}
          BY <1>1, <1>5, <3>1, <4>2
        <5> QED BY <1>1, <2>2, <3>1, <4>2, <5>1 DEF Deals, Shows
      <4> QED BY <4>1, <4>2
    <3> QED BY <1>2, <1>7, <3>1 DEF Shows
  <2> QED BY <2>4, <2>5, <2>6, <2>7 DEF Deals
<1>8. CASE /\ partner' = Both(partner, p, q, Nobody)
           /\ dealMode' = Both(dealMode, p, q, 0)
           /\ dealLocked' = Both(dealLocked, p, q, 0)
           /\ ui' = Both(ui, p, q, "none")
           /\ UNCHANGED <<dealItem, dealZeny, shown>>
  <2> HIDE DEF q
  <2>1. \A r \in Traders : r \in {p, q} =>
          partner'[r] = Nobody /\ dealMode'[r] = 0 /\ ui'[r] = "none"
    BY <1>8 DEF Both
  <2>2. \A r \in Traders : r \notin {p, q} =>
          partner'[r] = partner[r] /\ dealMode'[r] = dealMode[r] /\ ui'[r] = ui[r]
    BY <1>8 DEF Both
  <2>3. Mutual'
    BY <1>1, <1>2, <1>5, <2>1, <2>2 DEF Deals, Mutual, TradeTypeOK
  <2>4. Idle' /\ Windows'
    BY <1>1, <1>2, <1>4, <1>8, <2>1, <2>2 DEF Deals, Idle, Windows
  <2>5. Waits'
    <3>1. ASSUME NEW r \in Others, NEW t \in Traders,
                 partner'[r] = t, partner'[t] = r, ui'[t] = "asked"
          PROVE  dealMode'[r] = 0
      <4>1. r \notin {p, q} /\ t \notin {p, q}
        BY <1>1, <2>1, <3>1
      <4> QED BY <1>1, <2>2, <3>1, <4>1 DEF Deals, Waits
    <3> QED BY <1>2, <3>1 DEF Waits
  <2>6. Shows'
    <3>1. ASSUME NEW r \in Others, NEW t \in Others, partner'[r] = t
          PROVE  /\ dealMode'[t] = dealMode'[r]
                 /\ dealMode'[r] = 1 => shown[t] = [items |-> dealItem[r], zeny |-> dealZeny[r]]
      <4>1. r \notin {p, q}
        BY <1>1, <2>1, <3>1
      <4>2. partner[r] = t /\ t \notin {p, q}
        BY <1>1, <1>5, <2>2, <3>1, <4>1
      <4> QED BY <1>1, <2>2, <4>1, <4>2 DEF Deals, Shows
    <3> QED BY <1>2, <1>8, <3>1 DEF Shows
  <2>7. Away'
    BY <1>1, <1>2, <2>1, <2>2 DEF Deals, Away
  <2> QED BY <2>3, <2>4, <2>5, <2>6, <2>7 DEF Deals
<1> QED BY <1>6, <1>7, <1>8 DEF TradeAck

\* An offer is shown to the other side.
LEMMA OfferKeepsDeals ==
    ASSUME MarketInv, Deals, NEW p \in Traders, NEW n, OfferItem(p, n) \/ OfferZeny(p, n)
    PROVE  Deals'
<1> DEFINE q == partner[p]
           free == {s \in Slots : dealItem[p][s] = 0}
           slot == Min(free)
<1>1. TradeTypeOK /\ Nobody \notin Traders /\ Others \subseteq Traders
  BY MarketAssumption DEF MarketInv, MarketTypeOK, TradeTypeOK, Others
<1>2. /\ ui[p] = "window" /\ q \in Traders
      /\ UNCHANGED <<partner, dealMode, ui, vender, again>> /\ Others' = Others
  BY <1>1 DEF OfferItem, OfferZeny, TradeTypeOK, stall, asking, Others
<1>3. dealMode[p] = 1
  BY <1>2 DEF Deals, Windows
<1>4. q \in Others => \A r \in Traders : r # p => partner[r] # q
  BY DEF Deals, Mutual
<1>5. p \in Others /\ q \in Others
        => shown[q] = [items |-> dealItem[p], zeny |-> dealZeny[p]]
  BY <1>3 DEF Deals, Shows
<1> HIDE DEF q, slot
<1>6. /\ \A r \in Traders : r # p => dealItem'[r] = dealItem[r] /\ dealZeny'[r] = dealZeny[r]
      /\ \A r \in Traders : r # q => shown'[r] = shown[r]
      /\ p \in Others /\ q \in Others
           => shown'[q] = [items |-> dealItem'[p], zeny |-> dealZeny'[p]]
  <2>1. CASE OfferItem(p, n)
    <3>1. /\ dealItem' = [dealItem EXCEPT ![p][slot] = n]
          /\ shown' = [shown EXCEPT ![q].items[slot] = n]
          /\ dealZeny' = dealZeny
      BY <2>1 DEF OfferItem, q, slot
    <3>2. dealItem'[p] = [dealItem[p] EXCEPT ![slot] = n]
      BY <1>1, <3>1 DEF TradeTypeOK
    <3>3. shown'[q] = [shown[q] EXCEPT !.items[slot] = n]
      BY <1>1, <1>2, <3>1 DEF TradeTypeOK
    <3>4. p \in Others /\ q \in Others
            => shown'[q] = [items |-> [dealItem[p] EXCEPT ![slot] = n], zeny |-> dealZeny[p]]
      BY <1>5, <3>3
    <3>5. /\ \A r \in Traders : r # p => dealItem'[r] = dealItem[r]
          /\ \A r \in Traders : r # q => shown'[r] = shown[r]
      BY <1>1, <3>1 DEF TradeTypeOK
    <3> QED BY <3>1, <3>2, <3>4, <3>5
  <2>2. CASE OfferZeny(p, n)
    <3>1. /\ dealZeny' = [dealZeny EXCEPT ![p] = n]
          /\ shown' = [shown EXCEPT ![q].zeny = n]
          /\ dealItem' = dealItem
      BY <2>2 DEF OfferZeny, q
    <3> QED BY <1>1, <1>2, <1>5, <3>1 DEF TradeTypeOK
  <2> QED BY <2>1, <2>2
<1>7. Mutual' /\ Waits' /\ Windows' /\ Away'
  BY <1>2 DEF Deals, Mutual, Waits, Windows, Away
<1>8. Idle'
  BY <1>1, <1>2, <1>3, <1>6 DEF Deals, Idle
<1>9. Shows'
  <2>1. ASSUME NEW r \in Others, NEW t \in Others, partner[r] = t
        PROVE  /\ dealMode[t] = dealMode[r]
               /\ dealMode[r] = 1 => shown'[t] = [items |-> dealItem'[r], zeny |-> dealZeny'[r]]
    <3>1. CASE r = p
      BY <1>6, <2>1, <3>1 DEF Deals, Shows, q
    <3>2. CASE r # p
      <4>1. t # q
        BY <1>1, <1>4, <2>1, <3>2
      <4> QED BY <1>1, <1>6, <2>1, <3>2, <4>1 DEF Deals, Shows
    <3> QED BY <3>1, <3>2
  <2> QED BY <1>2, <2>1 DEF Shows
<1> QED BY <1>7, <1>8, <1>9 DEF Deals

LEMMA DealsStepKeeps ==
    ASSUME MarketInv, Deals, [MarketNext]_marketVars
    PROVE  Deals'
<1>1. ASSUME NEW p \in Traders, TradeCancel(p), again' = again,
             \A r \in Traders : r # p => vender'[r] = vender[r]
      PROVE  Deals'
  <2>1. Others' = Others /\ Others \subseteq Traders
    BY <1>1 DEF Others
  <2> QED BY <1>1, <2>1, CancelKeepsDeals DEF Deals, Away
<1>2. CASE UNCHANGED <<partner, dealMode, dealItem, dealZeny, ui, shown, vender, again>>
  BY <1>2 DEF Deals, Others, Mutual, Idle, Waits, Windows, Shows, Away
<1>3. ASSUME NEW p \in Traders, \/ TradeOk(p) \/ PressCancel(p) \/ TradeCommit(p)
      PROVE  Deals'
  <2>1. vender' = vender /\ again' = again
    BY <1>3 DEF TradeOk, PressCancel, TradeCommit, stall, asking
  <2>2. CASE TradeCancel(p)
    BY <1>1, <2>1, <2>2
  <2>3. CASE UNCHANGED <<partner, dealMode, dealItem, dealZeny, ui, shown>>
    BY <1>2, <2>1, <2>3
  <2> QED BY <1>3, <2>2, <2>3 DEF TradeOk, PressCancel, TradeCommit, Exchange
<1>4. ASSUME NEW p \in Traders, NEW n, NEW v, OpenVending(p, n, v)
      PROVE  Deals'
  <2>1. /\ vender' = [vender EXCEPT ![p] = TRUE] /\ again' = again
        /\ IF partner[p] = Nobody THEN UNCHANGED tradeVars ELSE TradeCancel(p)
    BY <1>4 DEF OpenVending, asking
  <2>2. \A r \in Traders : r # p => vender'[r] = vender[r]
    BY <2>1 DEF MarketInv, MarketTypeOK
  <2>3. CASE TradeCancel(p)
    BY <1>1, <2>1, <2>2, <2>3
  <2>4. CASE partner[p] = Nobody /\ UNCHANGED tradeVars
    BY <2>1, <2>2, <2>4 DEF tradeVars, Deals, Others, Mutual, Idle, Waits, Windows, Shows, Away
  <2> QED BY <2>1, <2>3, <2>4
<1>5. ASSUME NEW p \in Traders, NEW x, LeaveMap(p, x)
      PROVE  Deals'
  <2>1. /\ vender' = [vender EXCEPT ![p] = FALSE] /\ again' = again
        /\ IF partner[p] = Nobody THEN UNCHANGED tradeVars ELSE TradeCancel(p)
    BY <1>5 DEF LeaveMap, Close, asking
  <2>2. \A r \in Traders : r # p => vender'[r] = vender[r]
    BY <2>1 DEF MarketInv, MarketTypeOK
  <2>3. CASE TradeCancel(p)
    BY <1>1, <2>1, <2>2, <2>3
  <2>4. CASE partner[p] = Nobody /\ UNCHANGED tradeVars
    BY <2>1, <2>2, <2>4 DEF tradeVars, Deals, Others, Mutual, Idle, Waits, Windows, Shows, Away
  <2> QED BY <2>1, <2>3, <2>4
<1>6. ASSUME NEW p \in Traders, CloseVending(p)
      PROVE  Deals'
  BY <1>6 DEF CloseVending, Close, tradeVars, asking, MarketInv, MarketTypeOK,
              Deals, Others, Mutual, Idle, Waits, Windows, Shows, Away
<1>7. ASSUME NEW p \in Traders, NEW q \in Traders, TradeRequest(p, q)
      PROVE  Deals'
  BY <1>7, RequestKeepsDeals
<1>8. ASSUME NEW p \in Traders, NEW n, OfferItem(p, n) \/ OfferZeny(p, n)
      PROVE  Deals'
  BY <1>8, OfferKeepsDeals
<1>9. ASSUME NEW p \in Traders, TradeAck(p)
      PROVE  Deals'
  BY <1>9, AckKeepsDeals
<1>10. ASSUME NEW p \in Traders, NEW q, NEW n, NEW x,
              \/ VendingList(p, q) \/ Purchase(p, n) \/ PutInCart(p, n) \/ GetFromCart(p, n)
              \/ Walk(p, x) \/ KnockedBack(p, x) \/ Find(p) \/ Earn(p) \/ Spend(p)
       PROVE  Deals'
  <2>1. UNCHANGED <<tradeVars, vender, again>>
    BY <1>10 DEF VendingList, Purchase, PutInCart, GetFromCart, Walk, KnockedBack, Find,
                 Earn, Spend, stall, asking
  <2> QED BY <1>2, <2>1 DEF tradeVars
<1>11. CASE UNCHANGED marketVars
  BY <1>2, <1>11 DEF marketVars, stall, asking, tradeVars
<1> QED BY <1>3, <1>4, <1>5, <1>6, <1>7, <1>8, <1>9, <1>10, <1>11, Zenon DEF MarketNext

\* Of players who have not asked again, partners name each other and are in the same mode,
\* and each window shows what the other side offers, whatever the others do.
THEOREM DealsInvariance == MarketSpec => [](MarketInv /\ Deals)
<1>1. MarketInit => Deals
  BY MarketAssumption
     DEF MarketInit, Deals, Others, Mutual, Idle, Waits, Windows, Shows, Away
<1>2. MarketInv /\ Deals /\ [MarketNext]_marketVars => Deals'
  BY DealsStepKeeps
<1> QED BY <1>1, <1>2, MarketInvariance, PTL DEF MarketSpec

\* Whoever asks for a trade while another request is open spoils no trade but its own.
THEOREM PartnersAgreeHolds == MarketSpec => []PartnersAgree
<1>1. MarketInv /\ Deals => PartnersAgree
  <2> SUFFICES ASSUME MarketInv, Deals, NEW p \in Traders \ again, dealMode[p] = 1
               PROVE  /\ partner[p] # Nobody
                      /\ partner[p] \notin again =>
                            partner[partner[p]] = p /\ dealMode[partner[p]] = 1
    BY DEF PartnersAgree
  <2>1. p \in Others /\ partner[p] # Nobody
    BY DEF Deals, Idle, Others
  <2>2. partner[p] \notin again => partner[p] \in Others
    BY <2>1, MarketAssumption DEF MarketInv, MarketTypeOK, Others
  <2> QED BY <2>1, <2>2 DEF Deals, Mutual, Shows
<1> QED BY <1>1, DealsInvariance, PTL

\* Whoever has a stall is in no trade, and nobody waits for an answer from it, unless it
\* asked again itself.
THEOREM VendorNotTradingHolds == MarketSpec => []VendorNotTrading
<1>1. MarketInv /\ Deals => VendorNotTrading
  BY DEF Deals, Idle, Away, Others, VendorNotTrading
<1> QED BY <1>1, DealsInvariance, PTL

-----------------------------------------------------------------------------
(* What a trade gives *)

Given(p, q) ==
    Closes(p, q) =>
        /\ ZenyAsShown(p, q)
        /\ \/ ItemsAsShown(p, q)
           \/ \E r \in {p, q} : bag[r] + Items(shown[r]) > MaxWeight[r]

\* The exchange gives each side what its window shows, seen from the one that closes it
\* and from the other.
LEMMA ExchangeGives ==
    ASSUME MarketInv, Deals, NEW p \in Others, partner[p] \in Others, TradeCommit(p),
           partner'[p] = Nobody, <<bag, zeny>>' # <<bag, zeny>>
    PROVE  Given(p, partner[p]) /\ Given(partner[p], p)
<1> DEFINE q == partner[p]
<1>1. p \in Traders /\ q \in Traders /\ q # p /\ ui[p] = "window"
  BY DEF TradeCommit, MarketInv, NotOneself, Others
<1>2. TradeCheck(p, q) /\ ZenyCheck(p, q) /\ Exchange(p, q)
  BY DEF TradeCommit
<1>3. dealMode[p] = 1 /\ dealMode[q] = 1 /\ partner[q] = p
  <2>1. dealMode[p] = 1 /\ partner[q] = p
    BY <1>1 DEF Deals, Windows, Mutual
  <2>2. dealMode[q] = dealMode[p]
    BY DEF Deals, Shows
  <2> QED BY <2>1, <2>2
<1>4. /\ shown[q] = [items |-> dealItem[p], zeny |-> dealZeny[p]]
      /\ shown[p] = [items |-> dealItem[q], zeny |-> dealZeny[q]]
  BY <1>1, <1>3 DEF Deals, Shows
<1> HIDE DEF q
<1>5. /\ zeny[p] \in Nat /\ zeny[q] \in Nat /\ dealZeny[p] \in Nat /\ dealZeny[q] \in Nat
      /\ bag[p] \in Nat /\ bag[q] \in Nat /\ MaxWeight[p] \in Nat /\ MaxWeight[q] \in Nat
      /\ zeny \in [Traders -> Int] /\ bag \in [Traders -> Nat]
      /\ dealItem[p][1] \in Nat /\ dealItem[p][2] \in Nat
      /\ dealItem[q][1] \in Nat /\ dealItem[q][2] \in Nat
  BY <1>1, PursesAdd, MarketAssumption DEF MarketInv, MarketTypeOK, Slots
<1>6. /\ zeny'[p] = (zeny[p] - dealZeny[p]) + dealZeny[q]
      /\ zeny'[q] = (zeny[q] - dealZeny[q]) + dealZeny[p]
  BY <1>1, <1>2, <1>5 DEF Exchange
<1>7. ZenyAsShown(p, q) /\ ZenyAsShown(q, p)
  BY <1>4, <1>5, <1>6 DEF ZenyAsShown
<1>8. /\ Items(shown[p]) = dealItem[q][1] + dealItem[q][2]
      /\ Items(shown[q]) = dealItem[p][1] + dealItem[p][2]
  BY <1>4 DEF Items
<1>9. CASE bag[p] + Items(shown[p]) > MaxWeight[p] \/ bag[q] + Items(shown[q]) > MaxWeight[q]
  <2>1. \E r \in {p, q} : bag[r] + Items(shown[r]) > MaxWeight[r]
    BY <1>9
  <2> QED BY <1>7, <2>1 DEF Given, q
<1>10. CASE ~(bag[p] + Items(shown[p]) > MaxWeight[p] \/ bag[q] + Items(shown[q]) > MaxWeight[q])
  <2>1. /\ bag[q] + (dealItem[p][1] + dealItem[p][2]) <= MaxWeight[q]
        /\ bag[p] + (dealItem[q][1] + dealItem[q][2]) <= MaxWeight[p]
    BY <1>5, <1>8, <1>10
  <2>2. /\ bag'[p] = (bag[p] - (dealItem[p][1] + dealItem[p][2]))
                         + (dealItem[q][1] + dealItem[q][2])
        /\ bag'[q] = (bag[q] - (dealItem[q][1] + dealItem[q][2]))
                         + (dealItem[p][1] + dealItem[p][2])
    BY <1>1, <1>2, <2>1, ExchangeMoves
  <2>3. ItemsAsShown(p, q) /\ ItemsAsShown(q, p)
    BY <1>5, <1>8, <2>2 DEF ItemsAsShown
  <2> QED BY <1>7, <2>3 DEF Given, q
<1> QED BY <1>9, <1>10

LEMMA StepGives ==
    ASSUME MarketInv, Deals, [MarketNext]_marketVars, NEW p \in Others, NEW q \in Others
    PROVE  Given(p, q)
<1>1. SUFFICES ASSUME Closes(p, q) PROVE Given(p, q)
  BY DEF Given
<1>2. partner[p] = q /\ partner'[p] = Nobody /\ <<bag, zeny>>' # <<bag, zeny>>
      /\ q # Nobody /\ partner'[p] # partner[p] /\ p \in Traders /\ partner[q] = p
  BY <1>1, MarketAssumption DEF Closes, Others, Deals, Mutual
<1>3. PICK x \in Traders : TradeCommit(x)
  <2>1. ASSUME NEW x \in Traders, NEW n,
               \/ Find(x) \/ Earn(x) \/ Spend(x)
               \/ Purchase(x, n) \/ PutInCart(x, n) \/ GetFromCart(x, n)
        PROVE  partner' = partner
    BY <2>1 DEF Find, Earn, Spend, Purchase, PutInCart, GetFromCart, tradeVars
  <2>2. ASSUME NEW x \in Traders, Quiet(x)
        PROVE  UNCHANGED <<bag, zeny>>
    BY <2>2, QuietLeavesGoods DEF goods
  <2> QED BY <1>2, <2>1, <2>2, StepIsOneOf DEF goods
<1>4. Exchange(x, partner[x])
  BY <1>2, <1>3 DEF TradeCommit
<1>5. p \in {x, partner[x]} /\ partner'[x] = Nobody
  BY <1>2, <1>4 DEF Exchange, TradeCancel, Both
<1>6. \/ x = p /\ partner[x] = q
      \/ x = q /\ partner[x] = p
  BY <1>2, <1>5 DEF Deals, Mutual
<1>7. Given(x, partner[x]) /\ Given(partner[x], x)
  BY <1>2, <1>3, <1>5, <1>6, ExchangeGives
<1> QED BY <1>6, <1>7

\* A trade gives each side what its window showed, but for pieces one can no longer carry.
THEOREM GivenIfCarriedHolds == MarketSpec => GivenIfCarried
<1>1. MarketInv /\ Deals /\ [MarketNext]_marketVars
        => [\A p, q \in Traders \ again : Given(p, q)]_marketVars
  BY StepGives DEF Others
<1> QED BY <1>1, DealsInvariance, PTL DEF MarketSpec, GivenIfCarried, Given

-----------------------------------------------------------------------------
(* Mail: what is where *)

Draft == [zeny : Nat, item : Nat, amount : Nat]
Counts == [rates : Nat, store : Nat]
Post == [type : {"send"}, to : Whole, zeny : Nat, item : Nat]
        \cup [type : {"open"}, of : Writers]
        \cup [type : {"read", "fetch", "delete"}, of : Writers, num : Nat]
Parcel == [to : Writers, zeny : Nat, item : Nat]

\* MailTypeOK, part by part.
AtMapOK ==
    /\ present \in [Writers -> BOOLEAN]
    /\ pieces \in [Writers -> Nat] /\ purse \in [Writers -> Nat]
    /\ draft \in [Writers -> Draft]

AtCharOK ==
    /\ mailDb \in [Writers -> Counts]
    /\ mailFile \in [Writers -> Seq(Mails)]

LinksOK ==
    /\ posts \in Seq(Post) /\ Len(posts) <= MaxPosts
    /\ parcels \in Seq(Parcel)

CountersOK ==
    /\ letters \in 0..MaxLetters /\ asked \in 0..MaxAsked
    /\ mailCrashes \in 0..MaxMailCrashes

LEMMA MailTypeParts ==
    MailTypeOK <=> AtMapOK /\ AtCharOK /\ mailTxt \in [Writers -> Counts] /\ LinksOK /\ CountersOK
  BY DEF MailTypeOK, AtMapOK, AtCharOK, LinksOK, CountersOK, Draft, Counts, Post, Parcel

LEMMA MailTypesAfter ==
    ASSUME AtMapOK', AtCharOK', mailTxt' \in [Writers -> Counts], LinksOK', CountersOK'
    PROVE  MailTypeOK'
  BY DEF MailTypeOK, AtMapOK, AtCharOK, LinksOK, CountersOK, Draft, Counts, Post, Parcel

LEMMA BoundsAreNat ==
    /\ MaxLetters \in Nat /\ MaxPosts \in Nat /\ MaxAsked \in Nat /\ MaxMailCrashes \in Nat
    /\ FirstPieces \in Nat /\ FirstPurse \in Nat /\ MailStoreMax \in Nat \ {0}
    /\ Posters \subseteq Writers /\ Readers \subseteq Writers /\ IsFiniteSet(Writers)
  BY MailAssumption

LEMMA PostParts ==
    ASSUME NEW p \in Post
    PROVE  /\ p.type = "send" => p.to \in Whole /\ p.zeny \in Nat /\ p.item \in Nat
           /\ p.type \in {"open", "read", "fetch", "delete"} => p.of \in Writers
           /\ p.type \in {"read", "fetch", "delete"} => p.num \in Nat
  BY DEF Post

LEMMA PostsMade ==
    /\ \A to \in Whole, z, i \in Nat :
          [type |-> "send", to |-> to, zeny |-> z, item |-> i] \in Post
    /\ \A c \in Writers : [type |-> "open", of |-> c] \in Post
    /\ \A c \in Writers, t \in {"read", "fetch", "delete"}, n \in Nat :
          [type |-> t, of |-> c, num |-> n] \in Post
  BY DEF Post

LEMMA Posted ==
    ASSUME LinksOK, NEW p \in Post, Len(posts) < MaxPosts, posts' = Append(posts, p),
           parcels' = parcels
    PROVE  LinksOK'
<1>1. Append(posts, p) \in Seq(Post) /\ Len(Append(posts, p)) = Len(posts) + 1
      /\ Len(posts) \in Nat
  BY AppendProperties, LenProperties DEF LinksOK
<1> QED BY <1>1, BoundsAreNat DEF LinksOK

\* What a letter takes along: natural numbers, and no more than its sender has.
LEMMA AppendedTypes ==
    ASSUME AtMapOK, NEW c \in Writers, ~(~NotAffordable(c) /\ NotFound(c))
    PROVE  /\ Appended(c).zeny \in Nat /\ Appended(c).item \in Nat
           /\ Appended(c).zeny <= purse[c] /\ Appended(c).item <= pieces[c]
<1>1. /\ draft[c].zeny \in Nat /\ draft[c].amount \in Nat
      /\ purse[c] \in Nat /\ pieces[c] \in Nat
  BY DEF AtMapOK, Draft
<1>2. CASE NotAffordable(c)
  BY <1>1, <1>2 DEF Appended
<1>3. CASE ~NotAffordable(c)
  BY <1>1, <1>3 DEF Appended, NotAffordable, NotFound
<1> QED BY <1>2, <1>3

LEMMA DraftTypes ==
    /\ NoDraft \in Draft
    /\ \A d \in Draft :
          /\ d.zeny \in Nat /\ d.item \in Nat /\ d.amount \in Nat
          /\ Detached(d) \in Draft
          /\ \A k \in Nat : /\ [d EXCEPT !.zeny = k] \in Draft
                            /\ [d EXCEPT !.item = k] \in Draft
                            /\ \A n \in Nat : [d EXCEPT !.item = k, !.amount = n] \in Draft
  BY DEF NoDraft, Draft, Detached

-----------------------------------------------------------------------------
(* Types: the map server *)

\* A step that touches a draft only.
Drafts(c) ==
    /\ \E d \in Draft : draft' = [draft EXCEPT ![c] = d]
    /\ UNCHANGED <<pieces, purse, mailDb, mailTxt, mailFile, posts, parcels, letters, asked,
                   mailCrashes>>

LEMMA DraftsKeeps ==
    ASSUME MailTypeOK, NEW c \in Writers, Drafts(c), present' \in [Writers -> BOOLEAN]
    PROVE  MailTypeOK'
<1>1. AtMapOK'
  BY MailTypeParts DEF Drafts, AtMapOK
<1>2. AtCharOK' /\ mailTxt' \in [Writers -> Counts] /\ LinksOK' /\ CountersOK'
  BY MailTypeParts DEF Drafts, AtCharOK, LinksOK, CountersOK
<1> QED BY <1>1, <1>2, MailTypesAfter

LEMMA DraftSteps ==
    ASSUME MailTypeOK, NEW c \in Writers,
           \/ LeaveMail(c) \/ SendToSelf(c)
           \/ \E n \in Nat : AttachZeny(c, n) \/ AttachItem(c, n)
           \/ \E i, z \in BOOLEAN : MailWinOpen(c, i, z)
    PROVE  Drafts(c) /\ present' \in [Writers -> BOOLEAN]
<1>0. /\ present \in [Writers -> BOOLEAN] /\ draft[c] \in Draft
      /\ purse[c] \in Nat /\ pieces[c] \in Nat /\ draft \in [Writers -> Draft]
  BY MailTypeParts DEF AtMapOK
<1>1. CASE LeaveMail(c)
  <2>1. present' \in [Writers -> BOOLEAN]
    BY <1>0, <1>1 DEF LeaveMail
  <2>2. Drafts(c)
    BY <1>1, DraftTypes DEF LeaveMail, Drafts, atChar
  <2> QED BY <2>1, <2>2
<1>2. CASE SendToSelf(c)
  <2>1. Detached(draft[c]) \in Draft /\ draft' = [draft EXCEPT ![c] = Detached(draft[c])]
    BY <1>0, <1>2, DraftTypes DEF SendToSelf
  <2> QED BY <1>0, <1>2, <2>1 DEF SendToSelf, Drafts, atChar
<1>3. ASSUME NEW n \in Nat, AttachZeny(c, n)
      PROVE  Drafts(c) /\ present' \in [Writers -> BOOLEAN]
  <2>1. PICK k \in Nat : draft' = [draft EXCEPT ![c].zeny = k]
    <3>1. (IF purse[c] < n THEN purse[c] ELSE n) \in Nat
      BY <1>0
    <3> QED BY <1>3, <3>1 DEF AttachZeny
  <2>2. /\ draft' = [draft EXCEPT ![c] = [draft[c] EXCEPT !.zeny = k]]
        /\ [draft[c] EXCEPT !.zeny = k] \in Draft
    BY <1>0, <2>1, DraftTypes
  <2> QED BY <1>0, <1>3, <2>2 DEF AttachZeny, Drafts, atChar
<1>4. ASSUME NEW n \in Nat, AttachItem(c, n)
      PROVE  Drafts(c) /\ present' \in [Writers -> BOOLEAN]
  <2>1. PICK d \in Draft : draft' = [draft EXCEPT ![c] = d]
    <3>1. CASE draft[c].item > 0 /\ draft[c].item > n
      <4>0. draft[c].item \in Nat
        BY <1>0 DEF Draft
      <4>1. draft[c].item - n \in Nat
        BY <3>1, <4>0
      <4>2. [draft[c] EXCEPT !.item = draft[c].item - n] \in Draft
        BY <1>0, <4>1, DraftTypes
      <4>3. draft' = [draft EXCEPT ![c] = [draft[c] EXCEPT !.item = draft[c].item - n]]
        BY <1>4, <3>1 DEF AttachItem
      <4> QED BY <4>2, <4>3, Zenon
    <3>2. CASE ~(draft[c].item > 0 /\ draft[c].item > n) /\ pieces[c] >= n
      <4>1. [draft[c] EXCEPT !.item = pieces[c], !.amount = n] \in Draft
        BY <1>0, DraftTypes
      <4>2. draft' = [draft EXCEPT ![c] = [draft[c] EXCEPT !.item = pieces[c], !.amount = n]]
        BY <1>4, <3>2 DEF AttachItem
      <4> QED BY <4>1, <4>2, Zenon
    <3>3. CASE ~(draft[c].item > 0 /\ draft[c].item > n) /\ ~(pieces[c] >= n)
      <4>1. draft' = [draft EXCEPT ![c] = draft[c]]
        BY <1>4, <3>3 DEF AttachItem
      <4> QED BY <1>0, <4>1
    <3> QED BY <3>1, <3>2, <3>3
  <2> QED BY <1>0, <1>4, <2>1 DEF AttachItem, Drafts, atChar
<1>5. ASSUME NEW item \in BOOLEAN, NEW coins \in BOOLEAN, MailWinOpen(c, item, coins)
      PROVE  Drafts(c) /\ present' \in [Writers -> BOOLEAN]
  <2> DEFINE d == IF item THEN Detached(draft[c]) ELSE draft[c]
             e == IF coins THEN [d EXCEPT !.zeny = 0] ELSE d
  <2>1. d \in Draft
    BY <1>0, DraftTypes
  <2>2. draft' = [draft EXCEPT ![c] = e]
    BY <1>5 DEF MailWinOpen
  <2> HIDE DEF d
  <2>3. e \in Draft
    BY <2>1, DraftTypes
  <2> HIDE DEF e
  <2> QED BY <1>0, <1>5, <2>2, <2>3 DEF MailWinOpen, Drafts, atChar
<1> QED BY <1>1, <1>2, <1>3, <1>4, <1>5

\* What a letter does to the links and to its sender.
LEMMA SendFacts ==
    ASSUME MailTypeOK, NEW c \in Writers, NEW to \in Whole, SendMail(c, to)
    PROVE  \/ UNCHANGED <<pieces, purse, posts, letters>>
           \/ \E z, i \in Nat :
                 /\ z <= purse[c] /\ i <= pieces[c]
                 /\ letters < MaxLetters /\ letters' = letters + 1
                 /\ pieces' = [pieces EXCEPT ![c] = pieces[c] - i]
                 /\ purse' = [purse EXCEPT ![c] = purse[c] - z]
                 /\ Len(posts) < MaxPosts
                 /\ posts' = Append(posts, [type |-> "send", to |-> to, zeny |-> z, item |-> i])
<1>1. CASE ~NotAffordable(c) /\ NotFound(c)
  BY <1>1 DEF SendMail
<1>2. CASE ~(~NotAffordable(c) /\ NotFound(c))
  <2>1. /\ Appended(c).zeny \in Nat /\ Appended(c).item \in Nat
        /\ Appended(c).zeny <= purse[c] /\ Appended(c).item <= pieces[c]
    BY <1>2, AppendedTypes, MailTypeParts
  <2>2. /\ letters < MaxLetters /\ Len(posts) < MaxPosts
        /\ pieces' = [pieces EXCEPT ![c] = pieces[c] - Appended(c).item]
        /\ purse' = [purse EXCEPT ![c] = purse[c] - Appended(c).zeny]
        /\ posts' = Append(posts, [type |-> "send", to |-> to,
                                  zeny |-> Appended(c).zeny, item |-> Appended(c).item])
        /\ letters' = letters + 1
    BY <1>2 DEF SendMail
  <2> QED BY <2>1, <2>2, Zenon
<1> QED BY <1>1, <1>2

LEMMA SendKeeps ==
    ASSUME MailTypeOK, NEW c \in Writers, NEW to \in Whole, SendMail(c, to)
    PROVE  MailTypeOK'
<1>0. UNCHANGED <<present, mailDb, mailTxt, mailFile, parcels, asked, mailCrashes>>
  BY DEF SendMail, atChar
<1>1. draft' \in [Writers -> Draft]
  BY MailTypeParts, DraftTypes DEF SendMail, AtMapOK
<1>2. CASE UNCHANGED <<pieces, purse, posts, letters>>
  <2>1. AtMapOK' /\ AtCharOK' /\ mailTxt' \in [Writers -> Counts] /\ LinksOK' /\ CountersOK'
    BY <1>0, <1>1, <1>2, MailTypeParts DEF AtMapOK, AtCharOK, LinksOK, CountersOK
  <2> QED BY <2>1, MailTypesAfter
<1>3. ASSUME NEW z \in Nat, NEW i \in Nat, z <= purse[c], i <= pieces[c],
             letters < MaxLetters, letters' = letters + 1,
             pieces' = [pieces EXCEPT ![c] = pieces[c] - i],
             purse' = [purse EXCEPT ![c] = purse[c] - z],
             Len(posts) < MaxPosts,
             posts' = Append(posts, [type |-> "send", to |-> to, zeny |-> z, item |-> i])
      PROVE  MailTypeOK'
  <2>1. AtMapOK'
    <3>1. pieces[c] - i \in Nat /\ purse[c] - z \in Nat
      BY <1>3, MailTypeParts DEF AtMapOK
    <3> QED BY <1>0, <1>1, <1>3, <3>1, MailTypeParts DEF AtMapOK
  <2>2. LinksOK'
    <3>1. [type |-> "send", to |-> to, zeny |-> z, item |-> i] \in Post
      BY PostsMade
    <3> QED BY <1>0, <1>3, <3>1, Posted, MailTypeParts
  <2>3. CountersOK'
    BY <1>0, <1>3, BoundsAreNat, MailTypeParts DEF CountersOK
  <2>4. AtCharOK' /\ mailTxt' \in [Writers -> Counts]
    BY <1>0, MailTypeParts DEF AtCharOK
  <2> QED BY <2>1, <2>2, <2>3, <2>4, MailTypesAfter
<1> QED BY <1>2, <1>3, SendFacts

LEMMA AskKeeps ==
    ASSUME MailTypeOK, NEW c \in Writers,
           \/ RefleshMailBox(c)
           \/ \E t \in {"read", "fetch", "delete"}, n \in Nat : Ask(c, t, n)
    PROVE  MailTypeOK'
<1>1. UNCHANGED <<present, pieces, purse, draft, mailDb, mailTxt, mailFile, parcels, letters,
                  mailCrashes>>
  BY DEF RefleshMailBox, Ask, atMap, atChar
<1>2. PICK p \in Post : Len(posts) < MaxPosts /\ posts' = Append(posts, p)
  BY PostsMade DEF RefleshMailBox, Ask
<1>3. LinksOK'
  BY <1>1, <1>2, Posted, MailTypeParts
<1>4. CountersOK'
  <2>1. asked' = asked \/ (asked < MaxAsked /\ asked' = asked + 1)
    BY DEF RefleshMailBox, Ask
  <2> QED BY <1>1, <2>1, BoundsAreNat, MailTypeParts DEF CountersOK
<1>5. AtMapOK' /\ AtCharOK' /\ mailTxt' \in [Writers -> Counts]
  BY <1>1, MailTypeParts DEF AtMapOK, AtCharOK
<1> QED BY <1>3, <1>4, <1>5, MailTypesAfter

LEMMA GiveKeeps ==
    ASSUME MailTypeOK, NEW c \in Writers, NEW d \in Writers, Give(c, d)
    PROVE  MailTypeOK'
<1>1. UNCHANGED <<present, draft, mailDb, mailTxt, mailFile, posts, parcels, letters, asked,
                  mailCrashes>>
  BY DEF Give, atChar
<1>2. AtMapOK'
  BY <1>1, MailTypeParts DEF Give, AtMapOK
<1>3. AtCharOK' /\ mailTxt' \in [Writers -> Counts] /\ LinksOK' /\ CountersOK'
  BY <1>1, MailTypeParts DEF AtCharOK, LinksOK, CountersOK
<1> QED BY <1>2, <1>3, MailTypesAfter

\* What comes back may be carried or not.
LEMMA ParcelKeeps ==
    ASSUME MailTypeOK, RecvMailGetAppend
    PROVE  MailTypeOK'
<1>1. UNCHANGED <<present, draft, mailDb, mailTxt, mailFile, posts, letters, asked, mailCrashes>>
  BY DEF RecvMailGetAppend, atChar
<1>2. parcels # <<>> /\ parcels' = Tail(parcels) /\ parcels \in Seq(Parcel)
  BY MailTypeParts DEF RecvMailGetAppend, LinksOK
<1>3. Head(parcels) \in Parcel /\ Tail(parcels) \in Seq(Parcel)
  BY <1>2, HeadTailProperties, EmptySeq
<1>4. LinksOK'
  BY <1>1, <1>2, <1>3, MailTypeParts DEF LinksOK
<1> DEFINE p == Head(parcels)
<1>5. p.to \in Writers /\ p.zeny \in Nat /\ p.item \in Nat
  BY <1>3 DEF Parcel
<1>6. AtMapOK'
  <2>1. CASE UNCHANGED <<purse, pieces>>
    BY <1>1, <2>1, MailTypeParts DEF AtMapOK
  <2>2. CASE ~UNCHANGED <<purse, pieces>>
    <3>1. /\ purse' = [purse EXCEPT ![p.to] = purse[p.to] + p.zeny]
          /\ \E got \in {0, p.item} : pieces' = [pieces EXCEPT ![p.to] = pieces[p.to] + got]
      BY <2>2 DEF RecvMailGetAppend
    <3> HIDE DEF p
    <3>2. purse \in [Writers -> Nat] /\ pieces \in [Writers -> Nat]
      BY MailTypeParts DEF AtMapOK
    <3>3. purse' \in [Writers -> Nat] /\ pieces' \in [Writers -> Nat]
      BY <1>5, <3>1, <3>2
    <3> QED BY <1>1, <3>3, MailTypeParts DEF AtMapOK
  <2> QED BY <2>1, <2>2
<1>7. AtCharOK' /\ mailTxt' \in [Writers -> Counts] /\ CountersOK'
  BY <1>1, MailTypeParts DEF AtCharOK, CountersOK
<1> QED BY <1>4, <1>6, <1>7, MailTypesAfter

-----------------------------------------------------------------------------
(* Types: the char server *)

LEMMA MailParts ==
    \A x \in Mails : /\ x.num \in Nat /\ x.zeny \in Nat /\ x.item \in Nat /\ x.read \in BOOLEAN
                     /\ [x EXCEPT !.read = TRUE] \in Mails
                     /\ [x EXCEPT !.zeny = 0, !.item = 0] \in Mails
  BY DEF Mails

LEMMA CountParts ==
    /\ \A m \in Counts : m.rates \in Nat /\ m.store \in Nat
    /\ \A r, s \in Nat : [store |-> s, rates |-> r] \in Counts
  BY DEF Counts

LEMMA LinesTypes ==
    ASSUME AtCharOK, NEW c \in Writers
    PROVE  /\ Lines(c) \in Seq(Mails)
           /\ Counted(c) \in Counts
<1>1. mailFile[c] \in Seq(Mails) /\ mailDb[c] \in Counts
  BY DEF AtCharOK
<1>2. mailDb[c].store \in Nat /\ mailDb[c].rates \in Nat
  BY <1>1, CountParts
<1> DEFINE F == mailFile[c]
           k == LessOf(Len(F), LessOf(mailDb[c].store, MailStoreMax))
<1>3. Len(F) \in Nat /\ \A i \in 1..Len(F) : F[i] \in Mails
  BY <1>1, LenProperties
<1>4. k \in Nat /\ k <= Len(F)
  BY <1>2, <1>3, BoundsAreNat DEF LessOf
<1>5. Lines(c) = SubSeq(F, 1, k)
  BY DEF Lines
<1>6. \A i \in 1..k : F[i] \in Mails
  BY <1>3, <1>4
<1> HIDE DEF F, k
<1>7. Lines(c) \in Seq(Mails)
  BY <1>4, <1>5, <1>6, SubSeqProperties
<1>8. Counted(c) \in Counts
  <2> DEFINE L == Lines(c)
  <2>1. Len(L) \in Nat /\ \A i \in 1..Len(L) : L[i].num \in Nat
    BY <1>7, LenProperties, MailParts
  <2>2. Counted(c) = IF L = <<>> \/ Len(L) = mailDb[c].store THEN mailDb[c]
                     ELSE [store |-> Len(L),
                           rates |-> IF Len(L) > 1 THEN MoreOf(mailDb[c].rates, L[Len(L)].num)
                                     ELSE mailDb[c].rates]
    BY DEF Counted
  <2> HIDE DEF L
  <2>3. Len(L) > 1 => MoreOf(mailDb[c].rates, L[Len(L)].num) \in Nat
    BY <1>2, <2>1 DEF MoreOf
  <2> QED BY <1>1, <1>2, <2>1, <2>2, <2>3, CountParts
<1> QED BY <1>7, <1>8

LEMMA RecountedTypes ==
    ASSUME NEW m \in Counts, NEW L \in Seq(Mails), L # <<>>
    PROVE  Recounted(m, L) \in Counts /\ Recounted(m, L).store \in Nat \ {0}
<1>1. Len(L) \in Nat \ {0} /\ L[Len(L)] \in Mails
  BY LenProperties, EmptySeq
<1>2. MoreOf(m.rates, L[Len(L)].num) \in Nat
  BY <1>1, CountParts, MailParts DEF MoreOf
<1> QED BY <1>1, <1>2, CountParts DEF Recounted

LEMMA CharAfter ==
    ASSUME AtCharOK, NEW c \in Writers, NEW m \in Counts, mailDb' = [mailDb EXCEPT ![c] = m],
           \/ UNCHANGED mailFile
           \/ \E L \in Seq(Mails) : mailFile' = [mailFile EXCEPT ![c] = L]
    PROVE  AtCharOK'
  BY DEF AtCharOK

LEMMA SaveMailTypes ==
    ASSUME AtCharOK, NEW c \in Writers, NEW L \in Seq(Mails), SaveMail(c, L)
    PROVE  AtCharOK'
<1>1. Counted(c) \in Counts
  BY LinesTypes
<1>2. CASE mailFile' = [mailFile EXCEPT ![c] = L] /\ mailDb' = [mailDb EXCEPT ![c] = Counted(c)]
  BY <1>1, <1>2, CharAfter
<1>3. ASSUME NEW x \in Leftovers, mailFile' = [mailFile EXCEPT ![c] = Append(L, x)],
             mailDb' = [mailDb EXCEPT ![c] = Recounted(Counted(c), Append(L, x))]
      PROVE  AtCharOK'
  <2>1. x \in Mails
    <3>1. PICK d \in Writers : \E i \in 1..Len(mailFile[d]) : x = mailFile[d][i]
      BY DEF Leftovers
    <3>2. mailFile[d] \in Seq(Mails)
      BY DEF AtCharOK
    <3> QED BY <3>1, <3>2, LenProperties
  <2>2. Append(L, x) \in Seq(Mails) /\ Append(L, x) # <<>>
    BY <2>1, AppendProperties
  <2>3. Recounted(Counted(c), Append(L, x)) \in Counts
    BY <1>1, <2>2, RecountedTypes
  <2> QED BY <1>3, <2>2, <2>3, CharAfter
<1> QED BY <1>2, <1>3 DEF SaveMail

LEMMA FirstLine ==
    ASSUME NEW L \in Seq(Mails), NEW num, LinesOf(L, num) # {}
    PROVE  /\ FirstLineOf(L, num) \in 1..Len(L)
           /\ L # <<>>
<1>1. LinesOf(L, num) \in SUBSET Nat /\ LinesOf(L, num) \subseteq 1..Len(L) /\ Len(L) \in Nat
  BY LenProperties DEF LinesOf
<1>2. \E i \in LinesOf(L, num) : \A j \in LinesOf(L, num) : i <= j
  BY <1>1, LeastExists
<1>3. FirstLineOf(L, num) \in LinesOf(L, num)
  BY <1>2 DEF FirstLineOf
<1> QED BY <1>1, <1>3, EmptySeq

\* The mails that are kept are mails that were there.
LEMMA DeletedTypes ==
    ASSUME NEW L \in Seq(Mails), NEW num
    PROVE  Deleted(L, num) \in Seq(Mails) /\ Len(Deleted(L, num)) = Len(L)
<1> DEFINE from(i) == {j \in KeptUpTo(L, num, Len(L)) : Cardinality(KeptUpTo(L, num, j)) = i}
           e(i) == IF from(i) = {} THEN L[i] ELSE L[CHOOSE j \in from(i) : TRUE]
<1>1. Len(L) \in Nat /\ \A i \in 1..Len(L) : L[i] \in Mails
  BY LenProperties
<1>2. ASSUME NEW i \in 1..Len(L) PROVE e(i) \in Mails
  <2>1. from(i) \subseteq 1..Len(L)
    BY DEF KeptUpTo
  <2>2. from(i) # {} => (CHOOSE j \in from(i) : TRUE) \in from(i)
    OBVIOUS
  <2> HIDE DEF from
  <2> QED BY <1>1, <2>1, <2>2
<1>3. Deleted(L, num) = [i \in 1..Len(L) |-> e(i)]
  BY DEF Deleted
<1> HIDE DEF e
<1>4. [i \in 1..Len(L) |-> e(i)] \in [1..Len(L) -> Mails]
  BY <1>2
<1> QED BY <1>1, <1>3, <1>4

LEMMA Received ==
    ASSUME LinksOK, posts # <<>>, posts' = Tail(posts),
           \/ UNCHANGED parcels
           \/ \E x \in Parcel : parcels' = Append(parcels, x)
    PROVE  LinksOK' /\ Head(posts) \in Post
<1>1. Head(posts) \in Post /\ Tail(posts) \in Seq(Post) /\ Len(Tail(posts)) = Len(posts) - 1
  BY HeadTailProperties DEF LinksOK
<1>2. Len(posts) \in Nat
  BY LenProperties DEF LinksOK
<1>3. parcels' \in Seq(Parcel)
  BY AppendProperties DEF LinksOK
<1> QED BY <1>1, <1>2, <1>3, BoundsAreNat DEF LinksOK

\* Only the number of the lines is put right.
LEMMA CountedKeeps ==
    ASSUME AtCharOK, NEW c \in Writers, mailDb' = [mailDb EXCEPT ![c] = Counted(c)],
           UNCHANGED mailFile
    PROVE  AtCharOK'
  BY LinesTypes, CharAfter

LEMMA SentArrives ==
    ASSUME AtCharOK, NEW p \in Post, p.type = "send", RecvSendMail(p)
    PROVE  AtCharOK'
<1>1. p.to \in Whole /\ p.zeny \in Nat /\ p.item \in Nat
  BY PostParts
<1>2. CASE p.to = Stranger
  BY <1>2 DEF RecvSendMail, AtCharOK
<1>3. CASE p.to # Stranger
  <2>1. p.to \in Writers
    BY <1>1, <1>3 DEF Whole
  <2> DEFINE x == [num |-> mailDb[p.to].rates + 1, read |-> FALSE, zeny |-> p.zeny, item |-> p.item]
             m == [rates |-> mailDb[p.to].rates + 1, store |-> mailDb[p.to].store + 1]
  <2>2. mailDb[p.to].rates \in Nat /\ mailDb[p.to].store \in Nat /\ mailFile[p.to] \in Seq(Mails)
    BY <2>1, CountParts DEF AtCharOK
  <2>3. x \in Mails /\ m \in Counts
    BY <1>1, <2>2 DEF Mails, Counts
  <2>4. /\ mailDb' = [mailDb EXCEPT ![p.to] = m]
        /\ mailFile' = [mailFile EXCEPT ![p.to] = Append(mailFile[p.to], x)]
    BY <1>3 DEF RecvSendMail
  <2> HIDE DEF x, m
  <2>5. Append(mailFile[p.to], x) \in Seq(Mails)
    BY <2>2, <2>3, AppendProperties
  <2> QED BY <2>1, <2>3, <2>4, <2>5, CharAfter
<1> QED BY <1>2, <1>3

LEMMA ReadArrives ==
    ASSUME AtCharOK, NEW p \in Post, p.type = "read", RecvReadMail(p)
    PROVE  AtCharOK'
<1> DEFINE L == Lines(p.of)
           i == FirstLineOf(L, p.num)
<1>1. p.of \in Writers /\ L \in Seq(Mails)
  BY PostParts, LinesTypes
<1>2. CASE LinesOf(L, p.num) # {} /\ ~L[i].read
  <2>1. i \in 1..Len(L)
    BY <1>1, <1>2, FirstLine
  <2>2. SaveMail(p.of, [L EXCEPT ![i].read = TRUE])
    BY <1>2 DEF RecvReadMail
  <2> HIDE DEF L, i
  <2>3. [L EXCEPT ![i].read = TRUE] = [L EXCEPT ![i] = [L[i] EXCEPT !.read = TRUE]]
    OBVIOUS
  <2>4. [L[i] EXCEPT !.read = TRUE] \in Mails
    BY <1>1, <2>1, LenProperties, MailParts
  <2>5. [L EXCEPT ![i].read = TRUE] \in Seq(Mails)
    BY <1>1, <2>1, <2>3, <2>4, ExceptSeq
  <2> QED BY <1>1, <2>2, <2>5, SaveMailTypes
<1>3. CASE ~(LinesOf(L, p.num) # {} /\ ~L[i].read)
  <2>1. mailDb' = [mailDb EXCEPT ![p.of] = Counted(p.of)] /\ UNCHANGED mailFile
    BY <1>3 DEF RecvReadMail
  <2> QED BY <1>1, <2>1, CountedKeeps
<1> QED BY <1>2, <1>3

LEMMA FetchArrives ==
    ASSUME AtCharOK, NEW p \in Post, p.type = "fetch", RecvGetAppend(p)
    PROVE  /\ AtCharOK'
           /\ UNCHANGED parcels \/ \E x \in Parcel : parcels' = Append(parcels, x)
<1> DEFINE L == Lines(p.of)
           i == FirstLineOf(L, p.num)
<1>1. p.of \in Writers /\ L \in Seq(Mails)
  BY PostParts, LinesTypes
<1>2. CASE LinesOf(L, p.num) # {} /\ (L[i].item > 0 \/ L[i].zeny > 0)
  <2>1. i \in 1..Len(L)
    BY <1>1, <1>2, FirstLine
  <2>2. /\ SaveMail(p.of, [L EXCEPT ![i].zeny = 0, ![i].item = 0])
        /\ parcels' = Append(parcels, [to |-> p.of, zeny |-> L[i].zeny, item |-> L[i].item])
    BY <1>2 DEF RecvGetAppend
  <2> HIDE DEF L, i
  <2>3. L[i] \in Mails /\ L \in [1..Len(L) -> Mails]
    BY <1>1, <2>1, LenProperties
  <2>4. [L EXCEPT ![i].zeny = 0, ![i].item = 0]
           = [L EXCEPT ![i] = [L[i] EXCEPT !.zeny = 0, !.item = 0]]
    BY <2>1, <2>3
  <2>5. [L[i] EXCEPT !.zeny = 0, !.item = 0] \in Mails
    BY <2>3, MailParts
  <2>6. [L EXCEPT ![i].zeny = 0, ![i].item = 0] \in Seq(Mails)
    BY <1>1, <2>1, <2>4, <2>5, ExceptSeq
  <2>7. [to |-> p.of, zeny |-> L[i].zeny, item |-> L[i].item] \in Parcel
    BY <1>1, <2>3, MailParts DEF Parcel
  <2> QED BY <1>1, <2>2, <2>6, <2>7, SaveMailTypes
<1>3. CASE ~(LinesOf(L, p.num) # {} /\ (L[i].item > 0 \/ L[i].zeny > 0))
  <2>1. mailDb' = [mailDb EXCEPT ![p.of] = Counted(p.of)] /\ UNCHANGED <<mailFile, parcels>>
    BY <1>3 DEF RecvGetAppend
  <2> QED BY <1>1, <2>1, CountedKeeps
<1> QED BY <1>2, <1>3

LEMMA DeleteArrives ==
    ASSUME AtCharOK, NEW p \in Post, p.type = "delete", RecvDeleteMail(p)
    PROVE  AtCharOK'
<1> DEFINE L == Lines(p.of)
           D == Deleted(L, p.num)
<1>1. p.of \in Writers /\ L \in Seq(Mails) /\ Counted(p.of) \in Counts
  BY PostParts, LinesTypes
<1>2. CASE LinesOf(L, p.num) # {}
  <2>1. L # <<>>
    BY <1>1, <1>2, FirstLine
  <2>2. /\ mailFile' = [mailFile EXCEPT ![p.of] = D]
        /\ mailDb' = [mailDb EXCEPT ![p.of] = [Recounted(Counted(p.of), D) EXCEPT
                         !.store = Recounted(Counted(p.of), D).store - 1]]
    BY <1>2 DEF RecvDeleteMail
  <2>3. D \in Seq(Mails) /\ Len(D) = Len(L)
    BY <1>1, DeletedTypes
  <2> HIDE DEF L, D
  <2>4. D # <<>>
    BY <1>1, <2>1, <2>3, EmptySeq
  <2> DEFINE m == Recounted(Counted(p.of), D)
  <2>5. m \in Counts /\ m.store \in Nat \ {0}
    BY <1>1, <2>3, <2>4, RecountedTypes
  <2>6. [m EXCEPT !.store = m.store - 1] \in Counts
    <3>1. m.store - 1 \in Nat
      BY <2>5
    <3> HIDE DEF m
    <3> QED BY <2>5, <3>1 DEF Counts
  <2> QED BY <1>1, <2>2, <2>3, <2>6, CharAfter
<1>3. CASE ~(LinesOf(L, p.num) # {})
  <2>1. mailDb' = [mailDb EXCEPT ![p.of] = Counted(p.of)] /\ UNCHANGED mailFile
    BY <1>3 DEF RecvDeleteMail
  <2> QED BY <1>1, <2>1, CountedKeeps
<1> QED BY <1>2, <1>3

LEMMA PostKeeps ==
    ASSUME MailTypeOK, RecvPost
    PROVE  MailTypeOK'
<1> DEFINE p == Head(posts)
<1>0. AtCharOK /\ LinksOK
  BY MailTypeParts
<1>1. posts # <<>> /\ posts' = Tail(posts)
      /\ UNCHANGED <<present, pieces, purse, draft, mailTxt, letters, asked, mailCrashes>>
  BY DEF RecvPost, atMap
<1>2. p \in Post
  BY <1>0, <1>1, HeadTailProperties DEF LinksOK
<1>3. AtCharOK' /\ (UNCHANGED parcels \/ \E x \in Parcel : parcels' = Append(parcels, x))
  <2>1. CASE p.type = "send" /\ RecvSendMail(p) /\ UNCHANGED parcels
    BY <1>0, <1>2, <2>1, SentArrives
  <2>2. CASE /\ p.type = "open" /\ mailDb' = [mailDb EXCEPT ![p.of] = Counted(p.of)]
             /\ UNCHANGED <<mailFile, parcels>>
    <3>1. p.of \in Writers
      BY <1>2, <2>2, PostParts
    <3> QED BY <1>0, <2>2, <3>1, CountedKeeps
  <2>3. CASE p.type = "read" /\ RecvReadMail(p) /\ UNCHANGED parcels
    BY <1>0, <1>2, <2>3, ReadArrives
  <2>4. CASE p.type = "fetch" /\ RecvGetAppend(p)
    BY <1>0, <1>2, <2>4, FetchArrives
  <2>5. CASE p.type = "delete" /\ RecvDeleteMail(p) /\ UNCHANGED parcels
    BY <1>0, <1>2, <2>5, DeleteArrives
  <2> QED BY <2>1, <2>2, <2>3, <2>4, <2>5 DEF RecvPost
<1>4. LinksOK'
  BY <1>0, <1>1, <1>3, Received
<1>5. AtMapOK' /\ mailTxt' \in [Writers -> Counts] /\ CountersOK'
  BY <1>1, MailTypeParts DEF AtMapOK, CountersOK
<1> QED BY <1>3, <1>4, <1>5, MailTypesAfter

LEMMA CrashKeeps ==
    ASSUME MailTypeOK, MailCrash
    PROVE  MailTypeOK'
<1>1. AtMapOK'
  BY MailTypeParts, DraftTypes DEF MailCrash, AtMapOK
<1>2. AtCharOK' /\ mailTxt' \in [Writers -> Counts]
  BY MailTypeParts DEF MailCrash, AtCharOK
<1>3. LinksOK'
  BY BoundsAreNat DEF MailCrash, LinksOK
<1>4. CountersOK'
  BY MailTypeParts, BoundsAreNat DEF MailCrash, CountersOK
<1> QED BY <1>1, <1>2, <1>3, <1>4, MailTypesAfter

-----------------------------------------------------------------------------

LEMMA MailInitTypes == MailInit => MailTypeOK
<1> SUFFICES ASSUME MailInit PROVE MailTypeOK
  OBVIOUS
<1>1. AtMapOK
  BY BoundsAreNat, DraftTypes DEF MailInit, AtMapOK
<1>2. AtCharOK /\ mailTxt \in [Writers -> Counts]
  BY DEF MailInit, AtCharOK, NoMails, Counts
<1>3. LinksOK
  BY BoundsAreNat DEF MailInit, LinksOK
<1>4. CountersOK
  BY BoundsAreNat DEF MailInit, CountersOK
<1> QED BY <1>1, <1>2, <1>3, <1>4, MailTypeParts

LEMMA MailTypeStep == MailTypeOK /\ [MailNext]_mailVars => MailTypeOK'
<1> SUFFICES ASSUME MailTypeOK, [MailNext]_mailVars PROVE MailTypeOK'
  OBVIOUS
<1>0. Readers \cup {Stranger} \subseteq Whole
  BY BoundsAreNat DEF Whole
<1>1. ASSUME NEW c \in Writers, EnterMail(c) PROVE MailTypeOK'
  <2>1. present' \in [Writers -> BOOLEAN]
    BY <1>1, MailTypeParts DEF EnterMail, AtMapOK
  <2>2. UNCHANGED <<pieces, purse, draft, mailDb, mailTxt, mailFile, posts, parcels, letters,
                    asked, mailCrashes>>
    BY <1>1 DEF EnterMail, atChar
  <2>3. AtMapOK' /\ AtCharOK' /\ mailTxt' \in [Writers -> Counts] /\ LinksOK' /\ CountersOK'
    BY <2>1, <2>2, MailTypeParts DEF AtMapOK, AtCharOK, LinksOK, CountersOK
  <2> QED BY <2>3, MailTypesAfter
<1>2. ASSUME NEW c \in Writers, NEW d \in Writers, Give(c, d) PROVE MailTypeOK'
  BY <1>2, GiveKeeps
<1>3. ASSUME NEW c \in Writers,
             \/ LeaveMail(c) \/ SendToSelf(c)
             \/ \E n \in Nat : AttachZeny(c, n) \/ AttachItem(c, n)
             \/ \E i, z \in BOOLEAN : MailWinOpen(c, i, z)
      PROVE  MailTypeOK'
  BY <1>3, DraftSteps, DraftsKeeps
<1>4. ASSUME NEW c \in Posters, NEW to \in Readers \cup {Stranger}, SendMail(c, to)
      PROVE  MailTypeOK'
  BY <1>0, <1>4, BoundsAreNat, SendKeeps
<1>5. ASSUME NEW c \in Readers,
             \/ RefleshMailBox(c)
             \/ \E type \in {"read", "fetch", "delete"}, n \in 1..MaxLetters : Ask(c, type, n)
      PROVE  MailTypeOK'
  BY <1>5, BoundsAreNat, AskKeeps
<1>6. CASE RecvMailGetAppend
  BY <1>6, ParcelKeeps
<1>7. CASE RecvPost
  BY <1>7, PostKeeps
<1>8. CASE MailSync
  <2>1. UNCHANGED <<present, pieces, purse, draft, mailDb, mailFile, posts, parcels, letters,
                    asked, mailCrashes>> /\ mailTxt' = mailDb
    BY <1>8 DEF MailSync, atMap
  <2>2. AtMapOK' /\ AtCharOK' /\ mailTxt' \in [Writers -> Counts] /\ LinksOK' /\ CountersOK'
    BY <2>1, MailTypeParts DEF AtMapOK, AtCharOK, LinksOK, CountersOK
  <2> QED BY <2>2, MailTypesAfter
<1>9. CASE MailCrash
  BY <1>9, CrashKeeps
<1>10. CASE UNCHANGED mailVars
  <2>1. AtMapOK' /\ AtCharOK' /\ mailTxt' \in [Writers -> Counts] /\ LinksOK' /\ CountersOK'
    BY <1>10, MailTypeParts
       DEF mailVars, atMap, atChar, AtMapOK, AtCharOK, LinksOK, CountersOK
  <2> QED BY <2>1, MailTypesAfter
<1>11. ASSUME NEW c \in Posters,
              \/ SendToSelf(c)
              \/ \E n \in 0..(FirstPurse * 2) : AttachZeny(c, n)
              \/ \E n \in 0..(FirstPieces * 2) : AttachItem(c, n)
              \/ \E i, z \in BOOLEAN : MailWinOpen(c, i, z)
       PROVE  MailTypeOK'
  <2>1. /\ 0..(FirstPurse * 2) \subseteq Nat /\ 0..(FirstPieces * 2) \subseteq Nat
        /\ c \in Writers
    BY BoundsAreNat
  <2> QED BY <1>3, <1>11, <2>1
<1>12. CASE MailNext
  BY <1>1, <1>2, <1>3, <1>4, <1>5, <1>6, <1>7, <1>8, <1>9, <1>11, <1>12, Zenon DEF MailNext
<1> QED BY <1>10, <1>12

\* The type invariant, for every set of characters and every bound.
THEOREM MailTypeCorrect == MailSpec => []MailTypeOK
<1>1. MailInit => MailTypeOK
  BY MailInitTypes
<1>2. MailTypeOK /\ [MailNext]_mailVars => MailTypeOK'
  BY MailTypeStep
<1> QED BY <1>1, <1>2, PTL DEF MailSpec

-----------------------------------------------------------------------------
(* What a letter takes along has left its sender *)

LEMMA AddUpIsSum ==
    ASSUME NEW T, NEW f \in [T -> Int]
    PROVE  AddUp(f) = SumOver(f, T)
<1>1. DOMAIN f = T
  OBVIOUS
<1> QED BY <1>1 DEF AddUp, SumOver

\* What is attached to the requests, as functions of their places.
LEMMA PostsAmounts ==
    ASSUME NEW s \in Seq(Post)
    PROVE  /\ PiecesIn(s) \in [1..Len(s) -> Int] /\ ZenyIn(s) \in [1..Len(s) -> Int]
           /\ \A i \in 1..Len(s) :
                 /\ PiecesIn(s)[i] = IF s[i].type = "send" THEN s[i].item ELSE 0
                 /\ ZenyIn(s)[i] = IF s[i].type = "send" THEN s[i].zeny ELSE 0
<1>1. DOMAIN s = 1..Len(s) /\ \A i \in 1..Len(s) : s[i] \in Post
  BY LenProperties
<1>2. \A i \in 1..Len(s) : s[i].type = "send" => s[i].item \in Int /\ s[i].zeny \in Int
  BY <1>1, PostParts
<1> QED BY <1>1, <1>2 DEF PiecesIn, ZenyIn

\* One more place adds what is there.
LEMMA AddUpLonger ==
    ASSUME NEW n \in Nat, NEW f \in [1..(n + 1) -> Int], NEW g \in [1..n -> Int],
           \A i \in 1..n : g[i] = f[i]
    PROVE  AddUp(f) = f[n + 1] + AddUp(g)
<1> DEFINE a == n + 1
           T == 1..a
<1>1. a \in T /\ T \ {a} = 1..n
  OBVIOUS
<1>2. IsFiniteSet(T)
  BY FS_Interval
<1>3. f \in [T -> Int] /\ f[n + 1] = f[a]
  OBVIOUS
<1> HIDE DEF a, T
<1>4. g \in [T \ {a} -> Int] /\ \A i \in T \ {a} : f[i] = g[i]
  BY <1>1
<1>5. SumOver(f, T) = f[a] + SumOver(g, T \ {a})
  BY <1>1, <1>2, <1>3, <1>4, SumWithout
<1>6. AddUp(f) = SumOver(f, T) /\ AddUp(g) = SumOver(g, T \ {a})
  BY <1>3, <1>4, AddUpIsSum
<1> QED BY <1>3, <1>5, <1>6

\* A request at the end adds what is attached to it.
LEMMA OneMorePost ==
    ASSUME NEW s \in Seq(Post), NEW p \in Post
    PROVE  /\ AddUp(PiecesIn(Append(s, p)))
                 = (IF p.type = "send" THEN p.item ELSE 0) + AddUp(PiecesIn(s))
           /\ AddUp(ZenyIn(Append(s, p)))
                 = (IF p.type = "send" THEN p.zeny ELSE 0) + AddUp(ZenyIn(s))
<1> DEFINE t == Append(s, p)
           n == Len(s)
<1>1. /\ t \in Seq(Post) /\ Len(t) = n + 1 /\ t[n + 1] = p /\ n \in Nat
      /\ \A i \in 1..n : t[i] = s[i]
  BY AppendProperties, LenProperties
<1>2. /\ PiecesIn(s) \in [1..n -> Int] /\ ZenyIn(s) \in [1..n -> Int]
      /\ \A i \in 1..n :
            /\ PiecesIn(s)[i] = IF s[i].type = "send" THEN s[i].item ELSE 0
            /\ ZenyIn(s)[i] = IF s[i].type = "send" THEN s[i].zeny ELSE 0
  BY PostsAmounts
<1> HIDE DEF t, n
<1>3. /\ PiecesIn(t) \in [1..(n + 1) -> Int] /\ ZenyIn(t) \in [1..(n + 1) -> Int]
      /\ \A i \in 1..(n + 1) :
            /\ PiecesIn(t)[i] = IF t[i].type = "send" THEN t[i].item ELSE 0
            /\ ZenyIn(t)[i] = IF t[i].type = "send" THEN t[i].zeny ELSE 0
  BY <1>1, PostsAmounts
<1>4. /\ PiecesIn(t)[n + 1] = IF p.type = "send" THEN p.item ELSE 0
      /\ ZenyIn(t)[n + 1] = IF p.type = "send" THEN p.zeny ELSE 0
  BY <1>1, <1>3
<1>5. \A i \in 1..n : PiecesIn(s)[i] = PiecesIn(t)[i] /\ ZenyIn(s)[i] = ZenyIn(t)[i]
  <2> TAKE i \in 1..n
  <2>1. i \in 1..(n + 1) /\ t[i] = s[i]
    BY <1>1
  <2> QED BY <1>2, <1>3, <2>1
<1>6. AddUp(PiecesIn(t)) = PiecesIn(t)[n + 1] + AddUp(PiecesIn(s))
  BY <1>1, <1>2, <1>3, <1>5, AddUpLonger
<1>7. AddUp(ZenyIn(t)) = ZenyIn(t)[n + 1] + AddUp(ZenyIn(s))
  BY <1>1, <1>2, <1>3, <1>5, AddUpLonger
<1> QED BY <1>4, <1>6, <1>7 DEF t

LEMMA AddUpPosts ==
    ASSUME NEW s \in Seq(Post)
    PROVE  AddUp(PiecesIn(s)) \in Int /\ AddUp(ZenyIn(s)) \in Int
<1>1. IsFiniteSet(1..Len(s))
  BY LenProperties, FS_Interval
<1> QED BY <1>1, PostsAmounts, AddUpIsSum, SumType

\* What one of them has changes, and what two of them have.
LEMMA AddUpOne ==
    ASSUME NEW f \in [Writers -> Nat], NEW c \in Writers, NEW n \in Nat
    PROVE  /\ AddUp(f) \in Int
           /\ AddUp([f EXCEPT ![c] = n]) = AddUp(f) + (n - f[c])
<1> DEFINE g == [f EXCEPT ![c] = n]
<1>1. /\ f \in [Writers -> Int] /\ g \in [Writers -> Int]
      /\ g[c] = n /\ \A w \in Writers : w # c => g[w] = f[w]
  OBVIOUS
<1> HIDE DEF g
<1>2. SumOver(g, Writers) = SumOver(f, Writers) + (g[c] - f[c]) /\ SumOver(f, Writers) \in Int
  BY <1>1, BoundsAreNat, SumChanges, SumType
<1>3. AddUp(f) = SumOver(f, Writers) /\ AddUp(g) = SumOver(g, Writers)
  BY <1>1, AddUpIsSum
<1>4. AddUp(g) = AddUp(f) + (n - f[c]) /\ AddUp(f) \in Int
  BY <1>1, <1>2, <1>3
<1> QED BY <1>4 DEF g

LEMMA AddUpGiven ==
    ASSUME NEW f \in [Writers -> Nat], NEW c \in Writers, NEW d \in Writers, c # d
    PROVE  AddUp([f EXCEPT ![c] = f[c] - 1, ![d] = f[d] + 1]) = AddUp(f)
<1> DEFINE g == [f EXCEPT ![c] = f[c] - 1, ![d] = f[d] + 1]
<1>1. /\ f \in [Writers -> Int] /\ g \in [Writers -> Int]
      /\ g[c] = f[c] - 1 /\ g[d] = f[d] + 1
      /\ \A w \in Writers : w \notin {c, d} => g[w] = f[w]
  OBVIOUS
<1> HIDE DEF g
<1>2. /\ SumOver(g, Writers) = SumOver(f, Writers) + (g[c] - f[c]) + (g[d] - f[d])
      /\ SumOver(f, Writers) \in Int
  BY <1>1, BoundsAreNat, SumChangesTwice, SumType
<1>3. AddUp(f) = SumOver(f, Writers) /\ AddUp(g) = SumOver(g, Writers)
  BY <1>1, AddUpIsSum
<1>4. f[c] \in Int /\ f[d] \in Int
  BY <1>1
<1>5. AddUp(g) = AddUp(f)
  BY <1>1, <1>2, <1>3, <1>4
<1> QED BY <1>5 DEF g

\* Nothing is made or lost.
Paid == AllPieces' = AllPieces /\ AllZeny' = AllZeny

LEMMA NothingMoves ==
    ASSUME UNCHANGED <<pieces, purse, posts>>
    PROVE  Paid
  BY DEF Paid, AllPieces, AllZeny

LEMMA GivePays ==
    ASSUME MailTypeOK, NEW c \in Writers, NEW d \in Writers, Give(c, d)
    PROVE  Paid
<1>1. c # d /\ posts' = posts /\ pieces \in [Writers -> Nat] /\ purse \in [Writers -> Nat]
  BY MailTypeParts DEF Give, AtMapOK
<1>2. CASE pieces' = [pieces EXCEPT ![c] = pieces[c] - 1, ![d] = pieces[d] + 1]
           /\ UNCHANGED purse
  <2>1. AddUp(pieces') = AddUp(pieces)
    BY <1>1, <1>2, AddUpGiven
  <2> QED BY <1>1, <1>2, <2>1 DEF Paid, AllPieces, AllZeny
<1>3. CASE purse' = [purse EXCEPT ![c] = purse[c] - 1, ![d] = purse[d] + 1]
           /\ UNCHANGED pieces
  <2>1. AddUp(purse') = AddUp(purse)
    BY <1>1, <1>3, AddUpGiven
  <2> QED BY <1>1, <1>3, <2>1 DEF Paid, AllPieces, AllZeny
<1>4. \/ pieces' = [pieces EXCEPT ![c] = pieces[c] - 1, ![d] = pieces[d] + 1] /\ UNCHANGED purse
      \/ purse' = [purse EXCEPT ![c] = purse[c] - 1, ![d] = purse[d] + 1] /\ UNCHANGED pieces
  BY <1>1 DEF Give
<1> QED BY <1>2, <1>3, <1>4

LEMMA SendPays ==
    ASSUME MailTypeOK, NEW c \in Writers, NEW to \in Whole, SendMail(c, to)
    PROVE  Paid
<1>1. CASE UNCHANGED <<pieces, purse, posts, letters>>
  BY <1>1, NothingMoves
<1>2. ASSUME NEW z \in Nat, NEW i \in Nat, z <= purse[c], i <= pieces[c],
             pieces' = [pieces EXCEPT ![c] = pieces[c] - i],
             purse' = [purse EXCEPT ![c] = purse[c] - z],
             posts' = Append(posts, [type |-> "send", to |-> to, zeny |-> z, item |-> i])
      PROVE  Paid
  <2> DEFINE p == [type |-> "send", to |-> to, zeny |-> z, item |-> i]
  <2>1. p \in Post /\ p.type = "send" /\ p.zeny = z /\ p.item = i
    BY PostsMade
  <2>2. posts' = Append(posts, p)
    BY <1>2
  <2> HIDE DEF p
  <2>3. /\ posts \in Seq(Post) /\ pieces \in [Writers -> Nat] /\ purse \in [Writers -> Nat]
        /\ pieces[c] \in Nat /\ purse[c] \in Nat
    BY MailTypeParts DEF LinksOK, AtMapOK
  <2>4. /\ AddUp(PiecesIn(posts')) = i + AddUp(PiecesIn(posts))
        /\ AddUp(ZenyIn(posts')) = z + AddUp(ZenyIn(posts))
        /\ AddUp(PiecesIn(posts)) \in Int /\ AddUp(ZenyIn(posts)) \in Int
    BY <2>1, <2>2, <2>3, OneMorePost, AddUpPosts
  <2>5. pieces[c] - i \in Nat /\ purse[c] - z \in Nat
    BY <1>2, <2>3
  <2>6. AddUp(pieces) \in Int /\ AddUp(pieces') = AddUp(pieces) + ((pieces[c] - i) - pieces[c])
    BY <1>2, <2>3, <2>5, AddUpOne
  <2>7. AddUp(purse) \in Int /\ AddUp(purse') = AddUp(purse) + ((purse[c] - z) - purse[c])
    BY <1>2, <2>3, <2>5, AddUpOne
  <2>8. AddUp(pieces') + AddUp(PiecesIn(posts')) = AddUp(pieces) + AddUp(PiecesIn(posts))
    BY <2>3, <2>4, <2>6
  <2>9. AddUp(purse') + AddUp(ZenyIn(posts')) = AddUp(purse) + AddUp(ZenyIn(posts))
    BY <2>3, <2>4, <2>7
  <2> QED BY <2>8, <2>9 DEF Paid, AllPieces, AllZeny
<1> QED BY <1>1, <1>2, SendFacts

LEMMA AskPays ==
    ASSUME MailTypeOK, NEW c \in Writers,
           \/ RefleshMailBox(c)
           \/ \E t \in {"read", "fetch", "delete"}, n \in Nat : Ask(c, t, n)
    PROVE  Paid
<1>1. UNCHANGED <<pieces, purse>>
  BY DEF RefleshMailBox, Ask, atMap
<1>2. PICK p \in Post : p.type # "send" /\ posts' = Append(posts, p)
  BY PostsMade DEF RefleshMailBox, Ask
<1>3. posts \in Seq(Post)
  BY MailTypeParts DEF LinksOK
<1>4. /\ AddUp(PiecesIn(posts')) = 0 + AddUp(PiecesIn(posts))
      /\ AddUp(ZenyIn(posts')) = 0 + AddUp(ZenyIn(posts))
      /\ AddUp(PiecesIn(posts)) \in Int /\ AddUp(ZenyIn(posts)) \in Int
  BY <1>2, <1>3, OneMorePost, AddUpPosts
<1>5. AddUp(PiecesIn(posts')) = AddUp(PiecesIn(posts)) /\ AddUp(ZenyIn(posts')) = AddUp(ZenyIn(posts))
  BY <1>4
<1> QED BY <1>1, <1>5 DEF Paid, AllPieces, AllZeny

LEMMA LettersPaidStep ==
    ASSUME MailTypeOK, [MailNext]_mailVars, UNCHANGED <<parcels, mailCrashes>>,
           Len(posts') >= Len(posts)
    PROVE  Paid
<1>0. Readers \cup {Stranger} \subseteq Whole
  BY BoundsAreNat DEF Whole
<1>1. ASSUME NEW c \in Writers, EnterMail(c) \/ LeaveMail(c) PROVE Paid
  BY <1>1, NothingMoves DEF EnterMail, LeaveMail
<1>2. ASSUME NEW c \in Writers, NEW d \in Writers, Give(c, d) PROVE Paid
  BY <1>2, GivePays
<1>3. ASSUME NEW c \in Posters,
             \/ SendToSelf(c)
             \/ \E n \in 0..(FirstPurse * 2) : AttachZeny(c, n)
             \/ \E n \in 0..(FirstPieces * 2) : AttachItem(c, n)
             \/ \E i, z \in BOOLEAN : MailWinOpen(c, i, z)
      PROVE  Paid
  BY <1>3, NothingMoves DEF SendToSelf, AttachZeny, AttachItem, MailWinOpen
<1>4. ASSUME NEW c \in Posters, NEW to \in Readers \cup {Stranger}, SendMail(c, to)
      PROVE  Paid
  BY <1>0, <1>4, BoundsAreNat, SendPays
<1>5. ASSUME NEW c \in Readers,
             \/ RefleshMailBox(c)
             \/ \E type \in {"read", "fetch", "delete"}, n \in 1..MaxLetters : Ask(c, type, n)
      PROVE  Paid
  BY <1>5, BoundsAreNat, AskPays
<1>6. ~RecvMailGetAppend
  <2> SUFFICES ASSUME RecvMailGetAppend PROVE FALSE
    OBVIOUS
  <2>1. parcels # <<>> /\ parcels' = Tail(parcels) /\ parcels \in Seq(Parcel)
    BY MailTypeParts DEF RecvMailGetAppend, LinksOK
  <2>2. Len(parcels') = Len(parcels) - 1 /\ Len(parcels) \in Nat
    BY <2>1, HeadTailProperties, LenProperties
  <2> QED BY <2>2
<1>7. ~RecvPost
  <2> SUFFICES ASSUME RecvPost PROVE FALSE
    OBVIOUS
  <2>1. posts # <<>> /\ posts' = Tail(posts) /\ posts \in Seq(Post)
    BY MailTypeParts DEF RecvPost, LinksOK
  <2>2. Len(posts') = Len(posts) - 1 /\ Len(posts) \in Nat
    BY <2>1, HeadTailProperties, LenProperties
  <2> QED BY <2>2
<1>8. CASE MailSync
  BY <1>8, NothingMoves DEF MailSync, atMap
<1>9. ~MailCrash
  BY MailTypeParts DEF MailCrash, CountersOK
<1>10. CASE UNCHANGED mailVars
  BY <1>10, NothingMoves DEF mailVars, atMap
<1>11. CASE MailNext
  BY <1>1, <1>2, <1>3, <1>4, <1>5, <1>6, <1>7, <1>8, <1>9, <1>11, Zenon DEF MailNext
<1> QED BY <1>10, <1>11

\* No step of the players makes or loses zeny or pieces: what is attached to a
\* letter has left its sender, whatever changed since it was attached.
THEOREM LettersArePaid == MailSpec => LettersPaid
<1>1. MailTypeOK /\ [MailNext]_mailVars
        => [<<pieces, purse, posts>>' # <<pieces, purse, posts>>
              /\ UNCHANGED <<parcels, mailCrashes>> /\ Len(posts') >= Len(posts)
            => AllPieces' = AllPieces /\ AllZeny' = AllZeny]_mailVars
  BY LettersPaidStep DEF Paid
<1> QED BY <1>1, MailTypeCorrect, PTL DEF MailSpec, LettersPaid

=============================================================================
