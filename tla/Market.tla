------------------------------- MODULE Market -------------------------------
(***************************************************************************)
(* Trading and vending between players of one map server: trade.c,         *)
(* vending.c, the cart and the purse of pc.c, and the packets of clif.c    *)
(* that lead to them.  There is one kind of item, of weight one; an        *)
(* inventory, a cart, an offer and a vendor's list are numbers of pieces.  *)
(* Clients are honest: they only send what their windows let them send.    *)
(***************************************************************************)
EXTENDS Naturals, FiniteSets, FiniteSetsExt

CONSTANTS
    Traders,
    Nobody,
    Places,       \* players in one place are near enough to trade
    FirstInv, FirstCart, FirstZeny,   \* what each player has
    FirstPlace,
    MaxWeight,    \* what each player can carry
    MaxZeny,      \* MAX_ZENY
    Lucky,        \* players to whom something else happens in between
    Carts,        \* players with a cart
    Prices,       \* what vendors ask for
    MaxRequests,  \* bound: requests for a trade
    MaxChance     \* bound: changes of place, gains and expenses that come in between

ASSUME MarketAssumption ==
    /\ IsFiniteSet(Traders) /\ Nobody \notin Traders
    /\ Carts \subseteq Traders /\ Lucky \subseteq Traders
    /\ Prices \subseteq Nat
    /\ MaxZeny \in Nat /\ MaxRequests \in Nat
    /\ MaxChance \in Nat
    /\ FirstInv \in [Traders -> Nat] /\ MaxWeight \in [Traders -> Nat]
    /\ \A p \in Traders : FirstInv[p] <= MaxWeight[p]
    /\ FirstCart \in [Traders -> Nat]
    /\ FirstZeny \in [Traders -> 0..MaxZeny]
    /\ FirstPlace \in [Traders -> Places]

VARIABLES
    place, bag, cart, zeny,
    partner,      \* trade_partner
    dealMode,     \* deal_mode
    dealLocked,   \* deal_locked
    dealItem,     \* deal_item_amount
    dealZeny,     \* deal_zeny
    vender,       \* vender_id is not 0
    vending,      \* the vendor's list: pieces and price
    ui,           \* what the client shows: nothing, a request, or the trade window
    shown,        \* what the trade window shows of the other side
    saw,          \* the vendor whose list the client shows
    requests, moves,
    again,        \* history: who has asked for a trade with another request still open
    found, earned, spent   \* history: pieces and zeny from and to elsewhere

tradeVars == <<partner, dealMode, dealLocked, dealItem, dealZeny, ui, shown>>
goods == <<bag, cart, zeny>>
stall == <<vender, vending, saw>>
asking == <<requests, again>>
chance == <<found, earned, spent>>
marketVars == <<place, goods, tradeVars, stall, asking, moves, chance>>

Slots == 1..2     \* MAX_DEAL_ITEMS is 10
NoItems == [s \in Slots |-> 0]
Nothing == [items |-> NoItems, zeny |-> 0]
NoList == [amount |-> 0, value |-> 0]

Pieces == MapThenSumSet(LAMBDA p : FirstInv[p] + FirstCart[p], Traders) + MaxChance

MarketTypeOK ==
    /\ place \in [Traders -> Places]
    /\ bag \in [Traders -> Nat] /\ \A p \in Traders : bag[p] <= MaxWeight[p]
    /\ cart \in [Traders -> Nat]
    /\ zeny \in [Traders -> 0..MaxZeny]
    /\ partner \in [Traders -> Traders \cup {Nobody}]
    /\ dealMode \in [Traders -> {0, 1}]
    /\ dealLocked \in [Traders -> 0..2]
    /\ dealItem \in [Traders -> [Slots -> Nat]]
    /\ dealZeny \in [Traders -> Nat]
    /\ vender \in [Traders -> BOOLEAN]
    /\ vending \in [Traders -> [amount : Nat, value : Nat]]
    /\ ui \in [Traders -> {"none", "asked", "window"}]
    /\ shown \in [Traders -> [items : [Slots -> Nat], zeny : Nat]]
    /\ saw \in [Traders -> Traders \cup {Nobody}]
    /\ requests \in 0..MaxRequests
    /\ again \subseteq Traders
    /\ moves \in 0..MaxChance
    /\ {found, earned, spent} \subseteq 0..MaxChance

MarketInit ==
    /\ place = FirstPlace
    /\ bag = FirstInv /\ cart = FirstCart /\ zeny = FirstZeny
    /\ partner = [p \in Traders |-> Nobody]
    /\ dealMode = [p \in Traders |-> 0]
    /\ dealLocked = [p \in Traders |-> 0]
    /\ dealItem = [p \in Traders |-> NoItems]
    /\ dealZeny = [p \in Traders |-> 0]
    /\ vender = [p \in Traders |-> FALSE]
    /\ vending = [p \in Traders |-> NoList]
    /\ ui = [p \in Traders |-> "none"]
    /\ shown = [p \in Traders |-> Nothing]
    /\ saw = [p \in Traders |-> Nobody]
    /\ requests = 0 /\ again = {} /\ moves = 0 /\ found = 0 /\ earned = 0 /\ spent = 0

-----------------------------------------------------------------------------
(* What the handlers call                                                  *)

Near(p, q) == place[p] = place[q]

Both(f, p, q, x) == [r \in Traders |-> IF r \in {p, q} THEN x ELSE f[r]]

\* Mutant: the partner is not told.
TradeCancelOneSide(p) ==
    LET q == p IN
    /\ partner' = Both(partner, p, q, Nobody)
    /\ dealMode' = Both(dealMode, p, q, 0)
    /\ dealLocked' = Both(dealLocked, p, q, 0)
    /\ dealItem' = Both(dealItem, p, q, NoItems)
    /\ dealZeny' = Both(dealZeny, p, q, 0)
    /\ ui' = Both(ui, p, q, "none")
    /\ shown' = Both(shown, p, q, Nothing)

\* Mutant: what was offered stays.
TradeCancelKeepsOffers(p) ==
    LET q == partner[p] IN
    /\ partner' = Both(partner, p, q, Nobody)
    /\ dealMode' = Both(dealMode, p, q, 0)
    /\ dealLocked' = Both(dealLocked, p, q, 0)
    /\ dealItem' = dealItem
    /\ dealZeny' = dealZeny
    /\ ui' = Both(ui, p, q, "none")
    /\ shown' = Both(shown, p, q, Nothing)

\* trade_tradecancel of p: it and its partner, if there is one, are cleared.
TradeCancel(p) ==
    LET q == partner[p] IN
    /\ partner' = Both(partner, p, q, Nobody)
    /\ dealMode' = Both(dealMode, p, q, 0)
    /\ dealLocked' = Both(dealLocked, p, q, 0)
    /\ dealItem' = Both(dealItem, p, q, NoItems)
    /\ dealZeny' = Both(dealZeny, p, q, 0)
    /\ ui' = Both(ui, p, q, "none")
    /\ shown' = Both(shown, p, q, Nothing)

\* What one hands to the other: pc_additem, which may refuse for the weight,
\* then pc_delitem, which does nothing when there are too few.
GiveItem(iv, from, to, n) ==
    IF n = 0 \/ iv[from] = 0 \/ iv[to] + n > MaxWeight[to] THEN iv
    ELSE [iv EXCEPT ![to] = @ + n, ![from] = IF n <= @ THEN @ - n ELSE @]

\* Mutant: every slot is checked by itself.
TradeCheckBySlot(p, q) ==
    \A s \in Slots : dealItem[p][s] <= bag[p] /\ dealItem[q][s] <= bag[q]

\* trade_check: slot by slot, first p gives and then q.
TradeCheck(p, q) ==
    LET a == dealItem[p]  b == dealItem[q] IN
    /\ a[1] <= bag[p]
    /\ b[1] <= bag[q] + a[1]
    /\ a[2] <= (bag[p] - a[1]) + b[1]
    /\ b[2] <= ((bag[q] + a[1]) - b[1]) + a[2]

\* Mutant: only what is received is checked.
ZenyCheckReceived(p, q) ==
    /\ (zeny[p] - dealZeny[p]) + dealZeny[q] <= MaxZeny
    /\ (zeny[q] - dealZeny[q]) + dealZeny[p] <= MaxZeny

ZenyCheck(p, q) ==
    /\ dealZeny[p] <= zeny[p]
    /\ dealZeny[q] <= zeny[q]
    /\ (zeny[p] - dealZeny[p]) + dealZeny[q] <= MaxZeny
    /\ (zeny[q] - dealZeny[q]) + dealZeny[p] <= MaxZeny

\* pc_getzeny: what does not fit the purse is lost.
GetZeny(z, n) == IF z + n > MaxZeny THEN MaxZeny ELSE z + n

-----------------------------------------------------------------------------
(* Trade                                                                   *)

\* Mutant: a player with a stall can be asked.
TradeRequestVendor(p, q) ==
    /\ requests < MaxRequests
    /\ requests' = requests + 1
    /\ p # q
    /\ ~vender[p] /\ dealMode[p] = 0
    /\ partner[q] = Nobody
    /\ Near(p, q)
    /\ again' = IF partner[p] = Nobody THEN again ELSE again \cup {p}
    /\ partner' = [partner EXCEPT ![p] = q, ![q] = p]
    /\ ui' = [ui EXCEPT ![q] = "asked"]
    /\ UNCHANGED <<place, goods, dealMode, dealLocked, dealItem, dealZeny, shown,
                   stall, moves, chance>>

\* clif_parse_TradeRequest and trade_traderequest.  Only the other player's
\* trade_partner is looked at, not the one of the player who asks: it may be
\* waiting for an answer, or be asked itself.
TradeRequest(p, q) ==
    /\ requests < MaxRequests
    /\ requests' = requests + 1
    /\ p # q
    /\ ~vender[p] /\ dealMode[p] = 0
    /\ ~vender[q]
    /\ partner[q] = Nobody
    /\ Near(p, q)
    /\ again' = IF partner[p] = Nobody THEN again ELSE again \cup {p}
    /\ partner' = [partner EXCEPT ![p] = q, ![q] = p]
    /\ ui' = [ui EXCEPT ![q] = "asked"]
    /\ UNCHANGED <<place, goods, dealMode, dealLocked, dealItem, dealZeny, shown,
                   stall, moves, chance>>

\* trade_tradeack: the answer goes to whoever is the partner by now.
TradeAck(p) ==
    LET q == partner[p] IN
    /\ ui[p] = "asked"
    /\ q # Nobody
    /\ \/ ~Near(p, q) /\ TradeCancel(p)
       \/ /\ Near(p, q)
          /\ dealMode' = Both(dealMode, p, q, 1)
          /\ ui' = Both(ui, p, q, "window")
          /\ shown' = Both(shown, p, q, Nothing)
          /\ UNCHANGED <<partner, dealLocked, dealItem, dealZeny>>
       \/ /\ Near(p, q)
          /\ partner' = Both(partner, p, q, Nobody)
          /\ dealMode' = Both(dealMode, p, q, 0)
          /\ dealLocked' = Both(dealLocked, p, q, 0)
          /\ ui' = Both(ui, p, q, "none")
          /\ UNCHANGED <<dealItem, dealZeny, shown>>
    /\ UNCHANGED <<place, goods, stall, asking, moves, chance>>

\* What is offered in the slots before this one.
OfferedBefore(p, slot) == MapThenSumSet(LAMBDA s : dealItem[p][s], 1..(slot - 1))

\* trade_tradeadditem for items: into the first free slot, if the partner can
\* carry all that is offered.  The same stack may be offered twice.
OfferItem(p, n) ==
    LET q == partner[p]
        free == {s \in Slots : dealItem[p][s] = 0}
        slot == Min(free) IN
    /\ ui[p] = "window"
    /\ q # Nobody
    /\ dealLocked[p] < 1
    /\ n \in 1..bag[p]
    /\ free # {}
    /\ bag[q] + OfferedBefore(p, slot) + n <= MaxWeight[q]
    /\ dealItem' = [dealItem EXCEPT ![p][slot] = n]
    /\ shown' = [shown EXCEPT ![q].items[slot] = n]
    /\ UNCHANGED <<place, goods, partner, dealMode, dealLocked, dealZeny, ui,
                   stall, asking, moves, chance>>

\* trade_tradeadditem for zeny; a later amount takes the place of an earlier one.
OfferZeny(p, z) ==
    LET q == partner[p] IN
    /\ ui[p] = "window"
    /\ q # Nobody
    /\ dealLocked[p] < 1
    /\ z \in 1..zeny[p]
    /\ z # dealZeny[p]
    /\ zeny[q] + z <= MaxZeny + dealZeny[q]
    /\ zeny[q] + z >= dealZeny[q]
    /\ dealZeny' = [dealZeny EXCEPT ![p] = z]
    /\ shown' = [shown EXCEPT ![q].zeny = z]
    /\ UNCHANGED <<place, goods, partner, dealMode, dealLocked, dealItem, ui,
                   stall, asking, moves, chance>>

\* trade_tradeok.
TradeOk(p) ==
    /\ ui[p] = "window"
    /\ \/ /\ partner[p] # Nobody => ~Near(p, partner[p])
          /\ TradeCancel(p)
       \/ /\ partner[p] # Nobody /\ Near(p, partner[p])
          /\ dealLocked' = [dealLocked EXCEPT ![p] = 1]
          /\ UNCHANGED <<partner, dealMode, dealItem, dealZeny, ui, shown>>
    /\ UNCHANGED <<place, goods, stall, asking, moves, chance>>

\* The client's cancel button: trade_tradecancel.
PressCancel(p) ==
    /\ ui[p] = "window"
    /\ TradeCancel(p)
    /\ UNCHANGED <<place, goods, stall, asking, moves, chance>>

\* Mutant: what the second side pays is forgotten before its purse is changed.
ExchangeForgets(p, q) ==
    LET a == dealItem[p]  b == dealItem[q] IN
    /\ bag' = GiveItem(GiveItem(GiveItem(GiveItem(bag,
                  p, q, a[1]), q, p, b[1]), p, q, a[2]), q, p, b[2])
    /\ zeny' = [zeny EXCEPT ![p] = (@ - dealZeny[p]) + dealZeny[q],
                            ![q] = @ + dealZeny[p]]
    /\ TradeCancel(p)

\* The exchange itself.
Exchange(p, q) ==
    LET a == dealItem[p]  b == dealItem[q] IN
    /\ bag' = GiveItem(GiveItem(GiveItem(GiveItem(bag,
                  p, q, a[1]), q, p, b[1]), p, q, a[2]), q, p, b[2])
    /\ zeny' = [zeny EXCEPT ![p] = (@ - dealZeny[p]) + dealZeny[q],
                            ![q] = (@ - dealZeny[q]) + dealZeny[p]]
    /\ TradeCancel(p)

BothLocked(p, q) == q # Nobody /\ dealLocked[p] >= 1 /\ dealLocked[q] >= 1

\* trade_tradecommit: the second to press the button makes the exchange.
TradeCommit(p) ==
    LET q == partner[p] IN
    /\ ui[p] = "window"
    /\ \/ /\ q = Nobody
          /\ TradeCancel(p)
          /\ UNCHANGED <<bag, zeny>>
       \/ /\ BothLocked(p, q)
          /\ dealLocked[q] # 2 /\ dealLocked[p] = 1
          /\ dealLocked' = [dealLocked EXCEPT ![p] = 2]
          /\ UNCHANGED <<bag, zeny, partner, dealMode, dealItem, dealZeny, ui, shown>>
       \/ /\ BothLocked(p, q) /\ dealLocked[q] = 2
          /\ TradeCheck(p, q) /\ ZenyCheck(p, q)
          /\ Exchange(p, q)
       \/ /\ BothLocked(p, q) /\ dealLocked[q] = 2
          /\ ~(TradeCheck(p, q) /\ ZenyCheck(p, q))
          /\ TradeCancel(p)
          /\ UNCHANGED <<bag, zeny>>
    /\ UNCHANGED <<place, cart, stall, asking, moves, chance>>

-----------------------------------------------------------------------------
(* Vending and the cart                                                    *)

\* vending_openvending: a trade that was only asked for is cancelled.
OpenVending(p, n, v) ==
    /\ p \in Carts
    /\ ui[p] # "window" /\ ~vender[p]
    /\ dealMode[p] = 0
    /\ n \in 1..cart[p]
    /\ IF partner[p] = Nobody THEN UNCHANGED tradeVars ELSE TradeCancel(p)
    /\ vender' = [vender EXCEPT ![p] = TRUE]
    /\ vending' = [vending EXCEPT ![p] = [amount |-> n, value |-> v]]
    /\ UNCHANGED <<place, goods, saw, asking, moves, chance>>

\* vending_closevending; the list is not read again.
Close(p) ==
    /\ vender' = [vender EXCEPT ![p] = FALSE]
    /\ vending' = [vending EXCEPT ![p] = NoList]

CloseVending(p) ==
    /\ vender[p]
    /\ Close(p)
    /\ UNCHANGED <<place, goods, tradeVars, saw, asking, moves, chance>>

\* vending_vendinglistreq.
VendingList(p, q) ==
    /\ p # q
    /\ vender[q] /\ dealMode[q] = 0
    /\ ~vender[p] /\ dealMode[p] = 0
    /\ saw' = [saw EXCEPT ![p] = q]
    /\ UNCHANGED <<place, goods, tradeVars, vender, vending, asking, moves, chance>>

\* vending_purchasereq, at any time after: only the vendor's state is looked at.
Purchase(p, n) ==
    LET q == saw[p]
        z == n * vending[q].value IN
    /\ q # Nobody
    /\ vender[q]
    /\ n \in 1..vending[q].amount
    /\ z <= zeny[p]
    /\ bag[p] + n <= MaxWeight[p]
    /\ zeny' = [zeny EXCEPT ![p] = @ - z, ![q] = GetZeny(@, z)]
    /\ IF n > cart[q] THEN UNCHANGED <<bag, cart, vending>>
       ELSE /\ bag' = [bag EXCEPT ![p] = @ + n]
            /\ vending' = [vending EXCEPT ![q].amount = @ - n]
            /\ cart' = [cart EXCEPT ![q] = @ - n]
    /\ saw' = [saw EXCEPT ![p] = Nobody]
    /\ UNCHANGED <<place, tradeVars, vender, asking, moves, chance>>

\* Mutant: the cart can be used with the stall open.
CartAllowedAlways(p) == p \in Carts /\ dealMode[p] = 0

\* pc_putitemtocart and pc_getitemfromcart, behind the checks of their packets.
CartAllowed(p) == p \in Carts /\ ~vender[p] /\ dealMode[p] = 0

PutInCart(p, n) ==
    /\ CartAllowed(p)
    /\ n \in 1..bag[p]
    /\ bag' = [bag EXCEPT ![p] = @ - n]
    /\ cart' = [cart EXCEPT ![p] = @ + n]
    /\ UNCHANGED <<place, zeny, tradeVars, stall, asking, moves, chance>>

GetFromCart(p, n) ==
    /\ CartAllowed(p)
    /\ n \in 1..cart[p]
    /\ bag[p] + n <= MaxWeight[p]
    /\ bag' = [bag EXCEPT ![p] = @ + n]
    /\ cart' = [cart EXCEPT ![p] = @ - n]
    /\ UNCHANGED <<place, zeny, tradeVars, stall, asking, moves, chance>>

-----------------------------------------------------------------------------
(* What else happens on a map                                              *)

Moved(p, x) ==
    /\ moves + found + earned + spent < MaxChance
    /\ moves' = moves + 1
    /\ x # place[p]
    /\ place' = [place EXCEPT ![p] = x]

\* clif_parse_WalkToXY is refused in a trade; being knocked back is not.
Walk(p, x) ==
    /\ Moved(p, x)
    /\ ~vender[p] /\ dealMode[p] = 0
    /\ UNCHANGED <<goods, tradeVars, stall, asking, chance>>

KnockedBack(p, x) ==
    /\ Moved(p, x)
    /\ dealMode[p] = 1
    /\ UNCHANGED <<goods, tradeVars, stall, asking, chance>>

\* unit_remove_map, by which a player leaves the map in any way.
LeaveMap(p, x) ==
    /\ Moved(p, x)
    /\ IF partner[p] = Nobody THEN UNCHANGED tradeVars ELSE TradeCancel(p)
    /\ Close(p)
    /\ UNCHANGED <<goods, saw, asking, chance>>

Chance(p) == p \in Lucky /\ moves + found + earned + spent < MaxChance

\* A prize or a share of the party: pc_additem asks for no permission.
Find(p) ==
    /\ Chance(p)
    /\ bag[p] + 1 <= MaxWeight[p]
    /\ bag' = [bag EXCEPT ![p] = @ + 1]
    /\ found' = found + 1
    /\ UNCHANGED <<place, cart, zeny, tradeVars, stall, asking, moves, earned, spent>>

\* Scripts and skills that give or cost zeny: pc_getzeny, pc_payzeny.
Earn(p) ==
    /\ Chance(p)
    /\ zeny' = [zeny EXCEPT ![p] = GetZeny(@, 1)]
    /\ earned' = earned + 1
    /\ UNCHANGED <<place, bag, cart, tradeVars, stall, asking, moves, found, spent>>

Spend(p) ==
    /\ Chance(p)
    /\ zeny[p] > 0
    /\ zeny' = [zeny EXCEPT ![p] = @ - 1]
    /\ spent' = spent + 1
    /\ UNCHANGED <<place, bag, cart, tradeVars, stall, asking, moves, found, earned>>

-----------------------------------------------------------------------------
MarketNext ==
    \/ \E p \in Traders :
          \/ \E q \in Traders : TradeRequest(p, q) \/ VendingList(p, q)
          \/ TradeAck(p) \/ TradeOk(p) \/ PressCancel(p) \/ TradeCommit(p)
          \/ \E n \in 1..Pieces : \/ OfferItem(p, n) \/ Purchase(p, n)
                                  \/ PutInCart(p, n) \/ GetFromCart(p, n)
                                  \/ \E v \in Prices : OpenVending(p, n, v)
          \/ \E z \in 1..MaxZeny : OfferZeny(p, z)
          \/ CloseVending(p)
          \/ \E x \in Places : Walk(p, x) \/ KnockedBack(p, x) \/ LeaveMap(p, x)
          \/ Find(p) \/ Earn(p) \/ Spend(p)

MarketSpec == MarketInit /\ [][MarketNext]_marketVars

-----------------------------------------------------------------------------
(* Properties                                                              *)

Sum(f) == MapThenSumSet(LAMBDA p : f[p], Traders)

Items(o) == o.items[1] + o.items[2]
Closes(p, q) == partner[p] = q /\ partner'[p] = Nobody /\ <<bag, zeny>>' # <<bag, zeny>>

\* "This function do like the real trade, but with virtual inventories"
\* (trade.c:362): no piece is made or destroyed.
NothingFromNothing == Sum(bag) + Sum(cart) = Sum(FirstInv) + Sum(FirstCart) + found

\* Both sides can carry what they are offered when the trade is closed.
BothCanCarry ==
    \A p, q \in Traders : Closes(p, q) =>
        /\ bag[q] + (dealItem[p][1] + dealItem[p][2]) <= MaxWeight[q]
        /\ bag[p] + (dealItem[q][1] + dealItem[q][2]) <= MaxWeight[p]

\* Whatever players do at the same time, a step makes or destroys no piece, but
\* for a trade in which one can no longer carry what it is offered: a stack that
\* was offered twice is found out when the trade is closed.
PiecesKept ==
    [][<<bag, cart, found>>' # <<bag, cart, found>> /\ BothCanCarry =>
          (Sum(bag') + Sum(cart')) + found = (Sum(bag) + Sum(cart)) + found']_marketVars

\* No zeny is made: not by spending what was offered, nor by a purse that is full.
NoZenyMade == Sum(zeny) + spent <= Sum(FirstZeny) + earned

\* Whoever asks for a trade while another request is open spoils no trade but
\* its own: of two others, nobody is left alone in a trade, or in a trade with
\* somebody else's partner.
PartnersAgree ==
    \A p \in Traders \ again : dealMode[p] = 1 =>
        /\ partner[p] # Nobody
        /\ partner[p] \notin again =>
              partner[partner[p]] = p /\ dealMode[partner[p]] = 1

\* Whoever has a stall is in no trade, and nobody waits for an answer from it,
\* unless it asked again itself: then an old answer may open a trade with it.
VendorNotTrading ==
    \A p \in Traders \ again : vender[p] => partner[p] = Nobody /\ dealMode[p] = 0

ZenyAsShown(p, q) == zeny'[p] = (zeny[p] + shown[p].zeny) - shown[q].zeny
ItemsAsShown(p, q) == bag'[p] = (bag[p] + Items(shown[p])) - Items(shown[q])

\* A trade that is closed gives each side what its window showed, and takes
\* what the other window showed, but for pieces that one of the two can no
\* longer carry; unless one of the two has asked again, others' requests and
\* trades change nothing in this.
GivenIfCarried ==
    [][\A p, q \in Traders \ again : Closes(p, q) =>
           /\ ZenyAsShown(p, q)
           /\ \/ ItemsAsShown(p, q)
              \/ \E r \in {p, q} : bag[r] + Items(shown[r]) > MaxWeight[r]]_marketVars

\* A buyer pays for exactly what comes out of the cart and into its hands,
\* though the list it saw may be old.
PaidIsDelivered ==
    [][\A p \in Traders : LET q == saw[p] IN
           q # Nobody /\ saw'[p] = Nobody /\ zeny'[p] < zeny[p] =>
               /\ bag'[p] > bag[p]
               /\ bag'[p] - bag[p] = cart[q] - cart'[q]
               /\ zeny[p] - zeny'[p] = (bag'[p] - bag[p]) * vending[q].value]_marketVars

=============================================================================
