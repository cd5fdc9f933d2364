------------------------------ MODULE MCMarket ------------------------------
(***************************************************************************)
(* A small instance of Market: two players who trade, of whom one finds    *)
(* something before the trade is closed.                                   *)
(***************************************************************************)
EXTENDS Market, TLC

CONSTANTS p1, p2

TwoAndOne == p1 :> 2 @@ p2 :> 1
Strong == p1 :> 3 @@ p2 :> 5
NoneOf == [p \in Traders |-> 0]
OnePlace == [p \in Traders |-> 1]

=============================================================================
