--------------------------- MODULE EnglishAuction ---------------------------
(***************************************************************************)
(* What the bidding rules promise when they are read as one step: the      *)
(* errors of service/errors.go:11-14 and "Place a bid(update current       *)
(* price)" of handlers/products.go:287.  A bid is taken only from a user   *)
(* who is neither the seller nor the latest bidder, only above the current *)
(* price, and it becomes the current price.                                *)
(***************************************************************************)
EXTENDS Integers, Sequences

CONSTANTS Users, Products, None, StartPrices, Amounts

VARIABLES seller, price, bids

vars == <<seller, price, bids>>

Init ==
    /\ seller = [p \in Products |-> None]
    /\ price = [p \in Products |-> 0]
    /\ bids = [p \in Products |-> << >>]

List(p, u, c) ==
    /\ seller[p] = None
    /\ seller' = [seller EXCEPT ![p] = u]
    /\ price' = [price EXCEPT ![p] = c]
    /\ UNCHANGED bids

TakeBid(p, u, a) ==
    /\ seller[p] \notin {None, u}
    /\ a > price[p]
    /\ Len(bids[p]) > 0 => bids[p][Len(bids[p])].user # u
    /\ bids' = [bids EXCEPT ![p] = Append(@, [user |-> u, price |-> a])]
    /\ price' = [price EXCEPT ![p] = a]
    /\ UNCHANGED seller

Next ==
    \E p \in Products, u \in Users :
        \/ \E c \in StartPrices : List(p, u, c)
        \/ \E a \in Amounts : TakeBid(p, u, a)

Spec == Init /\ [][Next]_vars

-----------------------------------------------------------------------------
\* Each bid on a product is higher than the one before it
\* (service/errors.go:13, "bid must be greater than current price").
BidsIncrease ==
    \A p \in Products : \A i \in 2..Len(bids[p]) : bids[p][i - 1].price < bids[p][i].price
=============================================================================
