------------------------------- MODULE Ledger -------------------------------
(***************************************************************************)
(* What products and bids promise however requests interleave and whatever *)
(* fails: the weakest auction the concurrent code implements.  Listings    *)
(* are permanent, bids are only appended, by users other than the seller   *)
(* and above the listing price, an acknowledged bid is in the log, and the *)
(* current price moves only to the price of an acknowledged bid.  When     *)
(* clients wait for their answers (Overlap = FALSE), no user bids twice in *)
(* a row.                                                                  *)
(***************************************************************************)
EXTENDS Integers, Sequences

CONSTANTS Users, Products, None, StartPrices, Amounts, Overlap

VARIABLES seller, start, price, bids, acked

vars == <<seller, start, price, bids, acked>>

Init ==
    /\ seller = [p \in Products |-> None]
    /\ start = [p \in Products |-> 0]
    /\ price = [p \in Products |-> 0]
    /\ bids = [p \in Products |-> << >>]
    /\ acked = [p \in Products |-> {}]

List(p, u, c) ==
    /\ seller[p] = None
    /\ seller' = [seller EXCEPT ![p] = u]
    /\ start' = [start EXCEPT ![p] = c]
    /\ price' = [price EXCEPT ![p] = c]
    /\ UNCHANGED <<bids, acked>>

\* The bid is stored, and acknowledged or not: an interrupted insert is not.
Store(p, u, a) ==
    /\ seller[p] \notin {None, u}
    /\ a > start[p]
    /\ ~Overlap /\ Len(bids[p]) > 0 => bids[p][Len(bids[p])].user # u
    /\ bids' = [bids EXCEPT ![p] = Append(@, [user |-> u, price |-> a])]
    /\ \/ acked' = [acked EXCEPT ![p] = @ \cup {[user |-> u, price |-> a]}]
       \/ UNCHANGED acked
    /\ UNCHANGED <<seller, start, price>>

Publish(p, b) ==
    /\ price' = [price EXCEPT ![p] = b.price]
    /\ UNCHANGED <<seller, start, bids, acked>>

Next ==
    \/ \E p \in Products, u \in Users :
          \/ \E c \in StartPrices : List(p, u, c)
          \/ \E a \in Amounts : Store(p, u, a)
    \/ \E p \in Products : \E b \in acked[p] : Publish(p, b)

Spec == Init /\ [][Next]_vars
=============================================================================
