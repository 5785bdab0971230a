-------------------------- MODULE AuctionRefinement --------------------------
(***************************************************************************)
(* Auction implements the two abstract specifications: Ledger always, and  *)
(* EnglishAuction when one goroutine is at work at a time and nothing      *)
(* fails.  That is more than clients can see to: a bid is answered before  *)
(* its price update, a goroutine of its own, has run.                      *)
(***************************************************************************)
EXTENDS Auction

L == INSTANCE Ledger

\* Auction implements Ledger, whatever happens: the tables themselves are the
\* ledger, and no interleaving, lost connection or crash takes the code out of
\* it (service/products.go:98-153).
ImplementsLedger == L!Spec

\* The goroutines that are about to update the price of p.
UpdatesOf(p) == {w \in Workers : pc[w] = "updatePrice" /\ req[w].product = p}

\* The current price with the updates that are on their way counted as done.
PublishedPrice ==
    [p \in Products |->
        IF UpdatesOf(p) = {} THEN price[p] ELSE req[CHOOSE w \in UpdatesOf(p) : TRUE].amount]

E == INSTANCE EnglishAuction WITH price <- PublishedPrice

\* With one goroutine at a time and no failure, the three queries and the update
\* of PlaceBid amount to one step of the English auction that the errors of
\* service/errors.go:11-14 describe.
ImplementsEnglishAuction == E!Spec

\* With one goroutine at a time and no failure, the rows of bids on a product are
\* an ascending auction, although each bid is compared with the price column,
\* which another statement writes, and never with the bids themselves
\* (service/products.go:113-146).
BidsIncrease == E!BidsIncrease
=============================================================================
