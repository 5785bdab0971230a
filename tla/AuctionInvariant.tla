--------------------------- MODULE AuctionInvariant ---------------------------
(***************************************************************************)
(* The inductive invariant from which the properties of Auction follow.    *)
(* TLC checks it on the small instances, AuctionProofs proves it.          *)
(***************************************************************************)
EXTENDS AuctionRefinement

-----------------------------------------------------------------------------
(* Types.  TypeOK is not inductive: the tables get their values from the   *)
(* requests, so the shape of each goroutine's request is part of it.       *)

TablesType ==
    /\ seller \in [Products -> Users \cup {None}]
    /\ start \in [Products -> Nat]
    /\ price \in [Products -> Int]
    /\ bids \in [Products -> Seq(Bid)]

RequestShape(w) ==
    /\ pc[w] \in {"readProduct", "updatePrice"} => req[w].product \in Products
    /\ pc[w] \in BidQueries \cup {"addProduct"} => req[w].user \in Users /\ req[w].product \in Products
    /\ pc[w] \in BidQueries => req[w].amount \in Amounts
    /\ pc[w] = "addProduct" => req[w].amount \in StartPrices

GoroutinesType ==
    /\ pc \in [Workers -> Queries \cup {"idle"}]
    /\ req \in [Workers -> Request]
    /\ reply \in [Workers -> Statuses]
    /\ \A w \in Workers : RequestShape(w)

Shape ==
    /\ ServerTypeOK
    /\ TablesType
    /\ GoroutinesType
    /\ acked \in [Products -> SUBSET Bid]

-----------------------------------------------------------------------------
(* Safety.  A handler stops between its checks and its insert, so what its *)
(* checks established must survive whatever the others do meanwhile.  It   *)
(* does because sellers and listing prices never change, the price never   *)
(* falls below the listing price, and acknowledged bids stay.              *)

UnlistedUntouched == \A p \in Products : ~Listed(p) => bids[p] = << >>

SoundTables ==
    /\ BidsAboveStart
    /\ PriceBacked
    /\ AckedBidsStored
    /\ NoSelfBid
    /\ UnlistedUntouched

SoundRequest(w) ==
    LET r == req[w] IN
    /\ pc[w] = "addProduct" => ~Listed(r.product)
    /\ pc[w] \in {"latestBid", "createBid"} =>
          /\ Listed(r.product)
          /\ seller[r.product] # r.user
          /\ r.amount > start[r.product]
    /\ pc[w] = "updatePrice" => \E b \in acked[r.product] : b.price = r.amount

OneAdder ==
    \A w, x \in Workers :
        pc[w] = "addProduct" /\ pc[x] = "addProduct" /\ req[w].product = req[x].product => w = x

\* What every reachable state satisfies: the four properties of the tables, and
\* that the checks a handler has passed still hold when its insert or its price
\* update runs (service/products.go:104-146).
SafetyInv ==
    /\ Shape
    /\ SoundTables
    /\ \A w \in Workers : SoundRequest(w)
    /\ OneAdder

-----------------------------------------------------------------------------
(* Polite clients.  A user has one bid in flight, so nobody else's step    *)
(* can make that user the latest bidder between the check and the insert.  *)

OneBidPerUser ==
    \A w, x \in BidHandlers : req[w].user = req[x].user => w = x

InserterDoesNotLead ==
    \A w \in Workers : pc[w] = "createBid" => ~Leads(req[w].user, req[w].product)

\* With clients that wait for their answers: a handler about to insert a bid is
\* not the latest bidder, although its check was a query ago
\* (service/products.go:118-132).
PoliteInv ==
    /\ NoConsecutiveBids
    /\ OneBidPerUser
    /\ InserterDoesNotLead

-----------------------------------------------------------------------------
(* One goroutine at a time, and no failure.                                *)

\* What the handler compared its bid with is still the current price and the
\* latest bid when it inserts, and the price of the latest bid is published or
\* about to be (service/products.go:113-146).
SerialInv ==
    /\ server = "up" /\ conn # "closed"
    /\ \A w \in Workers :
          pc[w] \in {"latestBid", "createBid"} => req[w].amount > price[req[w].product]
    /\ InserterDoesNotLead
    /\ \A p \in Products : Len(bids[p]) > 0 => PublishedPrice[p] = bids[p][Len(bids[p])].price
=============================================================================
