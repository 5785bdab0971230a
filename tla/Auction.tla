------------------------------- MODULE Auction -------------------------------
(***************************************************************************)
(* Products and bids: CreateProduct, GetProductByID and PlaceBid, run by   *)
(* concurrent goroutines over the one database connection of module        *)
(* Server, with the background update of the current price that PlaceBid   *)
(* leaves behind.                                                          *)
(*                                                                         *)
(* A goroutine stops only at its database calls, so a step of the model    *)
(* is either the issue of a query (SendQuery, QueryFails) or its answer    *)
(* with the Go code up to the next query.  No transaction spans two        *)
(* queries.  A statement that is interrupted may or may not have been      *)
(* executed by Postgres (Interrupted, and the ways the process ends).      *)
(*                                                                         *)
(* Left to other modules: who the caller is (the middleware puts the       *)
(* user's id in the context), and the names and files of images.           *)
(***************************************************************************)
EXTENDS Server, Integers, Sequences, FiniteSets

CONSTANTS
    Users,        \* registered users: sellers and bidders
    Products,     \* product ids
    None,         \* no user, no product
    StartPrices,  \* the current_price values that pass validation: at least 1
    Amounts,      \* the bid_amount values of requests: any int32
    MaxBids,      \* bound: how many bids a product gets, those in flight included
    Overlap       \* may a user issue a bid while an earlier one is unanswered?

ASSUME AuctionAssumption ==
    /\ None \notin Users \cup Products
    /\ StartPrices \subseteq Nat \ {0}
    /\ Amounts \subseteq Int
    /\ MaxBids \in Nat
    /\ Overlap \in BOOLEAN

VARIABLES
    seller,   \* products.seller_id; None: no such row
    start,    \* products.current_price as inserted (kept for the properties)
    price,    \* products.current_price
    bids,     \* the rows of bids on each product, in the order of bid_at
    pc,       \* the query each goroutine is at
    req,      \* the request it works on
    reply,    \* the status of the last response of its handler
    acked     \* the bids answered with 200 (kept for the properties)

tables == <<seller, start, price, bids>>
goroutines == <<pc, req, reply>>
vars == <<serverVars, tables, goroutines, acked>>

BidQueries == {"getProduct", "latestBid", "createBid"}
HandlerQueries == BidQueries \cup {"addProduct", "readProduct"}
Queries == HandlerQueries \cup {"updatePrice"}

Bid == [user : Users, price : Int]
Request == [user : Users \cup {None}, product : Products \cup {None}, amount : Int]
NoRequest == [user |-> None, product |-> None, amount |-> 0]

Listed(p) == seller[p] # None
BidHandlers == {w \in Workers : pc[w] \in BidQueries}
Handlers == {w \in Workers : pc[w] \in HandlerQueries}

TypeOK ==
    /\ ServerTypeOK
    /\ seller \in [Products -> Users \cup {None}]
    /\ start \in [Products -> Nat]
    /\ price \in [Products -> Int]
    /\ bids \in [Products -> Seq(Bid)]
    /\ pc \in [Workers -> Queries \cup {"idle"}]
    /\ req \in [Workers -> Request]
    /\ reply \in [Workers -> Statuses]
    /\ acked \in [Products -> SUBSET Bid]

Init ==
    /\ ServerInit
    /\ seller = [p \in Products |-> None]
    /\ start = [p \in Products |-> 0]
    /\ price = [p \in Products |-> 0]
    /\ bids = [p \in Products |-> << >>]
    /\ pc = [w \in Workers |-> "idle"]
    /\ req = [w \in Workers |-> NoRequest]
    /\ reply = [w \in Workers |-> "none"]
    /\ acked = [p \in Products |-> {}]

-----------------------------------------------------------------------------
(* The statements that change the database (products.sql.go, bids.sql.go). *)

\* Mutant of AddProduct: the ids of the seller and of the product are swapped.
AddProductSwapped(r) ==
    /\ seller' = [seller EXCEPT ![r.product] = r.product]
    /\ start' = [start EXCEPT ![r.product] = r.amount]
    /\ price' = [price EXCEPT ![r.product] = r.amount]
    /\ UNCHANGED bids

AddProduct(r) ==
    /\ seller' = [seller EXCEPT ![r.product] = r.user]
    /\ start' = [start EXCEPT ![r.product] = r.amount]
    /\ price' = [price EXCEPT ![r.product] = r.amount]
    /\ UNCHANGED bids

\* Mutant of CreateBid: the insert replaces the earlier bids of the user.
CreateBidUpsert(r) ==
    LET others == SelectSeq(bids[r.product], LAMBDA b : b.user # r.user)
    IN  /\ bids' = [bids EXCEPT ![r.product] =
                       Append(others, [user |-> r.user, price |-> r.amount])]
        /\ UNCHANGED <<seller, start, price>>

CreateBid(r) ==
    /\ bids' = [bids EXCEPT ![r.product] = Append(@, [user |-> r.user, price |-> r.amount])]
    /\ UNCHANGED <<seller, start, price>>

UpdateProductCurrentPrice(r) ==
    /\ price' = [price EXCEPT ![r.product] = r.amount]
    /\ UNCHANGED <<seller, start, bids>>

\* What Postgres does with the statement goroutine w has in flight.
Execute(w) ==
    \/ pc[w] = "addProduct" /\ AddProduct(req[w])
    \/ pc[w] = "createBid" /\ CreateBid(req[w])
    \/ pc[w] = "updatePrice" /\ UpdateProductCurrentPrice(req[w])
    \/ pc[w] \in {"readProduct", "getProduct", "latestBid"} /\ UNCHANGED tables

\* An interrupted statement was executed, or it was not.
MayExecute(w) == Execute(w) \/ UNCHANGED tables

-----------------------------------------------------------------------------
(* Goroutines. *)

\* The handler goes on to its next query.
GoOn(w, query) == pc' = [pc EXCEPT ![w] = query] /\ UNCHANGED <<req, reply>>

\* The goroutine ends; a handler has answered with this status.
Finish(w, status) ==
    /\ pc' = [pc EXCEPT ![w] = "idle"]
    /\ req' = [req EXCEPT ![w] = NoRequest]
    /\ reply' = [reply EXCEPT ![w] = status]

\* Mutant of FinishInError: the price is updated though the insert of the bid
\* failed.
FinishInErrorUpdating(w) ==
    IF pc[w] = "createBid"
    THEN /\ pc' = [pc EXCEPT ![w] = "updatePrice"]
         /\ reply' = [reply EXCEPT ![w] = "500"]
         /\ UNCHANGED req
    ELSE Finish(w, IF pc[w] = "updatePrice" THEN reply[w] ELSE "500")

\* A query failed: every handler answers 500, the price update is silent.
FinishInError(w) == Finish(w, IF pc[w] = "updatePrice" THEN reply[w] ELSE "500")

\* A request arrives and its handler runs up to its first query.
Arrive(w, query, r) ==
    /\ Admits(Handlers)
    /\ pc[w] = "idle"
    /\ pc' = [pc EXCEPT ![w] = query]
    /\ req' = [req EXCEPT ![w] = r]
    /\ reply' = [reply EXCEPT ![w] = "none"]
    /\ UNCHANGED <<serverVars, tables, acked>>

\* A request without claims, with a malformed body or id, or that fails
\* validation: answered before any query.
Reject(w) ==
    /\ Admits(Handlers)
    /\ pc[w] = "idle"
    /\ \E status \in {"400", "401", "500"} : reply' = [reply EXCEPT ![w] = status]
    /\ UNCHANGED <<serverVars, tables, pc, req, acked>>

\* The id is drawn by the insert; it is unique, so that drawing it when the
\* request arrives makes no difference.
CreateProduct(w, u, p, c) ==
    /\ ~Listed(p)
    /\ \A x \in Workers : ~(pc[x] = "addProduct" /\ req[x].product = p)
    /\ Arrive(w, "addProduct", [user |-> u, product |-> p, amount |-> c])

GetProductByID(w, p) ==
    Arrive(w, "readProduct", [user |-> None, product |-> p, amount |-> 0])

PlaceBid(w, u, p, a) ==
    /\ Overlap \/ \A x \in BidHandlers : req[x].user # u
    /\ Len(bids[p]) + Cardinality({x \in BidHandlers : req[x].product = p}) < MaxBids
    /\ Arrive(w, "getProduct", [user |-> u, product |-> p, amount |-> a])

-----------------------------------------------------------------------------
(* Queries. *)

SendQuery(w) ==
    /\ pc[w] # "idle"
    /\ Acquire(w)
    /\ UNCHANGED <<tables, goroutines, acked>>

\* Mutant of QueryFails: a refused query is tried again until it is sent.
QueryFailsRetrying(w) ==
    /\ pc[w] # "idle"
    /\ (CancelledBefore(w) /\ pc[w] # "updatePrice") \/ Errs(w)
    /\ FinishInError(w)
    /\ UNCHANGED <<tables, acked>>

\* The query is refused, or its context is cancelled before it is sent, or Postgres
\* answers with an error.
QueryFails(w) ==
    /\ pc[w] # "idle"
    /\ Refused(w) \/ (CancelledBefore(w) /\ pc[w] # "updatePrice") \/ Errs(w)
    /\ FinishInError(w)
    /\ UNCHANGED <<tables, acked>>

Interrupted(w) ==
    /\ pc[w] # "idle"
    /\ Break(w, pc[w] # "updatePrice")
    /\ MayExecute(w)
    /\ FinishInError(w)
    /\ UNCHANGED acked

\* Mutant of Answered: the rows of the answer are never closed.
AnsweredRowsOpen(w, query) == pc[w] = query /\ conn = w /\ UNCHANGED serverVars /\ Execute(w)

\* The answer to the query arrives.
Answered(w, query) == pc[w] = query /\ Release(w) /\ Execute(w)

ProductAdded(w) ==
    /\ Answered(w, "addProduct")
    /\ Finish(w, "201")
    /\ UNCHANGED acked

ProductRead(w) ==
    /\ Answered(w, "readProduct")
    /\ Finish(w, IF Listed(req[w].product) THEN "200" ELSE "404")
    /\ UNCHANGED acked

\* Mutant of BidProductRead: a bid of exactly the current price passes.
BidProductReadAtPrice(w) ==
    LET r == req[w] IN
    /\ Answered(w, "getProduct")
    /\ \/ ~Listed(r.product) /\ Finish(w, "500")
       \/ Listed(r.product) /\ seller[r.product] = r.user /\ Finish(w, "403")
       \/ /\ Listed(r.product) /\ seller[r.product] # r.user
          /\ r.amount < price[r.product]
          /\ Finish(w, "400")
       \/ /\ Listed(r.product) /\ seller[r.product] # r.user
          /\ r.amount >= price[r.product]
          /\ GoOn(w, "latestBid")
    /\ UNCHANGED acked

\* Mutant of BidProductRead: the seller is not turned away.
BidProductReadAnySeller(w) ==
    LET r == req[w] IN
    /\ Answered(w, "getProduct")
    /\ \/ ~Listed(r.product) /\ Finish(w, "500")
       \/ Listed(r.product) /\ r.amount <= price[r.product] /\ Finish(w, "400")
       \/ Listed(r.product) /\ r.amount > price[r.product] /\ GoOn(w, "latestBid")
    /\ UNCHANGED acked

\* PlaceBid, lines 104 to 115: the checks against the product's row.
BidProductRead(w) ==
    LET r == req[w] IN
    /\ Answered(w, "getProduct")
    /\ \/ ~Listed(r.product) /\ Finish(w, "500")
       \/ Listed(r.product) /\ seller[r.product] = r.user /\ Finish(w, "403")
       \/ /\ Listed(r.product) /\ seller[r.product] # r.user
          /\ r.amount <= price[r.product]
          /\ Finish(w, "400")
       \/ /\ Listed(r.product) /\ seller[r.product] # r.user
          /\ r.amount > price[r.product]
          /\ GoOn(w, "latestBid")
    /\ UNCHANGED acked

\* Mutant of Leads: the bids are read in the opposite order.
LeadsOldest(u, p) == Len(bids[p]) > 0 /\ bids[p][1].user = u

\* Is u the user of the latest bid on p?
Leads(u, p) == Len(bids[p]) > 0 /\ bids[p][Len(bids[p])].user = u

\* Mutant of BidLatestRead: the latest bid is read and not looked at.
BidLatestReadUnchecked(w) ==
    /\ Answered(w, "latestBid")
    /\ GoOn(w, "createBid")
    /\ UNCHANGED acked

\* Mutant of BidLatestRead: the price is published before the bid is stored.
BidLatestReadPublishing(w) ==
    /\ Answered(w, "latestBid")
    /\ IF Leads(req[w].user, req[w].product) THEN Finish(w, "500") ELSE GoOn(w, "updatePrice")
    /\ UNCHANGED acked

\* Lines 118 to 124: the check against the latest bid.
BidLatestRead(w) ==
    /\ Answered(w, "latestBid")
    /\ IF Leads(req[w].user, req[w].product) THEN Finish(w, "500") ELSE GoOn(w, "createBid")
    /\ UNCHANGED acked

\* Mutant of BidCreated: the price is compared again after the insert, without
\* taking the bid back.
BidCreatedRechecking(w) ==
    LET r == req[w] IN
    /\ Answered(w, "createBid")
    /\ IF r.amount > price[r.product]
       THEN /\ pc' = [pc EXCEPT ![w] = "updatePrice"]
            /\ reply' = [reply EXCEPT ![w] = "200"]
            /\ acked' = [acked EXCEPT ![r.product] = @ \cup {[user |-> r.user, price |-> r.amount]}]
            /\ UNCHANGED req
       ELSE Finish(w, "400") /\ UNCHANGED acked

\* Mutant of BidCreated: the update of the price is forgotten.
BidCreatedUnpublished(w) ==
    LET r == req[w] IN
    /\ Answered(w, "createBid")
    /\ Finish(w, "200")
    /\ acked' = [acked EXCEPT ![r.product] = @ \cup {[user |-> r.user, price |-> r.amount]}]

\* Lines 127 to 152: the handler answers 200 and the goroutine slot goes to
\* the price update it started.
BidCreated(w) ==
    LET r == req[w] IN
    /\ Answered(w, "createBid")
    /\ pc' = [pc EXCEPT ![w] = "updatePrice"]
    /\ reply' = [reply EXCEPT ![w] = "200"]
    /\ acked' = [acked EXCEPT ![r.product] = @ \cup {[user |-> r.user, price |-> r.amount]}]
    /\ UNCHANGED req

PriceUpdated(w) ==
    /\ Answered(w, "updatePrice")
    /\ Finish(w, reply[w])
    /\ UNCHANGED acked

-----------------------------------------------------------------------------
(* The process. *)

ShutdownBegins == Signal /\ UNCHANGED <<tables, goroutines, acked>>

ConnectionLost == BreakIdle /\ UNCHANGED <<tables, goroutines, acked>>

\* No goroutine survives the process.  The statement in flight may still be
\* executed by Postgres.
GoroutinesEnd ==
    /\ conn \in Workers => MayExecute(conn)
    /\ conn \notin Workers => UNCHANGED tables
    /\ pc' = [w \in Workers |-> "idle"]
    /\ req' = [w \in Workers |-> NoRequest]
    /\ UNCHANGED <<reply, acked>>

ShutdownEnds == ShutdownDone(Handlers) /\ GoroutinesEnd

ShutdownTimesOut == ShutdownTimeout(Handlers) /\ GoroutinesEnd

ProcessCrash == Crash /\ GoroutinesEnd

ProcessRestart == Restart /\ UNCHANGED <<tables, goroutines, acked>>

-----------------------------------------------------------------------------
QueryStep(w) ==
    \/ SendQuery(w)
    \/ QueryFails(w)
    \/ Interrupted(w)
    \/ ProductAdded(w)
    \/ ProductRead(w)
    \/ BidProductRead(w)
    \/ BidLatestRead(w)
    \/ BidCreated(w)
    \/ PriceUpdated(w)

Next ==
    \/ \E w \in Workers : QueryStep(w)
    \/ \E w \in Workers : Reject(w)
    \/ \E w \in Workers, u \in Users, p \in Products, c \in StartPrices : CreateProduct(w, u, p, c)
    \/ \E w \in Workers, p \in Products : GetProductByID(w, p)
    \/ \E w \in Workers, u \in Users, p \in Products, a \in Amounts : PlaceBid(w, u, p, a)
    \/ ShutdownBegins
    \/ ConnectionLost
    \/ ShutdownEnds
    \/ ShutdownTimesOut
    \/ ProcessCrash
    \/ ProcessRestart

Spec == Init /\ [][Next]_vars

\* The Go scheduler runs every runnable goroutine, and Postgres answers every
\* query or the connection breaks: no code bounds the wait.
FairSpec == Spec /\ \A w \in Workers : WF_vars(QueryStep(w))

-----------------------------------------------------------------------------
(* Properties. *)

\* Every stored bid is above the price the product was listed at, and so it is
\* positive although PlaceBid never runs the validator on its request: the
\* price a bid is compared with may be stale and may go down, but no sequence
\* of updates brings it below the listing price (service/products.go:113).
BidsAboveStart ==
    \A p \in Products : \A i \in 1..Len(bids[p]) : bids[p][i].price > start[p]

\* The current price is the listing price or the price of a bid that was
\* answered with 200: a bid answered with an error never moves the price, even
\* when its row was stored, and no crash leaves a price without its bid
\* (service/products.go:127-146).
PriceBacked ==
    \A p \in Products :
        price[p] # start[p] => \E b \in acked[p] : b.price = price[p]

\* A bid answered with 200 is in the table: lost connections, shutdowns and
\* crashes take price updates away, never an acknowledged bid
\* (service/products.go:127-152).
AckedBidsStored ==
    \A p \in Products : \A b \in acked[p] : \E i \in 1..Len(bids[p]) : bids[p][i] = b

\* No seller has a bid on a product of theirs, whenever the product was listed
\* and however requests interleave (service/errors.go:11).
NoSelfBid ==
    \A p \in Products : \A i \in 1..Len(bids[p]) : bids[p][i].user # seller[p]

\* No user has two bids in a row on a product (service/errors.go:14).  The check
\* and the insert are two queries: this holds of clients that wait for the
\* answer to a bid before they send another (Overlap = FALSE), and a client that
\* does not wait may break it.
NoConsecutiveBids ==
    \A p \in Products : \A i \in 2..Len(bids[p]) : bids[p][i].user # bids[p][i - 1].user

\* No goroutine ends with the connection still busy on its behalf, which would
\* refuse every later query of the process (dependencies.go:27).
ConnectionReturned == conn \in Workers => pc[conn] # "idle"

\* As long as the connection has not been lost, the bids stored are the bids
\* answered with 200: refused queries, failed checks and late updates leave no
\* bid behind a request answered with an error (handlers/products.go:318-334).
\* Only an interrupted insert does.
ErrorMeansNotStored ==
    conn # "closed" /\ restarts = 0 =>
        \A p \in Products : \A i \in 1..Len(bids[p]) : bids[p][i] \in acked[p]

\* A stored bid was above the current price at the moment it was stored
\* (service/errors.go:13, "bid must be greater than current price").
BidAboveCurrentPrice ==
    [][\A p \in Products : bids'[p] # bids[p] => bids'[p][Len(bids'[p])].price > price[p]]_vars

\* When no goroutine is left, the current price is the price of the latest bid
\* ("Place a bid(update current price)", handlers/products.go:287).
LatestBidPublished ==
    (\A w \in Workers : pc[w] = "idle") =>
        \A p \in Products : Len(bids[p]) > 0 => price[p] = bids[p][Len(bids[p])].price

\* Every request is answered, whatever happens to the connection, unless the
\* process ends first; and every price update ends.
RequestsAnswered ==
    \A w \in Workers :
        /\ (pc[w] \in HandlerQueries) ~> (reply[w] # "none" \/ server = "down")
        /\ (pc[w] = "updatePrice") ~> (pc[w] # "updatePrice")
=============================================================================
