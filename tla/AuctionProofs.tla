---------------------------- MODULE AuctionProofs ----------------------------
(***************************************************************************)
(* The invariants of module Auction, for every number of users, products,  *)
(* goroutines and bids, every set of environment events and every bound:   *)
(* types, the safety of the tables (SafetyInv is inductive, so its four    *)
(* properties hold however requests interleave and whatever fails), and    *)
(* what a goroutine's use of the one connection guarantees: the connection *)
(* is never left to a goroutine that has ended, and until it is lost no    *)
(* error answer hides a stored bid.                                        *)
(***************************************************************************)
EXTENDS AuctionInvariant, TLAPS

-----------------------------------------------------------------------------
(* Types. *)

\* One goroutine slot: what some theorems assume of the instance.
OneAtATime == \A w, x \in Workers : w = x

LEMMA ShapeInit == Init => Shape
  BY DEF Init, Shape, TablesType, GoroutinesType, ServerInit, ServerTypeOK, RequestShape,
         NoRequest, Request, Statuses, BidQueries, HandlerQueries, Queries, Bid

LEMMA ShapeImpliesTypeOK == Shape => TypeOK
  BY DEF Shape, TypeOK, TablesType, GoroutinesType

\* The row that the insert of goroutine w adds.
LEMMA BidOfRequest ==
  ASSUME Shape, NEW w \in Workers, pc[w] = "createBid"
  PROVE  [user |-> req[w].user, price |-> req[w].amount] \in Bid
  BY AuctionAssumption DEF AuctionAssumption, Shape, GoroutinesType, RequestShape, BidQueries, Bid

LEMMA ExecuteType ==
  ASSUME Shape, NEW w \in Workers, MayExecute(w)
  PROVE  TablesType'
  <1> USE DEF Shape, TablesType, GoroutinesType, RequestShape, BidQueries
  <1>1. CASE UNCHANGED tables
    BY <1>1 DEF tables
  <1>2. CASE pc[w] = "addProduct" /\ AddProduct(req[w])
    <2>1. req[w].user \in Users /\ req[w].product \in Products /\ req[w].amount \in Nat
      BY <1>2, AuctionAssumption DEF AuctionAssumption
    <2>2. seller' \in [Products -> Users \cup {None}]
      BY <1>2, <2>1 DEF AddProduct
    <2>3. start' \in [Products -> Nat]
      BY <1>2, <2>1 DEF AddProduct
    <2>4. price' \in [Products -> Int]
      BY <1>2, <2>1 DEF AddProduct
    <2> QED
      BY <1>2, <2>2, <2>3, <2>4 DEF AddProduct
  <1>3. CASE pc[w] = "createBid" /\ CreateBid(req[w])
    <2>1. Append(bids[req[w].product], [user |-> req[w].user, price |-> req[w].amount]) \in Seq(Bid)
      BY <1>3, BidOfRequest
    <2> QED
      BY <1>3, <2>1 DEF CreateBid
  <1>4. CASE pc[w] = "updatePrice" /\ UpdateProductCurrentPrice(req[w])
    BY <1>4 DEF UpdateProductCurrentPrice, Request
  <1> QED
    BY <1>1, <1>2, <1>3, <1>4 DEF MayExecute, Execute

LEMMA FinishType ==
  ASSUME GoroutinesType, NEW w \in Workers, NEW status \in Statuses, Finish(w, status)
  PROVE  GoroutinesType'
  <1>1. NoRequest \in Request
    BY DEF NoRequest, Request
  <1>2. ASSUME NEW x \in Workers
        PROVE  RequestShape(x)'
    BY <1>1 DEF GoroutinesType, Finish, RequestShape, BidQueries
  <1> QED
    BY <1>1, <1>2 DEF GoroutinesType, Finish

LEMMA FinishInErrorType ==
  ASSUME GoroutinesType, NEW w \in Workers, FinishInError(w)
  PROVE  GoroutinesType'
  <1>1. (IF pc[w] = "updatePrice" THEN reply[w] ELSE "500") \in Statuses
    BY DEF GoroutinesType, Statuses
  <1> QED
    BY <1>1, FinishType DEF FinishInError

LEMMA GoOnType ==
  ASSUME GoroutinesType, NEW w \in Workers, NEW query \in BidQueries,
         pc[w] \in BidQueries, GoOn(w, query)
  PROVE  GoroutinesType'
  <1>1. ASSUME NEW x \in Workers
        PROVE  RequestShape(x)'
    BY DEF GoroutinesType, GoOn, RequestShape, BidQueries
  <1> QED
    BY <1>1 DEF GoroutinesType, GoOn, Queries, HandlerQueries

LEMMA ArriveType ==
  ASSUME GoroutinesType, NEW w \in Workers, NEW query \in HandlerQueries, NEW r \in Request,
         r.product \in Products,
         query # "readProduct" => r.user \in Users,
         query \in BidQueries => r.amount \in Amounts,
         query = "addProduct" => r.amount \in StartPrices,
         Arrive(w, query, r)
  PROVE  GoroutinesType'
  <1>1. ASSUME NEW x \in Workers
        PROVE  RequestShape(x)'
    BY DEF GoroutinesType, Arrive, RequestShape, BidQueries, HandlerQueries
  <1> QED
    BY <1>1 DEF GoroutinesType, Arrive, Queries, Statuses

LEMMA GoroutinesEndType ==
  ASSUME Shape, GoroutinesEnd
  PROVE  TablesType' /\ GoroutinesType' /\ acked' \in [Products -> SUBSET Bid]
  <1>1. TablesType'
    <2>1. CASE conn \in Workers
      BY <2>1, ExecuteType DEF GoroutinesEnd
    <2>2. CASE conn \notin Workers
      BY <2>2 DEF GoroutinesEnd, tables, Shape, TablesType
    <2> QED
      BY <2>1, <2>2
  <1>2. GoroutinesType'
    BY DEF GoroutinesEnd, Shape, GoroutinesType, RequestShape, NoRequest, Request, BidQueries
  <1> QED
    BY <1>1, <1>2 DEF GoroutinesEnd, Shape

LEMMA ShapeStep ==
  ASSUME Shape, [Next]_vars
  PROVE  Shape'
  <1>1. ServerTypeOK'
    <2> USE ServerAssumption DEF Shape, ServerTypeOK, ServerAssumption, serverVars
    <2>1. ASSUME NEW w \in Workers, QueryStep(w)
          PROVE  ServerTypeOK'
      BY <2>1 DEF QueryStep, SendQuery, Acquire, QueryFails, Refused, CancelledBefore, Errs, Interrupted,
                  Break, ProductAdded, ProductRead, BidProductRead, BidLatestRead, BidCreated,
                  PriceUpdated, Answered, Release
    <2>2. ASSUME NEW w \in Workers, Reject(w)
          PROVE  ServerTypeOK'
      BY <2>2 DEF Reject
    <2>3. ASSUME NEW w \in Workers, NEW query, NEW r, Arrive(w, query, r)
          PROVE  ServerTypeOK'
      BY <2>3 DEF Arrive
    <2>4. CASE ShutdownBegins \/ ConnectionLost \/ ProcessRestart
      BY <2>4 DEF ShutdownBegins, Signal, ConnectionLost, BreakIdle, ProcessRestart, Restart
    <2>5. CASE ShutdownEnds \/ ShutdownTimesOut \/ ProcessCrash
      BY <2>5 DEF ShutdownEnds, ShutdownDone, ShutdownTimesOut, ShutdownTimeout, ProcessCrash, Crash, Exit
    <2>6. CASE UNCHANGED vars
      BY <2>6 DEF vars
    <2> QED
      BY <2>1, <2>2, <2>3, <2>4, <2>5, <2>6 DEF Next, CreateProduct, GetProductByID, PlaceBid
  <1>2. TablesType' /\ GoroutinesType' /\ acked' \in [Products -> SUBSET Bid]
    <2> USE DEF Shape
    <2>1. ASSUME NEW w \in Workers, QueryStep(w)
          PROVE  TablesType' /\ GoroutinesType' /\ acked' \in [Products -> SUBSET Bid]
      <3>1. CASE SendQuery(w)
        BY <3>1 DEF SendQuery, tables, goroutines, TablesType, GoroutinesType, RequestShape
      <3>2. CASE QueryFails(w)
        BY <3>2, FinishInErrorType DEF QueryFails, tables, TablesType
      <3>3. CASE Interrupted(w)
        BY <3>3, FinishInErrorType, ExecuteType DEF Interrupted
      <3>4. CASE ProductAdded(w)
        BY <3>4, FinishType, ExecuteType DEF ProductAdded, Answered, MayExecute, Statuses
      <3>5. CASE ProductRead(w)
        <4>1. (IF Listed(req[w].product) THEN "200" ELSE "404") \in Statuses
          BY DEF Statuses
        <4> QED
          BY <3>5, <4>1, FinishType, ExecuteType DEF ProductRead, Answered, MayExecute
      <3>6. CASE BidProductRead(w)
        <4>1. GoroutinesType'
          BY <3>6, FinishType, GoOnType DEF BidProductRead, Answered, Statuses, BidQueries
        <4> QED
          BY <3>6, <4>1, ExecuteType DEF BidProductRead, Answered, MayExecute
      <3>7. CASE BidLatestRead(w)
        <4>1. GoroutinesType'
          BY <3>7, FinishType, GoOnType DEF BidLatestRead, Answered, Statuses, BidQueries
        <4> QED
          BY <3>7, <4>1, ExecuteType DEF BidLatestRead, Answered, MayExecute
      <3>8. CASE BidCreated(w)
        <4>1. TablesType'
          BY <3>8, ExecuteType DEF BidCreated, Answered, MayExecute
        <4>2. pc' \in [Workers -> Queries \cup {"idle"}]
          BY <3>8 DEF BidCreated, GoroutinesType, Queries
        <4>3. \A x \in Workers : RequestShape(x)'
          BY <3>8 DEF BidCreated, Answered, GoroutinesType, RequestShape, BidQueries
        <4>4. acked' \in [Products -> SUBSET Bid]
          BY <3>8, BidOfRequest DEF BidCreated, Answered
        <4> QED
          BY <3>8, <4>1, <4>2, <4>3, <4>4 DEF BidCreated, GoroutinesType, Statuses
      <3>9. CASE PriceUpdated(w)
        <4>1. reply[w] \in Statuses
          BY DEF GoroutinesType
        <4> QED
          BY <3>9, <4>1, FinishType, ExecuteType DEF PriceUpdated, Answered, MayExecute
      <3> QED
        BY <2>1, <3>1, <3>2, <3>3, <3>4, <3>5, <3>6, <3>7, <3>8, <3>9 DEF QueryStep
    <2>2. ASSUME NEW w \in Workers, Reject(w)
          PROVE  TablesType' /\ GoroutinesType' /\ acked' \in [Products -> SUBSET Bid]
      BY <2>2 DEF Reject, tables, TablesType, GoroutinesType, RequestShape, Statuses
    <2>3. ASSUME NEW w \in Workers, NEW u \in Users, NEW p \in Products, NEW c \in StartPrices,
                 CreateProduct(w, u, p, c)
          PROVE  TablesType' /\ GoroutinesType' /\ acked' \in [Products -> SUBSET Bid]
      <3> DEFINE r == [user |-> u, product |-> p, amount |-> c]
      <3>1. Arrive(w, "addProduct", r) /\ r \in Request
        BY <2>3, AuctionAssumption DEF CreateProduct, AuctionAssumption, Request
      <3>2. GoroutinesType'
        BY <3>1, ArriveType DEF HandlerQueries, BidQueries
      <3> QED
        BY <3>1, <3>2 DEF Arrive, tables, TablesType
    <2>4. ASSUME NEW w \in Workers, NEW p \in Products, GetProductByID(w, p)
          PROVE  TablesType' /\ GoroutinesType' /\ acked' \in [Products -> SUBSET Bid]
      <3> DEFINE r == [user |-> None, product |-> p, amount |-> 0]
      <3>1. Arrive(w, "readProduct", r) /\ r \in Request
        BY <2>4 DEF GetProductByID, Request
      <3>2. GoroutinesType'
        BY <3>1, ArriveType DEF HandlerQueries, BidQueries
      <3> QED
        BY <3>1, <3>2 DEF Arrive, tables, TablesType
    <2>5. ASSUME NEW w \in Workers, NEW u \in Users, NEW p \in Products, NEW a \in Amounts,
                 PlaceBid(w, u, p, a)
          PROVE  TablesType' /\ GoroutinesType' /\ acked' \in [Products -> SUBSET Bid]
      <3> DEFINE r == [user |-> u, product |-> p, amount |-> a]
      <3>1. Arrive(w, "getProduct", r) /\ r \in Request
        BY <2>5, AuctionAssumption DEF PlaceBid, AuctionAssumption, Request
      <3>2. GoroutinesType'
        BY <3>1, ArriveType DEF HandlerQueries, BidQueries
      <3> QED
        BY <3>1, <3>2 DEF Arrive, tables, TablesType
    <2>6. CASE ShutdownBegins \/ ConnectionLost \/ ProcessRestart
      BY <2>6 DEF ShutdownBegins, ConnectionLost, ProcessRestart, tables, goroutines, TablesType,
                  GoroutinesType, RequestShape
    <2>7. CASE ShutdownEnds \/ ShutdownTimesOut \/ ProcessCrash
      BY <2>7, GoroutinesEndType DEF ShutdownEnds, ShutdownTimesOut, ProcessCrash
    <2>8. CASE UNCHANGED vars
      BY <2>8 DEF vars, tables, goroutines, TablesType, GoroutinesType, RequestShape
    <2> QED
      BY <2>1, <2>2, <2>3, <2>4, <2>5, <2>6, <2>7, <2>8 DEF Next
  <1> QED
    BY <1>1, <1>2 DEF Shape

\* TypeOK holds in every reachable state, whatever the constants.
THEOREM TypeCorrect == Spec => []TypeOK
  <1>1. Shape /\ [Next]_vars => Shape'
    BY ShapeStep
  <1> QED
    BY ShapeInit, ShapeImpliesTypeOK, <1>1, PTL DEF Spec

-----------------------------------------------------------------------------
(* Safety. *)

LEMMA SafetyInit == Init => SafetyInv
  <1> SUFFICES ASSUME Init PROVE SafetyInv
    OBVIOUS
  <1>1. Shape
    BY ShapeInit
  <1>2. SoundTables
    BY DEF Init, SoundTables, BidsAboveStart, PriceBacked, AckedBidsStored, NoSelfBid, UnlistedUntouched
  <1>3. (\A w \in Workers : SoundRequest(w)) /\ OneAdder
    BY DEF Init, SoundRequest, OneAdder
  <1> QED
    BY <1>1, <1>2, <1>3 DEF SafetyInv

-----------------------------------------------------------------------------
(* The tables. *)

\* The current price is never below the listing price: this is what makes a
\* stale price good enough for BidsAboveStart.
LEMMA PriceAtLeastStart ==
  ASSUME Shape, SoundTables, NEW p \in Products
  PROVE  price[p] >= start[p]
  <1> USE DEF Shape, TablesType
  <1>1. CASE price[p] = start[p]
    BY <1>1
  <1>2. CASE price[p] # start[p]
    <2>1. PICK b \in acked[p] : b.price = price[p]
      BY <1>2 DEF SoundTables, PriceBacked
    <2>2. PICK i \in 1..Len(bids[p]) : bids[p][i] = b
      BY DEF SoundTables, AckedBidsStored
    <2>3. b.price > start[p]
      BY <2>2 DEF SoundTables, BidsAboveStart
    <2> QED
      BY <2>1, <2>3
  <1> QED
    BY <1>1, <1>2

\* An insert into bids appends one row.
LEMMA AppendedBid ==
  ASSUME NEW s \in Seq(Bid), NEW b \in Bid
  PROVE  /\ Len(Append(s, b)) = Len(s) + 1
         /\ \A i \in 1..Len(s) : Append(s, b)[i] = s[i]
         /\ Append(s, b)[Len(s) + 1] = b
  OBVIOUS

LEMMA AddProductSafe ==
  ASSUME SafetyInv, NEW w \in Workers, pc[w] = "addProduct", AddProduct(req[w]), acked' = acked
  PROVE  SoundTables'
  <1> DEFINE r == req[w]
  <1> USE DEF SafetyInv, Shape, TablesType
  <1>1. r.product \in Products /\ r.user \in Users /\ r.amount \in Nat
    BY AuctionAssumption DEF AuctionAssumption, GoroutinesType, RequestShape
  <1>2. bids[r.product] = << >>
    <2>1. ~Listed(r.product)
      BY DEF SoundRequest
    <2> QED
      BY <1>1, <2>1 DEF SoundTables, UnlistedUntouched
  <1>3. acked[r.product] = {}
    BY <1>1, <1>2 DEF SoundTables, AckedBidsStored
  <1>4. bids' = bids
    BY DEF AddProduct
  <1>5. \A p \in Products : p # r.product =>
            seller'[p] = seller[p] /\ start'[p] = start[p] /\ price'[p] = price[p]
    BY DEF AddProduct
  <1>6. seller'[r.product] = r.user /\ start'[r.product] = r.amount /\ price'[r.product] = r.amount
    BY <1>1 DEF AddProduct
  <1>7. BidsAboveStart'
    <2> SUFFICES ASSUME NEW p \in Products, NEW i \in 1..Len(bids[p])
                 PROVE  bids[p][i].price > start'[p]
      BY <1>4 DEF BidsAboveStart
    <2>1. p # r.product
      BY <1>2
    <2> QED
      BY <2>1, <1>5 DEF SoundTables, BidsAboveStart
  <1>8. PriceBacked'
    BY <1>5, <1>6 DEF SoundTables, PriceBacked
  <1>9. AckedBidsStored'
    BY <1>4 DEF SoundTables, AckedBidsStored
  <1>10. NoSelfBid'
    BY <1>2, <1>4, <1>5 DEF SoundTables, NoSelfBid
  <1>11. UnlistedUntouched'
    BY <1>2, <1>4, <1>5 DEF SoundTables, UnlistedUntouched, Listed
  <1> QED
    BY <1>7, <1>8, <1>9, <1>10, <1>11 DEF SoundTables

\* The row an insert adds may be acknowledged in the same step, or not.
LEMMA CreateBidSafe ==
  ASSUME SafetyInv, NEW w \in Workers, pc[w] = "createBid", CreateBid(req[w]),
         \/ acked' = acked
         \/ acked' = [acked EXCEPT ![req[w].product] =
                         @ \cup {[user |-> req[w].user, price |-> req[w].amount]}]
  PROVE  SoundTables'
  <1> DEFINE r == req[w]
             q == r.product
             b == [user |-> r.user, price |-> r.amount]
  <1> USE DEF SafetyInv, Shape, TablesType
  <1>1. q \in Products /\ b \in Bid
    BY BidOfRequest DEF GoroutinesType, RequestShape, BidQueries
  <1>2. Listed(q) /\ seller[q] # b.user /\ b.price > start[q]
    BY DEF SoundRequest
  <1>3. /\ \A p \in Products : p # q => bids'[p] = bids[p]
        /\ bids'[q] = Append(bids[q], b)
    BY <1>1 DEF CreateBid
  <1>4. /\ Len(bids'[q]) = Len(bids[q]) + 1
        /\ \A i \in 1..Len(bids[q]) : bids'[q][i] = bids[q][i]
        /\ bids'[q][Len(bids[q]) + 1] = b
    <2>1. bids[q] \in Seq(Bid)
      BY <1>1
    <2> QED
      BY <1>1, <1>3, <2>1, AppendedBid
  <1>5. \A i \in 1..Len(bids'[q]) : i \in 1..Len(bids[q]) \/ i = Len(bids[q]) + 1
    <2>1. Len(bids[q]) \in Nat
      BY <1>1
    <2> QED
      BY <2>1, <1>4
  <1>6. seller' = seller /\ start' = start /\ price' = price
    BY DEF CreateBid
  <1>7. \A p \in Products : acked[p] \subseteq acked'[p]
    OBVIOUS
  <1>8. \A p \in Products : \A a \in acked'[p] : a \in acked[p] \/ (p = q /\ a = b)
    BY <1>1
  <1>9. BidsAboveStart'
    <2> SUFFICES ASSUME NEW p \in Products, NEW i \in 1..Len(bids'[p])
                 PROVE  bids'[p][i].price > start[p]
      BY <1>6 DEF BidsAboveStart
    <2>1. CASE p # q
      BY <2>1, <1>3 DEF SoundTables, BidsAboveStart
    <2>2. CASE p = q /\ i \in 1..Len(bids[q])
      BY <2>2, <1>1, <1>4 DEF SoundTables, BidsAboveStart
    <2>3. CASE p = q /\ i = Len(bids[q]) + 1
      BY <2>3, <1>2, <1>4
    <2> QED
      BY <2>1, <2>2, <2>3, <1>5
  <1>10. NoSelfBid'
    <2> SUFFICES ASSUME NEW p \in Products, NEW i \in 1..Len(bids'[p])
                 PROVE  bids'[p][i].user # seller[p]
      BY <1>6 DEF NoSelfBid
    <2>1. CASE p # q
      BY <2>1, <1>3 DEF SoundTables, NoSelfBid
    <2>2. CASE p = q /\ i \in 1..Len(bids[q])
      BY <2>2, <1>1, <1>4 DEF SoundTables, NoSelfBid
    <2>3. CASE p = q /\ i = Len(bids[q]) + 1
      BY <2>3, <1>2, <1>4
    <2> QED
      BY <2>1, <2>2, <2>3, <1>5
  <1>11. PriceBacked'
    BY <1>6, <1>7 DEF SoundTables, PriceBacked
  <1>12. AckedBidsStored'
    <2> SUFFICES ASSUME NEW p \in Products, NEW a \in acked'[p]
                 PROVE  \E i \in 1..Len(bids'[p]) : bids'[p][i] = a
      BY DEF AckedBidsStored
    <2>1. CASE p = q /\ a = b
      <3>1. Len(bids[q]) \in Nat
        BY <1>1
      <3>2. Len(bids[q]) + 1 \in 1..Len(bids'[q])
        BY <3>1, <1>4
      <3> QED
        BY <2>1, <3>2, <1>4
    <2>2. CASE a \in acked[p]
      <3>1. PICK i \in 1..Len(bids[p]) : bids[p][i] = a
        BY <2>2 DEF SoundTables, AckedBidsStored
      <3>2. i \in 1..Len(bids'[p]) /\ bids'[p][i] = a
        <4>1. CASE p # q
          BY <4>1, <3>1, <1>3
        <4>2. CASE p = q
          <5>1. Len(bids[q]) \in Nat
            BY <1>1
          <5> QED
            BY <4>2, <5>1, <3>1, <1>4
        <4> QED
          BY <4>1, <4>2
      <3> QED
        BY <3>2
    <2> QED
      BY <2>1, <2>2, <1>8
  <1>13. UnlistedUntouched'
    BY <1>2, <1>3, <1>6 DEF SoundTables, UnlistedUntouched, Listed
  <1> QED
    BY <1>9, <1>10, <1>11, <1>12, <1>13 DEF SoundTables

LEMMA UpdatePriceSafe ==
  ASSUME SafetyInv, NEW w \in Workers, pc[w] = "updatePrice",
         UpdateProductCurrentPrice(req[w]), acked' = acked
  PROVE  SoundTables'
  <1> USE DEF SafetyInv, Shape, TablesType, UpdateProductCurrentPrice
  <1>1. req[w].product \in Products
    BY DEF GoroutinesType, RequestShape
  <1>2. \E b \in acked[req[w].product] : b.price = req[w].amount
    BY DEF SoundRequest
  <1>3. PriceBacked'
    BY <1>1, <1>2 DEF SoundTables, PriceBacked
  <1> QED
    BY <1>3 DEF SoundTables, BidsAboveStart, AckedBidsStored, NoSelfBid, UnlistedUntouched, Listed

LEMMA TablesUnchanged ==
  ASSUME SoundTables, UNCHANGED <<tables, acked>>
  PROVE  SoundTables'
  BY DEF tables, SoundTables, BidsAboveStart, PriceBacked, AckedBidsStored, NoSelfBid,
         UnlistedUntouched, Listed

LEMMA MayExecuteSafe ==
  ASSUME SafetyInv, NEW w \in Workers, MayExecute(w), acked' = acked
  PROVE  SoundTables'
  <1>1. CASE UNCHANGED tables
    BY <1>1, TablesUnchanged DEF SafetyInv
  <1> QED
    BY <1>1, AddProductSafe, CreateBidSafe, UpdatePriceSafe DEF MayExecute, Execute

-----------------------------------------------------------------------------
(* The goroutines. *)

\* What a goroutine's checks established survives the statement of another.
LEMMA OtherRequestsSound ==
  ASSUME SafetyInv, NEW w \in Workers, MayExecute(w),
         \A p \in Products : acked[p] \subseteq acked'[p],
         NEW x \in Workers, x # w, pc'[x] = pc[x], req'[x] = req[x]
  PROVE  SoundRequest(x)'
  <1> USE DEF SafetyInv, Shape, TablesType, GoroutinesType
  <1>1. SoundRequest(x)
    OBVIOUS
  <1>2. /\ pc[x] \in BidQueries \cup {"addProduct", "updatePrice"} => req[x].product \in Products
        /\ pc[x] = "addProduct" => req[x].user \in Users
    BY DEF RequestShape
  <1>3. CASE UNCHANGED <<seller, start>>
    BY <1>1, <1>2, <1>3 DEF SoundRequest, Listed, BidQueries
  <1>4. CASE pc[w] = "addProduct" /\ AddProduct(req[w])
    <2>1. req[w].product \in Products /\ ~Listed(req[w].product)
      BY <1>4 DEF SoundRequest, RequestShape
    <2>2. \A p \in Products : p # req[w].product => seller'[p] = seller[p] /\ start'[p] = start[p]
      BY <1>4 DEF AddProduct
    <2>3. pc[x] = "addProduct" => req[x].product # req[w].product
      BY <1>4 DEF OneAdder
    <2>4. pc[x] \in {"latestBid", "createBid"} => req[x].product # req[w].product
      BY <1>1, <2>1 DEF SoundRequest
    <2> QED
      BY <1>1, <1>2, <2>2, <2>3, <2>4 DEF SoundRequest, Listed, BidQueries
  <1> QED
    BY <1>3, <1>4 DEF MayExecute, Execute, CreateBid, UpdateProductCurrentPrice, tables

\* A goroutine that ends leaves the others' requests as they were.
LEMMA FinishSafe ==
  ASSUME SafetyInv, Shape', NEW w \in Workers, NEW status, Finish(w, status),
         MayExecute(w), acked' = acked
  PROVE  SafetyInv'
  <1> USE DEF SafetyInv, Shape, GoroutinesType
  <1>1. pc'[w] = "idle" /\ \A x \in Workers : x # w => pc'[x] = pc[x] /\ req'[x] = req[x]
    BY DEF Finish
  <1>2. SoundTables'
    BY MayExecuteSafe
  <1>3. ASSUME NEW x \in Workers
        PROVE  SoundRequest(x)'
    <2>1. CASE x = w
      BY <2>1, <1>1 DEF SoundRequest
    <2>2. CASE x # w
      BY <2>2, <1>1, OtherRequestsSound
    <2> QED
      BY <2>1, <2>2
  <1>4. OneAdder'
    BY <1>1 DEF OneAdder
  <1> QED
    BY <1>2, <1>3, <1>4

\* A step that leaves the tables alone and moves one goroutine to a query other
\* than the insert of a product.
LEMMA MoveSafe ==
  ASSUME SafetyInv, Shape', NEW w \in Workers, UNCHANGED tables, acked' = acked,
         \A x \in Workers : x # w => pc'[x] = pc[x] /\ req'[x] = req[x],
         SoundRequest(w)',
         pc'[w] = "addProduct" =>
             \A x \in Workers : ~(pc[x] = "addProduct" /\ req[x].product = req'[w].product)
  PROVE  SafetyInv'
  <1> USE DEF SafetyInv
  <1>1. SoundTables'
    BY TablesUnchanged
  <1>2. ASSUME NEW x \in Workers
        PROVE  SoundRequest(x)'
    <2>1. CASE x # w
      BY <2>1, OtherRequestsSound DEF MayExecute
    <2> QED
      BY <2>1
  <1>3. OneAdder'
    BY DEF OneAdder
  <1> QED
    BY <1>1, <1>2, <1>3

\* A step that leaves tables and goroutines alone.
LEMMA StutterSafe ==
  ASSUME SafetyInv, Shape', UNCHANGED <<tables, acked, pc, req>>
  PROVE  SafetyInv'
  <1>1. SoundTables'
    BY TablesUnchanged DEF SafetyInv
  <1>2. (\A w \in Workers : SoundRequest(w))' /\ OneAdder'
    BY DEF SafetyInv, SoundRequest, OneAdder, Listed, tables
  <1> QED
    BY <1>1, <1>2 DEF SafetyInv

LEMMA ArriveSafe ==
  ASSUME SafetyInv, Shape', NEW w \in Workers, NEW query \in {"addProduct", "readProduct", "getProduct"},
         NEW r, Arrive(w, query, r),
         query = "addProduct" =>
             /\ r.product \in Products /\ ~Listed(r.product)
             /\ \A x \in Workers : ~(pc[x] = "addProduct" /\ req[x].product = r.product)
  PROVE  SafetyInv'
  <1> USE DEF SafetyInv, Shape, GoroutinesType, Arrive
  <1>1. \A x \in Workers : x # w => pc'[x] = pc[x] /\ req'[x] = req[x]
    OBVIOUS
  <1>2. pc'[w] = query /\ req'[w] = r
    OBVIOUS
  <1>3. SoundRequest(w)'
    BY <1>2 DEF SoundRequest, Listed, tables
  <1> QED
    BY <1>1, <1>2, <1>3, MoveSafe

LEMMA BidProductReadSafe ==
  ASSUME SafetyInv, Shape', NEW w \in Workers, BidProductRead(w)
  PROVE  SafetyInv'
  <1> USE DEF SafetyInv, Shape, GoroutinesType
  <1> DEFINE r == req[w]
  <1>1. MayExecute(w) /\ UNCHANGED tables /\ acked' = acked /\ pc[w] = "getProduct"
    BY DEF BidProductRead, Answered, Execute, MayExecute
  <1>2. CASE \E status \in Statuses : Finish(w, status)
    BY <1>1, <1>2, FinishSafe
  <1>3. CASE /\ Listed(r.product) /\ seller[r.product] # r.user
             /\ r.amount > price[r.product] /\ GoOn(w, "latestBid")
    <2>1. r.product \in Products /\ r.amount \in Int
      BY <1>1, AuctionAssumption DEF AuctionAssumption, RequestShape, BidQueries
    <2>2. price[r.product] >= start[r.product]
      BY <2>1, PriceAtLeastStart
    <2>3. r.amount > start[r.product]
      BY <1>3, <2>1, <2>2 DEF TablesType
    <2>4. /\ pc'[w] = "latestBid" /\ req'[w] = r
          /\ \A x \in Workers : x # w => pc'[x] = pc[x] /\ req'[x] = req[x]
      BY <1>3 DEF GoOn
    <2>5. SoundRequest(w)'
      BY <1>1, <1>3, <2>3, <2>4 DEF SoundRequest, Listed, tables
    <2> QED
      BY <1>1, <2>4, <2>5, MoveSafe
  <1> QED
    BY <1>2, <1>3 DEF BidProductRead, Statuses

LEMMA BidLatestReadSafe ==
  ASSUME SafetyInv, Shape', NEW w \in Workers, BidLatestRead(w)
  PROVE  SafetyInv'
  <1> USE DEF SafetyInv, Shape, GoroutinesType
  <1>1. MayExecute(w) /\ UNCHANGED tables /\ acked' = acked /\ pc[w] = "latestBid"
    BY DEF BidLatestRead, Answered, Execute, MayExecute
  <1>2. CASE Finish(w, "500")
    BY <1>1, <1>2, FinishSafe
  <1>3. CASE GoOn(w, "createBid")
    <2>1. /\ pc'[w] = "createBid" /\ req' = req
          /\ \A x \in Workers : x # w => pc'[x] = pc[x]
      BY <1>3 DEF GoOn
    <2>2. SoundRequest(w)'
      BY <1>1, <2>1 DEF SoundRequest, Listed, tables
    <2> QED
      BY <1>1, <2>1, <2>2, MoveSafe
  <1> QED
    BY <1>2, <1>3 DEF BidLatestRead

LEMMA BidCreatedSafe ==
  ASSUME SafetyInv, Shape', NEW w \in Workers, BidCreated(w)
  PROVE  SafetyInv'
  <1> USE DEF SafetyInv, Shape, GoroutinesType
  <1> DEFINE r == req[w]
             b == [user |-> r.user, price |-> r.amount]
  <1>1. pc[w] = "createBid" /\ CreateBid(r) /\ MayExecute(w)
    BY DEF BidCreated, Answered, Execute, MayExecute
  <1>2. acked' = [acked EXCEPT ![r.product] = @ \cup {b}]
    BY DEF BidCreated
  <1>3. /\ pc'[w] = "updatePrice" /\ req' = req
        /\ \A x \in Workers : x # w => pc'[x] = pc[x]
    BY DEF BidCreated
  <1>4. r.product \in Products
    BY <1>1 DEF RequestShape, BidQueries
  <1>5. SoundTables'
    BY <1>1, <1>2, CreateBidSafe
  <1>6. ASSUME NEW x \in Workers
        PROVE  SoundRequest(x)'
    <2>1. CASE x = w
      <3>1. b \in acked'[r.product] /\ b.price = r.amount
        BY <1>2, <1>4
      <3> QED
        BY <2>1, <3>1, <1>3 DEF SoundRequest
    <2>2. CASE x # w
      <3>1. \A p \in Products : acked[p] \subseteq acked'[p]
        BY <1>2
      <3> QED
        BY <2>2, <3>1, <1>1, <1>3, OtherRequestsSound
    <2> QED
      BY <2>1, <2>2
  <1>7. OneAdder'
    BY <1>3 DEF OneAdder
  <1> QED
    BY <1>5, <1>6, <1>7

LEMMA GoroutinesEndSafe ==
  ASSUME SafetyInv, Shape', GoroutinesEnd
  PROVE  SafetyInv'
  <1>1. SoundTables'
    <2>1. CASE conn \in Workers
      BY <2>1, MayExecuteSafe DEF GoroutinesEnd
    <2>2. CASE conn \notin Workers
      BY <2>2, TablesUnchanged DEF GoroutinesEnd, SafetyInv
    <2> QED
      BY <2>1, <2>2
  <1>2. (\A w \in Workers : SoundRequest(w))' /\ OneAdder'
    BY DEF GoroutinesEnd, SoundRequest, OneAdder
  <1> QED
    BY <1>1, <1>2 DEF SafetyInv

LEMMA SafetyStep ==
  ASSUME SafetyInv, [Next]_vars
  PROVE  SafetyInv'
  <1>1. Shape'
    BY ShapeStep DEF SafetyInv
  <1>2. ASSUME NEW w \in Workers, QueryStep(w)
        PROVE  SafetyInv'
    <2>1. CASE SendQuery(w)
      BY <1>1, <2>1, StutterSafe DEF SendQuery, goroutines
    <2>2. CASE QueryFails(w)
      BY <1>1, <2>2, FinishSafe DEF QueryFails, FinishInError, MayExecute
    <2>3. CASE Interrupted(w)
      BY <1>1, <2>3, FinishSafe DEF Interrupted, FinishInError
    <2>4. CASE ProductAdded(w) \/ ProductRead(w) \/ PriceUpdated(w)
      BY <1>1, <2>4, FinishSafe DEF ProductAdded, ProductRead, PriceUpdated, Answered, MayExecute
    <2>5. CASE BidProductRead(w)
      BY <1>1, <2>5, BidProductReadSafe
    <2>6. CASE BidLatestRead(w)
      BY <1>1, <2>6, BidLatestReadSafe
    <2>7. CASE BidCreated(w)
      BY <1>1, <2>7, BidCreatedSafe
    <2> QED
      BY <1>2, <2>1, <2>2, <2>3, <2>4, <2>5, <2>6, <2>7 DEF QueryStep
  <1>3. ASSUME NEW w \in Workers, Reject(w)
        PROVE  SafetyInv'
    BY <1>1, <1>3, StutterSafe DEF Reject
  <1>4. ASSUME NEW w \in Workers, NEW u \in Users, NEW p \in Products, NEW c \in StartPrices,
               CreateProduct(w, u, p, c)
        PROVE  SafetyInv'
    BY <1>1, <1>4, ArriveSafe DEF CreateProduct
  <1>5. ASSUME NEW w \in Workers, NEW p \in Products, GetProductByID(w, p)
        PROVE  SafetyInv'
    BY <1>1, <1>5, ArriveSafe DEF GetProductByID
  <1>6. ASSUME NEW w \in Workers, NEW u \in Users, NEW p \in Products, NEW a \in Amounts,
               PlaceBid(w, u, p, a)
        PROVE  SafetyInv'
    BY <1>1, <1>6, ArriveSafe DEF PlaceBid
  <1>7. CASE ShutdownBegins \/ ConnectionLost \/ ProcessRestart
    BY <1>1, <1>7, StutterSafe DEF ShutdownBegins, ConnectionLost, ProcessRestart, goroutines
  <1>8. CASE ShutdownEnds \/ ShutdownTimesOut \/ ProcessCrash
    BY <1>1, <1>8, GoroutinesEndSafe DEF ShutdownEnds, ShutdownTimesOut, ProcessCrash
  <1>9. CASE UNCHANGED vars
    BY <1>1, <1>9, StutterSafe DEF vars, goroutines
  <1> QED
    BY <1>2, <1>3, <1>4, <1>5, <1>6, <1>7, <1>8, <1>9 DEF Next

-----------------------------------------------------------------------------
(* The theorems. *)

\* SafetyInv is an invariant: what a handler has checked still holds when its
\* statement runs (service/products.go:104-146).
THEOREM SafetyInvariant == Spec => []SafetyInv
  <1>1. SafetyInv /\ [Next]_vars => SafetyInv'
    BY SafetyStep
  <1> QED
    BY SafetyInit, <1>1, PTL DEF Spec

\* Every stored bid is above the price its product was listed at.
THEOREM BidsStayAboveStart == Spec => []BidsAboveStart
  <1>1. SafetyInv => BidsAboveStart
    BY DEF SafetyInv, SoundTables
  <1> QED
    BY SafetyInvariant, <1>1, PTL

\* The current price is the listing price or that of an acknowledged bid.
THEOREM PriceStaysBacked == Spec => []PriceBacked
  <1>1. SafetyInv => PriceBacked
    BY DEF SafetyInv, SoundTables
  <1> QED
    BY SafetyInvariant, <1>1, PTL

\* An acknowledged bid is never lost.
THEOREM AckedBidsStayStored == Spec => []AckedBidsStored
  <1>1. SafetyInv => AckedBidsStored
    BY DEF SafetyInv, SoundTables
  <1> QED
    BY SafetyInvariant, <1>1, PTL

\* No seller bids on a product of theirs.
THEOREM NoSellerBids == Spec => []NoSelfBid
  <1>1. SafetyInv => NoSelfBid
    BY DEF SafetyInv, SoundTables
  <1> QED
    BY SafetyInvariant, <1>1, PTL

-----------------------------------------------------------------------------
(* The connection. *)

LEMMA ConnStates == "idle" \notin Workers /\ "closed" \notin Workers
  BY ServerAssumption DEF ServerAssumption

LEMMA ConnectionReturnedStep ==
  ASSUME Shape, ConnectionReturned, [Next]_vars
  PROVE  ConnectionReturned'
  <1> USE ConnStates DEF ConnectionReturned
  <1> pc \in [Workers -> Queries \cup {"idle"}]
    BY DEF Shape, GoroutinesType
  <1>1. ASSUME NEW w \in Workers, QueryStep(w)
        PROVE  ConnectionReturned'
    <2>1. CASE SendQuery(w)
      BY <2>1 DEF SendQuery, Acquire, goroutines
    <2>2. CASE QueryFails(w)
      <3>1. conn' # w /\ (conn' = conn \/ conn' = "idle")
        BY <2>2 DEF QueryFails, Refused, CancelledBefore, Errs, serverVars
      <3>2. pc' = [pc EXCEPT ![w] = "idle"]
        BY <2>2 DEF QueryFails, FinishInError, Finish
      <3> QED
        BY <3>1, <3>2
    <2>3. CASE Interrupted(w)
      BY <2>3 DEF Interrupted, Break
    <2>4. CASE \/ ProductAdded(w) \/ ProductRead(w) \/ BidProductRead(w)
               \/ BidLatestRead(w) \/ BidCreated(w) \/ PriceUpdated(w)
      BY <2>4 DEF ProductAdded, ProductRead, BidProductRead, BidLatestRead, BidCreated, PriceUpdated,
                  Answered, Release
    <2> QED
      BY <1>1, <2>1, <2>2, <2>3, <2>4 DEF QueryStep
  <1>2. ASSUME NEW w \in Workers, NEW query \in HandlerQueries, NEW r, Arrive(w, query, r)
        PROVE  ConnectionReturned'
    BY <1>2 DEF Arrive, serverVars
  <1>3. ASSUME NEW w \in Workers, Reject(w)
        PROVE  ConnectionReturned'
    BY <1>3 DEF Reject, serverVars
  <1>4. CASE ShutdownBegins \/ ConnectionLost \/ ProcessRestart
    BY <1>4 DEF ShutdownBegins, Signal, ConnectionLost, BreakIdle, ProcessRestart, Restart, goroutines
  <1>5. CASE ShutdownEnds \/ ShutdownTimesOut \/ ProcessCrash
    BY <1>5 DEF ShutdownEnds, ShutdownDone, ShutdownTimesOut, ShutdownTimeout, ProcessCrash, Crash, Exit
  <1>6. CASE UNCHANGED vars
    BY <1>6 DEF vars, serverVars, goroutines
  <1> QED
    BY <1>1, <1>2, <1>3, <1>4, <1>5, <1>6
    DEF Next, CreateProduct, GetProductByID, PlaceBid, HandlerQueries, BidQueries

-----------------------------------------------------------------------------
\* Steps that store nothing, take nothing back and do not mend the connection.
LEMMA NothingStored ==
  ASSUME ErrorMeansNotStored, bids' = bids, acked' = acked,
         restarts' = restarts, conn = "closed" => conn' = "closed"
  PROVE  ErrorMeansNotStored'
  BY DEF ErrorMeansNotStored

\* The insert that was answered: the row and the answer come together.
LEMMA StoredAndAnswered ==
  ASSUME Shape, ErrorMeansNotStored, NEW w \in Workers, BidCreated(w)
  PROVE  ErrorMeansNotStored'
  <1> DEFINE q == req[w].product
             b == [user |-> req[w].user, price |-> req[w].amount]
  <1>1. pc[w] = "createBid" /\ CreateBid(req[w]) /\ conn = w /\ restarts' = restarts
    BY DEF BidCreated, Answered, Release, Execute
  <1>2. q \in Products /\ b \in Bid
    BY <1>1, BidOfRequest DEF Shape, GoroutinesType, RequestShape, BidQueries
  <1>3. bids[q] \in Seq(Bid)
    BY <1>2 DEF Shape, TablesType
  <1>4. /\ \A p \in Products : p # q => bids'[p] = bids[p]
        /\ bids'[q] = Append(bids[q], b)
    BY <1>1, <1>2 DEF CreateBid, Shape, TablesType
  <1>5. /\ Len(bids'[q]) = Len(bids[q]) + 1
        /\ \A i \in 1..Len(bids'[q]) : i \in 1..Len(bids[q]) \/ i = Len(bids'[q])
        /\ \A i \in 1..Len(bids[q]) : bids'[q][i] = bids[q][i]
        /\ bids'[q][Len(bids'[q])] = b
    BY <1>2, <1>3, <1>4
  <1>6. /\ \A p \in Products : acked[p] \subseteq acked'[p]
        /\ b \in acked'[q]
    BY <1>2 DEF BidCreated, Shape
  <1> SUFFICES ASSUME restarts = 0, NEW p \in Products, NEW i \in 1..Len(bids'[p])
               PROVE  bids'[p][i] \in acked'[p]
    BY <1>1 DEF ErrorMeansNotStored
  <1>7. \A x \in Products : \A j \in 1..Len(bids[x]) : bids[x][j] \in acked[x]
    BY <1>1, ConnStates DEF ErrorMeansNotStored
  <1>8. CASE p # q
    BY <1>8, <1>4, <1>6, <1>7
  <1>9. CASE p = q /\ i \in 1..Len(bids[q])
    BY <1>9, <1>5, <1>6, <1>7
  <1>10. CASE p = q /\ i = Len(bids'[q])
    BY <1>10, <1>5, <1>6
  <1> QED
    BY <1>5, <1>8, <1>9, <1>10

LEMMA ErrorMeansNotStoredStep ==
  ASSUME Shape, ErrorMeansNotStored, [Next]_vars
  PROVE  ErrorMeansNotStored'
  <1> USE ConnStates
  <1>1. ASSUME NEW w \in Workers, QueryStep(w)
        PROVE  ErrorMeansNotStored'
    <2>1. CASE SendQuery(w)
      BY <2>1, NothingStored DEF SendQuery, Acquire, tables
    <2>2. CASE QueryFails(w)
      BY <2>2, NothingStored DEF QueryFails, Refused, CancelledBefore, Errs, serverVars, tables
    <2>3. CASE Interrupted(w)
      BY <2>3 DEF Interrupted, Break, ErrorMeansNotStored
    <2>4. CASE \/ ProductAdded(w) \/ ProductRead(w) \/ BidProductRead(w)
               \/ BidLatestRead(w) \/ PriceUpdated(w)
      <3>1. conn = w /\ restarts' = restarts /\ acked' = acked
        BY <2>4 DEF ProductAdded, ProductRead, BidProductRead, BidLatestRead, PriceUpdated, Answered, Release
      <3>2. bids' = bids
        BY <2>4 DEF ProductAdded, ProductRead, BidProductRead, BidLatestRead, PriceUpdated, Answered,
                    Execute, AddProduct, UpdateProductCurrentPrice, tables
      <3> QED
        BY <3>1, <3>2, NothingStored
    <2>5. CASE BidCreated(w)
      BY <2>5, StoredAndAnswered
    <2> QED
      BY <1>1, <2>1, <2>2, <2>3, <2>4, <2>5 DEF QueryStep
  <1>2. ASSUME NEW w \in Workers, NEW query \in HandlerQueries, NEW r, Arrive(w, query, r)
        PROVE  ErrorMeansNotStored'
    BY <1>2, NothingStored DEF Arrive, serverVars, tables
  <1>3. ASSUME NEW w \in Workers, Reject(w)
        PROVE  ErrorMeansNotStored'
    BY <1>3, NothingStored DEF Reject, serverVars, tables
  <1>4. CASE ShutdownBegins \/ ConnectionLost
    BY <1>4, NothingStored DEF ShutdownBegins, Signal, ConnectionLost, BreakIdle, tables
  <1>5. CASE ProcessRestart
    <2>1. restarts' # 0
      BY <1>5 DEF ProcessRestart, Restart, Shape, ServerTypeOK
    <2> QED
      BY <2>1 DEF ErrorMeansNotStored
  <1>6. CASE ShutdownEnds \/ ShutdownTimesOut \/ ProcessCrash
    BY <1>6 DEF ShutdownEnds, ShutdownDone, ShutdownTimesOut, ShutdownTimeout, ProcessCrash, Crash, Exit,
                ErrorMeansNotStored
  <1>7. CASE UNCHANGED vars
    BY <1>7, NothingStored DEF vars, serverVars, tables
  <1> QED
    BY <1>1, <1>2, <1>3, <1>4, <1>5, <1>6, <1>7
    DEF Next, CreateProduct, GetProductByID, PlaceBid, HandlerQueries, BidQueries

-----------------------------------------------------------------------------
(* The theorems. *)

\* No goroutine ends and leaves the connection busy (dependencies.go:27).
THEOREM ConnectionAlwaysReturned == Spec => []ConnectionReturned
  <1>1. Init => Shape /\ ConnectionReturned
    BY ShapeInit, ConnStates DEF Init, ServerInit, ConnectionReturned
  <1>2. Shape /\ ConnectionReturned /\ [Next]_vars => Shape' /\ ConnectionReturned'
    BY ShapeStep, ConnectionReturnedStep
  <1> QED
    BY <1>1, <1>2, PTL DEF Spec

\* Until the connection is first lost, a bid in the table is a bid that was
\* answered with 200 (handlers/products.go:318-334).
THEOREM ErrorsStoreNothing == Spec => []ErrorMeansNotStored
  <1>1. Init => Shape /\ ErrorMeansNotStored
    BY ShapeInit DEF Init, ErrorMeansNotStored
  <1>2. Shape /\ ErrorMeansNotStored /\ [Next]_vars => Shape' /\ ErrorMeansNotStored'
    BY ShapeStep, ErrorMeansNotStoredStep
  <1> QED
    BY <1>1, <1>2, PTL DEF Spec
=============================================================================
