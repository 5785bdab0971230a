------------------------ MODULE AuctionSerialProofs ------------------------
(***************************************************************************)
(* With one goroutine at a time and no failure, the three queries and the  *)
(* background update of PlaceBid amount to one step of the English         *)
(* auction, for any number of users and products and any amounts.  One     *)
(* goroutine is less than requests one at a time: the update of an         *)
(* answered bid is a goroutine too, and nothing in the code makes the next *)
(* request wait for it.                                                    *)
(***************************************************************************)
EXTENDS AuctionRefinementProofs

Undisturbed == OneAtATime /\ Events = {}

LEMMA ChosenIsMember ==
  ASSUME NEW S, S # {}
  PROVE  (CHOOSE x \in S : TRUE) \in S
  OBVIOUS

\* With one goroutine the published price is the current price, with the update
\* of that goroutine counted as done.
LEMMA Published ==
  ASSUME OneAtATime, Shape, NEW w \in Workers
  PROVE  PublishedPrice =
            IF pc[w] = "updatePrice" THEN [price EXCEPT ![req[w].product] = req[w].amount] ELSE price
  <1>1. price \in [Products -> Int]
    BY DEF Shape, TablesType
  <1>2. ASSUME NEW p \in Products
        PROVE  PublishedPrice[p] =
                  IF pc[w] = "updatePrice" /\ req[w].product = p THEN req[w].amount ELSE price[p]
    <2>1. UpdatesOf(p) = IF pc[w] = "updatePrice" /\ req[w].product = p THEN {w} ELSE {}
      BY DEF OneAtATime, UpdatesOf
    <2>2. (CHOOSE x \in {w} : TRUE) = w
      BY ChosenIsMember
    <2> QED
      BY <2>1, <2>2 DEF PublishedPrice
  <1> QED
    BY <1>1, <1>2 DEF PublishedPrice

\* The same after a step.
LEMMA PublishedAfter ==
  ASSUME OneAtATime, Shape', NEW w \in Workers
  PROVE  PublishedPrice' =
            IF pc'[w] = "updatePrice" THEN [price' EXCEPT ![req'[w].product] = req'[w].amount] ELSE price'
  <1>1. price' \in [Products -> Int]
    BY DEF Shape, TablesType
  <1>2. ASSUME NEW p \in Products
        PROVE  PublishedPrice'[p] =
                  IF pc'[w] = "updatePrice" /\ req'[w].product = p THEN req'[w].amount ELSE price'[p]
    <2>1. UpdatesOf(p)' = IF pc'[w] = "updatePrice" /\ req'[w].product = p THEN {w} ELSE {}
      BY DEF OneAtATime, UpdatesOf
    <2>2. (CHOOSE x \in {w} : TRUE) = w
      BY ChosenIsMember
    <2> QED
      BY <2>1, <2>2 DEF PublishedPrice
  <1> QED
    BY <1>1, <1>2 DEF PublishedPrice

-----------------------------------------------------------------------------
(* The steps. *)

SerialStep == SerialInv' /\ [E!Next]_E!vars

\* Steps that the tables take no part in and that start and end no update.
LEMMA SerialMove ==
  ASSUME OneAtATime, Shape, Shape', SerialInv, NEW w \in Workers,
         UNCHANGED tables, server' = "up", conn' # "closed",
         pc[w] # "updatePrice", pc'[w] # "updatePrice",
         pc'[w] \in {"latestBid", "createBid"} => req'[w].amount > price[req'[w].product],
         pc'[w] = "createBid" => ~Leads(req'[w].user, req'[w].product)
  PROVE  SerialStep
  <1>1. PublishedPrice' = PublishedPrice
    BY Published, PublishedAfter DEF tables
  <1>2. SerialInv'
    BY <1>1 DEF SerialInv, OneAtATime, InserterDoesNotLead, Leads, tables
  <1> QED
    BY <1>1, <1>2 DEF SerialStep, E!vars, tables

LEMMA ProductAddedSerial ==
  ASSUME OneAtATime, SafetyInv, SafetyInv', SerialInv, NEW w \in Workers, ProductAdded(w)
  PROVE  SerialStep
  <1> DEFINE r == req[w]
  <1> USE DEF SafetyInv, Shape, TablesType
  <1>1. /\ pc[w] = "addProduct" /\ pc'[w] = "idle" /\ AddProduct(r)
        /\ r.user \in Users /\ r.product \in Products /\ r.amount \in StartPrices
    BY DEF ProductAdded, Answered, Execute, Finish, GoroutinesType, RequestShape
  <1>2. seller[r.product] = None /\ bids[r.product] = << >>
    BY <1>1 DEF SoundRequest, SoundTables, UnlistedUntouched, Listed
  <1>3. PublishedPrice = price /\ PublishedPrice' = price'
    BY <1>1, Published, PublishedAfter
  <1>4. SerialInv'
    <2>1. server' = "up" /\ conn' # "closed"
      BY DEF ProductAdded, Answered, Release, SerialInv
    <2>2. \A x \in Workers : pc'[x] = "idle"
      BY <1>1 DEF OneAtATime
    <2>3. ASSUME NEW p \in Products, Len(bids'[p]) > 0
          PROVE  price'[p] = bids'[p][Len(bids'[p])].price
      BY <1>1, <1>2, <1>3, <2>3 DEF AddProduct, SerialInv
    <2> QED
      BY <1>3, <2>1, <2>2, <2>3 DEF SerialInv, InserterDoesNotLead
  <1>5. E!List(r.product, r.user, r.amount)
    BY <1>1, <1>2, <1>3 DEF AddProduct, E!List
  <1> QED
    BY <1>1, <1>4, <1>5 DEF SerialStep, E!Next

LEMMA BidCreatedSerial ==
  ASSUME OneAtATime, SafetyInv, SafetyInv', SerialInv, NEW w \in Workers, BidCreated(w)
  PROVE  SerialStep
  <1> DEFINE r == req[w]
             b == [user |-> r.user, price |-> r.amount]
  <1> USE DEF SafetyInv, Shape, TablesType
  <1>1. /\ pc[w] = "createBid" /\ pc'[w] = "updatePrice" /\ req' = req /\ CreateBid(r)
        /\ r.user \in Users /\ r.product \in Products /\ r.amount \in Amounts
    BY DEF BidCreated, Answered, Execute, GoroutinesType, RequestShape, BidQueries
  <1>2. /\ seller[r.product] \notin {None, r.user} /\ r.amount > price[r.product]
        /\ ~Leads(r.user, r.product)
    BY <1>1 DEF SoundRequest, Listed, SerialInv, InserterDoesNotLead
  <1>3. PublishedPrice = price /\ PublishedPrice' = [price EXCEPT ![r.product] = r.amount]
    BY <1>1, Published, PublishedAfter DEF CreateBid
  <1>4. b \in Bid
    BY <1>1, AuctionAssumption DEF AuctionAssumption, Bid
  <1>5. /\ bids' = [bids EXCEPT ![r.product] = Append(@, b)] /\ bids[r.product] \in Seq(Bid)
    BY <1>1 DEF CreateBid
  <1>6. SerialInv'
    <2>1. server' = "up" /\ conn' # "closed"
      BY DEF BidCreated, Answered, Release, SerialInv
    <2>2. \A x \in Workers : pc'[x] = "updatePrice"
      BY <1>1 DEF OneAtATime
    <2>3. ASSUME NEW p \in Products, Len(bids'[p]) > 0
          PROVE  PublishedPrice'[p] = bids'[p][Len(bids'[p])].price
      <3>1. CASE p = r.product
        <4>1. bids'[p] = Append(bids[p], b)
          BY <1>5, <3>1
        <4>2. Len(bids'[p]) = Len(bids[p]) + 1 /\ bids'[p][Len(bids[p]) + 1] = b
          BY <1>4, <4>1, AppendedBid
        <4> QED
          BY <1>3, <3>1, <4>2
      <3>2. CASE p # r.product
        BY <1>3, <1>5, <2>3, <3>2 DEF SerialInv
      <3> QED
        BY <3>1, <3>2
    <2> QED
      BY <2>1, <2>2, <2>3 DEF SerialInv, InserterDoesNotLead
  <1>7. E!TakeBid(r.product, r.user, r.amount)
    BY <1>1, <1>2, <1>3, <1>5 DEF CreateBid, Leads, E!TakeBid
  <1> QED
    BY <1>1, <1>6, <1>7 DEF SerialStep, E!Next

LEMMA PriceUpdatedSerial ==
  ASSUME OneAtATime, Shape, Shape', SerialInv, NEW w \in Workers, PriceUpdated(w)
  PROVE  SerialStep
  <1> DEFINE r == req[w]
  <1>1. pc[w] = "updatePrice" /\ pc'[w] = "idle" /\ UpdateProductCurrentPrice(r)
    BY DEF PriceUpdated, Answered, Execute, Finish, Shape, GoroutinesType
  <1>2. PublishedPrice' = PublishedPrice /\ UNCHANGED <<seller, bids>>
    BY <1>1, Published, PublishedAfter DEF UpdateProductCurrentPrice
  <1>3. \A x \in Workers : pc'[x] = "idle"
    BY <1>1 DEF OneAtATime
  <1>4. SerialInv'
    BY <1>2, <1>3 DEF SerialInv, InserterDoesNotLead, PriceUpdated, Answered, Release
  <1> QED
    BY <1>2, <1>4 DEF SerialStep, E!vars

LEMMA SerialQueryStep ==
  ASSUME Undisturbed, SafetyInv, SafetyInv', SerialInv, NEW w \in Workers, QueryStep(w)
  PROVE  SerialStep
  <1> OneAtATime /\ Events = {}
    BY DEF Undisturbed
  <1> USE DEF SafetyInv, Shape, GoroutinesType
  <1>1. CASE SendQuery(w)
    <2>1. UNCHANGED <<tables, pc, req>> /\ server' = "up" /\ conn' = w /\ w # "closed"
      BY <1>1, ServerAssumption DEF SendQuery, Acquire, goroutines, SerialInv, ServerAssumption
    <2>2. PublishedPrice' = PublishedPrice
      BY <2>1 DEF PublishedPrice, UpdatesOf, tables
    <2> QED
      BY <2>1, <2>2 DEF SerialStep, SerialInv, InserterDoesNotLead, Leads, E!vars, tables
  <1>2. CASE QueryFails(w)
    BY <1>2 DEF QueryFails, Refused, CancelledBefore, Errs, ServerTypeOK, SerialInv, OneAtATime
  <1>3. CASE Interrupted(w)
    BY <1>3 DEF Interrupted, Break
  <1>4. CASE ProductRead(w) \/ BidProductRead(w) \/ BidLatestRead(w)
    <2>1. UNCHANGED tables /\ server' = "up" /\ conn' # "closed" /\ pc[w] # "updatePrice"
      BY <1>4 DEF ProductRead, BidProductRead, BidLatestRead, Answered, Execute, Release, SerialInv
    <2>2. CASE \E status : Finish(w, status)
      BY <2>1, <2>2, SerialMove DEF Finish
    <2>3. CASE BidProductRead(w) /\ req[w].amount > price[req[w].product] /\ GoOn(w, "latestBid")
      BY <2>1, <2>3, SerialMove DEF GoOn
    <2>4. CASE BidLatestRead(w) /\ ~Leads(req[w].user, req[w].product) /\ GoOn(w, "createBid")
      <3>1. req[w].amount > price[req[w].product]
        BY <2>4 DEF BidLatestRead, Answered, SerialInv
      <3> QED
        BY <2>1, <2>4, <3>1, SerialMove DEF GoOn
    <2> QED
      BY <1>4, <2>2, <2>3, <2>4 DEF ProductRead, BidProductRead, BidLatestRead
  <1>5. CASE ProductAdded(w) \/ BidCreated(w) \/ PriceUpdated(w)
    BY <1>5, ProductAddedSerial, BidCreatedSerial, PriceUpdatedSerial
  <1> QED
    BY <1>1, <1>2, <1>3, <1>4, <1>5 DEF QueryStep

LEMMA SerialNext ==
  ASSUME Undisturbed, SafetyInv, SafetyInv', SerialInv, [Next]_vars
  PROVE  SerialStep
  <1> OneAtATime /\ Events = {}
    BY DEF Undisturbed
  <1> Shape /\ Shape'
    BY DEF SafetyInv
  <1>1. ASSUME NEW w \in Workers, NEW query \in {"addProduct", "readProduct", "getProduct"}, NEW r,
               Arrive(w, query, r)
        PROVE  SerialStep
    <2>1. UNCHANGED tables /\ server' = "up" /\ conn' # "closed" /\ pc[w] = "idle" /\ pc'[w] = query
      BY <1>1 DEF Arrive, serverVars, SerialInv, Shape, GoroutinesType
    <2> QED
      BY <2>1, SerialMove
  <1>2. CASE UNCHANGED vars \/ \E w \in Workers : Reject(w)
    <2>1. UNCHANGED <<tables, pc, req>> /\ server' = server /\ conn' = conn
      BY <1>2 DEF vars, serverVars, goroutines, Reject
    <2>2. PublishedPrice' = PublishedPrice
      BY <2>1 DEF PublishedPrice, UpdatesOf, tables
    <2> QED
      BY <2>1, <2>2 DEF SerialStep, SerialInv, InserterDoesNotLead, Leads, E!vars, tables
  <1>3. /\ ~ShutdownBegins /\ ~ConnectionLost /\ ~ShutdownEnds /\ ~ShutdownTimesOut
        /\ ~ProcessCrash /\ ~ProcessRestart
    BY DEF ShutdownBegins, Signal, ConnectionLost, BreakIdle, ShutdownEnds, ShutdownDone, ShutdownTimesOut,
           ShutdownTimeout, ProcessCrash, Crash, ProcessRestart, Restart, SerialInv
  <1> QED
    BY <1>1, <1>2, <1>3, SerialQueryStep DEF Next, CreateProduct, GetProductByID, PlaceBid

LEMMA SerialInit == Init => SerialInv /\ E!Init
  <1> SUFFICES ASSUME Init PROVE SerialInv /\ E!Init
    OBVIOUS
  <1>1. PublishedPrice = price
    BY DEF Init, PublishedPrice, UpdatesOf
  <1> QED
    BY <1>1 DEF Init, ServerInit, SerialInv, InserterDoesNotLead, E!Init

-----------------------------------------------------------------------------
(* Whatever fails, while one goroutine works at a time. *)

\* No two goroutines are at work, handlers and price updates counted alike.
OneGoroutine == \A w, x \in Workers : pc[w] # "idle" /\ pc[x] # "idle" => w = x

\* What a handler compared its bid with is still the price.
AmountAbovePrice ==
    \A w \in Workers : pc[w] \in {"latestBid", "createBid"} => req[w].amount > price[req[w].product]

StoredAbovePrice == \A p \in Products : bids'[p] # bids[p] => bids'[p][Len(bids'[p])].price > price[p]

\* The statement in flight stores a bid above the price, and moves no price that
\* a bid is on its way to.
LEMMA ExecuteAbovePrice ==
  ASSUME Shape, AmountAbovePrice, NEW w \in Workers, MayExecute(w)
  PROVE  /\ StoredAbovePrice
         /\ pc[w] \in BidQueries => price' = price
  <1> DEFINE r == req[w]
             b == [user |-> r.user, price |-> r.amount]
  <1>1. CASE pc[w] = "createBid" /\ CreateBid(r)
    <2>1. b \in Bid /\ r.product \in Products /\ bids[r.product] \in Seq(Bid)
      BY <1>1, BidOfRequest DEF Shape, TablesType, GoroutinesType, RequestShape, BidQueries
    <2>2. /\ \A p \in Products : p # r.product => bids'[p] = bids[p]
          /\ bids'[r.product] = Append(bids[r.product], b) /\ price' = price
      BY <1>1, <2>1 DEF CreateBid, Shape, TablesType
    <2>3. bids'[r.product][Len(bids'[r.product])] = b
      BY <2>1, <2>2, AppendedBid
    <2>4. b.price > price[r.product]
      BY <1>1 DEF AmountAbovePrice
    <2> QED
      BY <2>2, <2>3, <2>4 DEF StoredAbovePrice
  <1>2. CASE bids' = bids /\ (pc[w] \in BidQueries => price' = price)
    BY <1>2 DEF StoredAbovePrice
  <1> QED
    BY <1>1, <1>2 DEF MayExecute, Execute, AddProduct, UpdateProductCurrentPrice, tables, BidQueries

\* After the step of the one goroutine it is between its check and its insert
\* only if it was, or has just passed the check.
LEMMA AmountMove ==
  ASSUME OneGoroutine, OneGoroutine', Shape, AmountAbovePrice, NEW w \in Workers, MayExecute(w),
         pc[w] # "idle" \/ pc'[w] # "idle",
         \A x \in Workers : x # w => pc'[x] = pc[x],
         pc'[w] \in {"latestBid", "createBid"} =>
            /\ req'[w] = req[w] /\ pc[w] \in BidQueries
            /\ req[w].amount > price[req[w].product]
  PROVE  AmountAbovePrice' /\ StoredAbovePrice
  <1>1. \A x \in Workers : x # w => pc'[x] = "idle"
    BY DEF OneGoroutine
  <1> QED
    BY <1>1, ExecuteAbovePrice DEF AmountAbovePrice

LEMMA AmountQueryStep ==
  ASSUME OneGoroutine, OneGoroutine', Shape, AmountAbovePrice, NEW w \in Workers, QueryStep(w)
  PROVE  AmountAbovePrice' /\ StoredAbovePrice
  <1> USE DEF Shape, GoroutinesType
  <1>1. CASE SendQuery(w)
    BY <1>1 DEF SendQuery, goroutines, tables, AmountAbovePrice, StoredAbovePrice
  <1>0. pc[w] # "idle"
    BY DEF QueryStep, SendQuery, QueryFails, Interrupted, ProductAdded, ProductRead, BidProductRead,
           BidLatestRead, BidCreated, PriceUpdated, Answered
  <1>2. ASSUME NEW status, Finish(w, status), MayExecute(w)
        PROVE  AmountAbovePrice' /\ StoredAbovePrice
    BY <1>0, <1>2, AmountMove DEF Finish
  <1>3. CASE QueryFails(w) \/ Interrupted(w)
    BY <1>2, <1>3 DEF QueryFails, Interrupted, FinishInError, MayExecute
  <1>4. CASE ProductAdded(w) \/ ProductRead(w) \/ PriceUpdated(w)
    BY <1>2, <1>4 DEF ProductAdded, ProductRead, PriceUpdated, Answered, MayExecute
  <1>5. CASE BidProductRead(w)
    <2>1. MayExecute(w) /\ pc[w] = "getProduct"
      BY <1>5 DEF BidProductRead, Answered, MayExecute
    <2>2. CASE req[w].amount > price[req[w].product] /\ GoOn(w, "latestBid")
      BY <2>1, <2>2, AmountMove DEF GoOn, BidQueries
    <2> QED
      BY <1>2, <1>5, <2>1, <2>2 DEF BidProductRead
  <1>6. CASE BidLatestRead(w)
    <2>1. MayExecute(w) /\ pc[w] = "latestBid" /\ req[w].amount > price[req[w].product]
      BY <1>6 DEF BidLatestRead, Answered, MayExecute, AmountAbovePrice
    <2>2. CASE GoOn(w, "createBid")
      BY <2>1, <2>2, AmountMove DEF GoOn, BidQueries
    <2> QED
      BY <1>2, <1>6, <2>1, <2>2 DEF BidLatestRead
  <1>7. CASE BidCreated(w)
    BY <1>7, AmountMove DEF BidCreated, Answered, MayExecute
  <1> QED
    BY <1>1, <1>3, <1>4, <1>5, <1>6, <1>7 DEF QueryStep

LEMMA AmountStep ==
  ASSUME OneGoroutine, OneGoroutine', Shape, AmountAbovePrice, [Next]_vars
  PROVE  AmountAbovePrice' /\ StoredAbovePrice
  <1> USE DEF Shape, GoroutinesType
  <1>1. ASSUME NEW w \in Workers, NEW query \in {"addProduct", "readProduct", "getProduct"}, NEW r,
               Arrive(w, query, r)
        PROVE  AmountAbovePrice' /\ StoredAbovePrice
    BY <1>1, AmountMove DEF Arrive, MayExecute
  <1>2. CASE \/ UNCHANGED vars \/ ShutdownBegins \/ ConnectionLost \/ ProcessRestart
             \/ \E w \in Workers : Reject(w)
    BY <1>2 DEF vars, ShutdownBegins, ConnectionLost, ProcessRestart, Reject, goroutines, tables,
                AmountAbovePrice, StoredAbovePrice
  <1>3. CASE ShutdownEnds \/ ShutdownTimesOut \/ ProcessCrash
    <2>1. GoroutinesEnd
      BY <1>3 DEF ShutdownEnds, ShutdownTimesOut, ProcessCrash
    <2>2. StoredAbovePrice
      <3>1. CASE conn \in Workers
        BY <2>1, <3>1, ExecuteAbovePrice DEF GoroutinesEnd
      <3>2. CASE conn \notin Workers
        BY <2>1, <3>2 DEF GoroutinesEnd, tables, StoredAbovePrice
      <3> QED
        BY <3>1, <3>2
    <2> QED
      BY <2>1, <2>2 DEF GoroutinesEnd, AmountAbovePrice
  <1> QED
    BY <1>1, <1>2, <1>3, AmountQueryStep DEF Next, CreateProduct, GetProductByID, PlaceBid

-----------------------------------------------------------------------------
(* The bids of an English auction ascend. *)

\* The published price is the price of the latest bid: the invariant of the
\* English auction that makes each bid higher than the one before.
PriceIsLatest == \A p \in Products : Len(bids[p]) > 0 => PublishedPrice[p] = bids[p][Len(bids[p])].price

LEMMA BidsIncreaseStep ==
  ASSUME Shape, PriceIsLatest, BidsIncrease, [E!Next]_E!vars
  PROVE  BidsIncrease'
  <1> USE DEF BidsIncrease, E!BidsIncrease
  <1>1. CASE bids' = bids
    BY <1>1
  <1>2. ASSUME NEW q \in Products, NEW u \in Users, NEW a \in Amounts, E!TakeBid(q, u, a)
        PROVE  BidsIncrease'
    <2> DEFINE b == [user |-> u, price |-> a]
    <2>1. bids[q] \in Seq(Bid) /\ b \in Bid /\ a \in Int
      BY AuctionAssumption DEF AuctionAssumption, Shape, TablesType, Bid
    <2>2. /\ \A p \in Products : p # q => bids'[p] = bids[p]
          /\ bids'[q] = Append(bids[q], b)
      BY <1>2 DEF E!TakeBid, Shape, TablesType
    <2>3. /\ Len(bids'[q]) = Len(bids[q]) + 1 /\ Len(bids[q]) \in Nat
          /\ \A i \in 1..Len(bids[q]) : bids'[q][i] = bids[q][i]
          /\ bids'[q][Len(bids[q]) + 1] = b
      BY <2>1, <2>2, AppendedBid
    <2>4. Len(bids[q]) > 0 => bids[q][Len(bids[q])].price < a
      <3>1. ASSUME Len(bids[q]) > 0
            PROVE  bids[q][Len(bids[q])].price < a
        <4>1. Len(bids[q]) \in 1..Len(bids[q])
          BY <2>3, <3>1
        <4>2. bids[q][Len(bids[q])] \in Bid
          BY <2>1, <4>1
        <4>3. bids[q][Len(bids[q])].price \in Int
          BY <4>2 DEF Bid
        <4>4. PublishedPrice[q] = bids[q][Len(bids[q])].price
          BY <3>1 DEF PriceIsLatest
        <4> QED
          BY <1>2, <2>1, <4>3, <4>4 DEF E!TakeBid
      <3> QED
        BY <3>1
    <2>5. ASSUME NEW i \in 2..Len(bids'[q])
          PROVE  bids'[q][i - 1].price < bids'[q][i].price
      <3>1. CASE i \in 2..Len(bids[q])
        <4>1. i \in 1..Len(bids[q]) /\ i - 1 \in 1..Len(bids[q])
          BY <3>1, <2>3
        <4>2. bids'[q][i - 1] = bids[q][i - 1] /\ bids'[q][i] = bids[q][i]
          BY <2>3, <4>1
        <4> QED
          BY <3>1, <4>2
      <3>2. CASE i = Len(bids[q]) + 1
        <4>1. Len(bids[q]) \in 1..Len(bids[q]) /\ i - 1 = Len(bids[q])
          BY <2>3, <2>5, <3>2
        <4>2. bids'[q][i - 1] = bids[q][Len(bids[q])] /\ bids'[q][i] = b
          BY <2>3, <3>2, <4>1
        <4> QED
          BY <2>3, <2>4, <4>1, <4>2
      <3> QED
        BY <2>3, <2>5, <3>1, <3>2
    <2> QED
      BY <2>2, <2>5
  <1> QED
    BY <1>1, <1>2 DEF E!Next, E!List, E!vars

-----------------------------------------------------------------------------
(* The theorems. *)

\* One goroutine at a time, and no failure: what a handler compared its bid with
\* still holds when the bid is stored (service/products.go:113-146).
THEOREM SerialInvariant ==
  ASSUME Undisturbed
  PROVE  Spec => []SerialInv
  <1>1. SafetyInv /\ SafetyInv' /\ SerialInv /\ [Next]_vars => SerialInv'
    BY SerialNext DEF SerialStep
  <1>2. Init => SerialInv
    BY SerialInit
  <1> QED
    BY <1>1, <1>2, SafetyInvariant, PTL DEF Spec

\* One goroutine at a time, and no failure: when no goroutine is left, the current
\* price is the price of the latest bid (handlers/products.go:287).
THEOREM LatestBidIsPublished ==
  ASSUME Undisturbed
  PROVE  Spec => []LatestBidPublished
  <1>1. SerialInv => LatestBidPublished
    <2> SUFFICES ASSUME SerialInv, \A w \in Workers : pc[w] = "idle" PROVE LatestBidPublished
      BY DEF LatestBidPublished
    <2>1. \A p \in Products : PublishedPrice[p] = price[p]
      BY DEF PublishedPrice, UpdatesOf
    <2> QED
      BY <2>1 DEF SerialInv, LatestBidPublished
  <1> QED
    BY <1>1, SerialInvariant, PTL

\* One goroutine at a time, and no failure: listing and bidding are the English
\* auction of service/errors.go:11-14.
THEOREM AuctionImplementsEnglishAuction ==
  ASSUME Undisturbed
  PROVE  Spec => ImplementsEnglishAuction
  <1>1. SafetyInv /\ SafetyInv' /\ SerialInv /\ [Next]_vars => [E!Next]_E!vars
    BY SerialNext DEF SerialStep
  <1>2. Init => E!Init
    BY SerialInit
  <1> QED
    BY <1>1, <1>2, SafetyInvariant, SerialInvariant, PTL DEF Spec, ImplementsEnglishAuction, E!Spec

\* One goroutine at a time, and no failure: each bid on a product is higher than the
\* one before it (service/errors.go:13).
THEOREM BidsAlwaysIncrease ==
  ASSUME Undisturbed
  PROVE  Spec => []BidsIncrease
  <1>1. Init => BidsIncrease
    BY DEF Init, BidsIncrease, E!BidsIncrease
  <1>2. SafetyInv /\ SafetyInv' /\ SerialInv /\ BidsIncrease /\ [Next]_vars => BidsIncrease'
    <2>1. SafetyInv /\ SerialInv => Shape /\ PriceIsLatest
      BY DEF SafetyInv, SerialInv, PriceIsLatest
    <2>2. SafetyInv /\ SafetyInv' /\ SerialInv /\ [Next]_vars => [E!Next]_E!vars
      BY SerialNext DEF SerialStep
    <2> QED
      BY <2>1, <2>2, BidsIncreaseStep
  <1> QED
    BY <1>1, <1>2, SafetyInvariant, SerialInvariant, PTL DEF Spec

\* As long as no two goroutines are at work at once, a bid is above the current
\* price when it is stored, whatever fails and however its handler or the process
\* ends.  The race of service/products.go:113 takes a second goroutine: the handler
\* of another bid, or the price update that an answered bid has left behind.
\* Failures alone never cause it.
THEOREM LoneBidsAboveCurrentPrice == Spec /\ []OneGoroutine => BidAboveCurrentPrice
  <1>1. Init => AmountAbovePrice
    BY DEF Init, AmountAbovePrice
  <1>2. SafetyInv /\ OneGoroutine /\ OneGoroutine' /\ AmountAbovePrice /\ [Next]_vars
           => AmountAbovePrice' /\ StoredAbovePrice
    BY AmountStep DEF SafetyInv
  <1> QED
    BY <1>1, <1>2, SafetyInvariant, PTL DEF Spec, BidAboveCurrentPrice, StoredAbovePrice
=============================================================================
