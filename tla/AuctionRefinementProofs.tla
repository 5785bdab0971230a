----------------------- MODULE AuctionRefinementProofs -----------------------
(***************************************************************************)
(* No consecutive bids from clients that wait for their answers, and the   *)
(* refinement of Ledger by Auction.                                        *)
(***************************************************************************)
EXTENDS AuctionProofs

-----------------------------------------------------------------------------
(* Polite clients. *)

\* A user has one bid in flight: clients wait for the answer, or there is one
\* goroutine.
OneBidInFlight == ~Overlap \/ OneAtATime

LEMMA PoliteInit == Init => PoliteInv
  BY DEF Init, PoliteInv, NoConsecutiveBids, OneBidPerUser, InserterDoesNotLead, BidHandlers, BidQueries

\* The statement of one goroutine does not make the user of another lead, and
\* leaves no two bids of a user in a row.
LEMMA PoliteTables ==
  ASSUME Shape, PoliteInv, NEW w \in Workers, MayExecute(w)
  PROVE  /\ NoConsecutiveBids'
         /\ \A x \in Workers : x # w /\ pc[x] = "createBid" =>
               LET s == bids'[req[x].product]
               IN  ~(Len(s) > 0 /\ s[Len(s)].user = req[x].user)
  <1> USE DEF PoliteInv, Shape, TablesType, GoroutinesType
  <1> DEFINE r == req[w]
             q == r.product
             b == [user |-> r.user, price |-> r.amount]
  <1>1. CASE bids' = bids
    BY <1>1 DEF NoConsecutiveBids, InserterDoesNotLead, Leads
  <1>2. CASE pc[w] = "createBid" /\ CreateBid(r)
    <2>1. q \in Products /\ b \in Bid
      BY <1>2, BidOfRequest DEF RequestShape, BidQueries
    <2>2. /\ \A p \in Products : p # q => bids'[p] = bids[p]
          /\ bids'[q] = Append(bids[q], b)
      BY <1>2, <2>1 DEF CreateBid
    <2>3. bids[q] \in Seq(Bid) /\ Len(bids[q]) \in Nat
      BY <2>1
    <2>4. /\ Len(bids'[q]) = Len(bids[q]) + 1
          /\ \A i \in 1..Len(bids[q]) : bids'[q][i] = bids[q][i]
          /\ bids'[q][Len(bids[q]) + 1] = b
      BY <2>1, <2>2, <2>3, AppendedBid
    <2>5. ~Leads(r.user, q)
      BY <1>2 DEF InserterDoesNotLead
    <2>6. NoConsecutiveBids'
      <3> SUFFICES ASSUME NEW p \in Products, NEW i \in 2..Len(bids'[p])
                   PROVE  bids'[p][i].user # bids'[p][i - 1].user
        BY DEF NoConsecutiveBids
      <3>1. CASE p # q
        BY <3>1, <2>2 DEF NoConsecutiveBids
      <3>2. CASE p = q /\ i \in 2..Len(bids[q])
        <4>1. i \in 1..Len(bids[q]) /\ i - 1 \in 1..Len(bids[q])
          BY <3>2, <2>3
        <4>2. bids[q][i].user # bids[q][i - 1].user
          BY <3>2, <2>1 DEF NoConsecutiveBids
        <4>3. bids'[q][i] = bids[q][i]
          BY <4>1, <2>4
        <4>4. bids'[q][i - 1] = bids[q][i - 1]
          BY <4>1, <2>4
        <4> QED
          BY <3>2, <4>2, <4>3, <4>4
      <3>3. CASE p = q /\ i = Len(bids[q]) + 1
        <4>1. Len(bids[q]) > 0 /\ i - 1 = Len(bids[q])
          BY <3>3, <2>3
        <4>2. bids'[q][i - 1] = bids[q][Len(bids[q])]
          <5>1. Len(bids[q]) \in 1..Len(bids[q])
            BY <4>1, <2>3
          <5>2. bids'[q][Len(bids[q])] = bids[q][Len(bids[q])]
            BY <5>1, <2>4
          <5> QED
            BY <5>2, <4>1
        <4>3. bids[q][Len(bids[q])].user # r.user
          BY <4>1, <2>5 DEF Leads
        <4>4. bids'[q][i].user = r.user
          BY <3>3, <2>4
        <4> QED
          BY <3>3, <4>2, <4>3, <4>4
      <3>4. p = q => i \in 2..Len(bids[q]) \/ i = Len(bids[q]) + 1
        BY <2>3, <2>4
      <3> QED
        BY <3>1, <3>2, <3>3, <3>4
    <2>7. ASSUME NEW x \in Workers, x # w, pc[x] = "createBid"
          PROVE  LET s == bids'[req[x].product]
                 IN  ~(Len(s) > 0 /\ s[Len(s)].user = req[x].user)
      <3>1. req[x].user # r.user
        BY <1>2, <2>7 DEF OneBidPerUser, BidHandlers, BidQueries
      <3>2. CASE req[x].product = q
        BY <3>1, <3>2, <2>4
      <3>3. CASE req[x].product # q
        <4>1. req[x].product \in Products
          BY <2>7 DEF RequestShape, BidQueries
        <4> QED
          BY <3>3, <4>1, <2>2, <2>7 DEF InserterDoesNotLead, Leads
      <3> QED
        BY <3>2, <3>3
    <2> QED
      BY <2>6, <2>7
  <1> QED
    BY <1>1, <1>2 DEF MayExecute, Execute, AddProduct, UpdateProductCurrentPrice, tables

\* A step of goroutine w that starts no bid and does not reach the insert.
LEMMA PoliteMove ==
  ASSUME Shape, Shape', PoliteInv, NEW w \in Workers, MayExecute(w),
         \A x \in Workers : x # w => pc'[x] = pc[x] /\ req'[x] = req[x],
         pc'[w] # "createBid",
         pc'[w] \in BidQueries => pc[w] \in BidQueries /\ req'[w] = req[w]
  PROVE  PoliteInv'
  <1>1. NoConsecutiveBids'
    BY PoliteTables
  <1>2. OneBidPerUser'
    BY DEF PoliteInv, OneBidPerUser, BidHandlers
  <1>3. InserterDoesNotLead'
    <2> SUFFICES ASSUME NEW x \in Workers, pc'[x] = "createBid"
                 PROVE  ~Leads(req[x].user, req[x].product)'
      BY DEF InserterDoesNotLead
    <2>1. x # w /\ pc[x] = "createBid" /\ req'[x] = req[x]
      OBVIOUS
    <2> QED
      BY <2>1, PoliteTables DEF Leads
  <1> QED
    BY <1>1, <1>2, <1>3 DEF PoliteInv

LEMMA PoliteStutter ==
  ASSUME PoliteInv, UNCHANGED <<bids, pc, req>>
  PROVE  PoliteInv'
  BY DEF PoliteInv, NoConsecutiveBids, OneBidPerUser, BidHandlers, InserterDoesNotLead, Leads

\* The next step of a handler that has just been told that its user does not lead.
LEMMA PoliteLatestRead ==
  ASSUME Shape, Shape', PoliteInv, NEW w \in Workers, BidLatestRead(w)
  PROVE  PoliteInv'
  <1> USE DEF Shape, GoroutinesType
  <1>1. MayExecute(w) /\ UNCHANGED tables /\ pc[w] = "latestBid"
    BY DEF BidLatestRead, Answered, Execute, MayExecute
  <1>2. CASE Finish(w, "500")
    BY <1>1, <1>2, PoliteMove DEF Finish, BidQueries
  <1>3. CASE ~Leads(req[w].user, req[w].product) /\ GoOn(w, "createBid")
    <2>1. /\ pc'[w] = "createBid" /\ req' = req /\ bids' = bids
          /\ \A x \in Workers : x # w => pc'[x] = pc[x]
      BY <1>1, <1>3 DEF GoOn, tables
    <2>2. NoConsecutiveBids'
      BY <2>1 DEF PoliteInv, NoConsecutiveBids
    <2>3. OneBidPerUser'
      BY <1>1, <2>1 DEF PoliteInv, OneBidPerUser, BidHandlers, BidQueries
    <2>4. InserterDoesNotLead'
      BY <1>3, <2>1 DEF PoliteInv, InserterDoesNotLead, Leads
    <2> QED
      BY <2>2, <2>3, <2>4 DEF PoliteInv
  <1> QED
    BY <1>2, <1>3 DEF BidLatestRead

LEMMA PoliteStep ==
  ASSUME OneBidInFlight, Shape, Shape', PoliteInv, [Next]_vars
  PROVE  PoliteInv'
  <1> USE DEF Shape, GoroutinesType
  <1>1. ASSUME NEW w \in Workers, QueryStep(w)
        PROVE  PoliteInv'
    <2>1. CASE SendQuery(w)
      BY <2>1, PoliteStutter DEF SendQuery, goroutines, tables
    <2>2. CASE QueryFails(w)
      BY <2>2, PoliteMove DEF QueryFails, FinishInError, Finish, MayExecute, BidQueries
    <2>3. CASE Interrupted(w)
      BY <2>3, PoliteMove DEF Interrupted, FinishInError, Finish, BidQueries
    <2>4. CASE ProductAdded(w) \/ ProductRead(w) \/ PriceUpdated(w)
      BY <2>4, PoliteMove DEF ProductAdded, ProductRead, PriceUpdated, Answered, Finish, MayExecute,
                              BidQueries
    <2>5. CASE BidProductRead(w)
      BY <2>5, PoliteMove DEF BidProductRead, Answered, Finish, GoOn, MayExecute, BidQueries
    <2>6. CASE BidLatestRead(w)
      BY <2>6, PoliteLatestRead
    <2>7. CASE BidCreated(w)
      BY <2>7, PoliteMove DEF BidCreated, Answered, MayExecute, BidQueries
    <2> QED
      BY <1>1, <2>1, <2>2, <2>3, <2>4, <2>5, <2>6, <2>7 DEF QueryStep
  <1>2. ASSUME NEW w \in Workers, Reject(w)
        PROVE  PoliteInv'
    BY <1>2, PoliteStutter DEF Reject, tables
  <1>3. ASSUME NEW w \in Workers, NEW query \in {"addProduct", "readProduct"}, NEW r, Arrive(w, query, r)
        PROVE  PoliteInv'
    BY <1>3, PoliteMove DEF Arrive, MayExecute, BidQueries
  <1>4. ASSUME NEW w \in Workers, NEW u \in Users, NEW p \in Products, NEW a \in Amounts,
               PlaceBid(w, u, p, a)
        PROVE  PoliteInv'
    <2>1. /\ pc'[w] = "getProduct" /\ req'[w].user = u /\ bids' = bids
          /\ \A x \in Workers : x # w => pc'[x] = pc[x] /\ req'[x] = req[x]
      BY <1>4 DEF PlaceBid, Arrive, tables
    <2>2. \A x \in BidHandlers : req[x].user # u
      BY <1>4 DEF OneBidInFlight, OneAtATime, PlaceBid, Arrive, BidHandlers, BidQueries
    <2>3. NoConsecutiveBids'
      BY <2>1 DEF PoliteInv, NoConsecutiveBids
    <2>4. OneBidPerUser'
      BY <2>1, <2>2 DEF PoliteInv, OneBidPerUser, BidHandlers
    <2>5. InserterDoesNotLead'
      BY <2>1 DEF PoliteInv, InserterDoesNotLead, Leads
    <2> QED
      BY <2>3, <2>4, <2>5 DEF PoliteInv
  <1>5. CASE ShutdownBegins \/ ConnectionLost \/ ProcessRestart
    BY <1>5, PoliteStutter DEF ShutdownBegins, ConnectionLost, ProcessRestart, goroutines, tables
  <1>6. CASE ShutdownEnds \/ ShutdownTimesOut \/ ProcessCrash
    <2>1. GoroutinesEnd
      BY <1>6 DEF ShutdownEnds, ShutdownTimesOut, ProcessCrash
    <2>2. \A x \in Workers : pc'[x] = "idle"
      BY <2>1 DEF GoroutinesEnd
    <2>3. NoConsecutiveBids'
      <3>1. CASE conn \in Workers
        BY <2>1, <3>1, PoliteTables DEF GoroutinesEnd
      <3>2. CASE conn \notin Workers
        BY <2>1, <3>2 DEF GoroutinesEnd, tables, PoliteInv, NoConsecutiveBids
      <3> QED
        BY <3>1, <3>2
    <2> QED
      BY <2>2, <2>3 DEF PoliteInv, OneBidPerUser, BidHandlers, BidQueries, InserterDoesNotLead
  <1>7. CASE UNCHANGED vars
    BY <1>7, PoliteStutter DEF vars, goroutines, tables
  <1> QED
    BY <1>1, <1>2, <1>3, <1>4, <1>5, <1>6, <1>7 DEF Next, CreateProduct, GetProductByID

Politeness == OneBidInFlight => PoliteInv

\* PoliteInv is an invariant when clients are polite.
LEMMA PoliteInvariant == Spec => []Politeness
  <1>1. Init => Politeness
    BY PoliteInit DEF Politeness
  <1>2. SafetyInv /\ SafetyInv' /\ Politeness /\ [Next]_vars => Politeness'
    BY PoliteStep DEF SafetyInv, Politeness
  <1> QED
    BY SafetyInvariant, <1>1, <1>2, PTL DEF Spec

\* When a user has one bid in flight, a handler about to insert a bid is not the
\* latest bidder, whatever the others inserted since its check and whatever fails
\* (service/products.go:118-132).
THEOREM PoliteInvariantHolds ==
  ASSUME OneBidInFlight
  PROVE  Spec => []PoliteInv
  <1>1. Politeness => PoliteInv
    BY DEF Politeness
  <1> QED
    BY PoliteInvariant, <1>1, PTL

\* Clients that wait for the answer to a bid before they send another never get
\* two bids in a row on a product, and no client does when there is one
\* goroutine, although the check and the insert are two queries and either may be
\* interrupted (service/errors.go:14).
THEOREM PoliteClientsNeverBidTwice ==
  ASSUME OneBidInFlight
  PROVE  Spec => []NoConsecutiveBids
  <1>1. Politeness => NoConsecutiveBids
    BY DEF Politeness, PoliteInv
  <1> QED
    BY PoliteInvariant, <1>1, PTL

-----------------------------------------------------------------------------
(* Refinement.  The variables of Ledger are variables of Auction, so the   *)
(* mapping is the identity: every step appends, publishes, lists or leaves *)
(* the ledger alone.                                                       *)

LEMMA InsertIsAllowed ==
  ASSUME SafetyInv, Politeness, NEW w \in Workers, pc[w] = "createBid"
  PROVE  /\ req[w].user \in Users /\ req[w].product \in Products /\ req[w].amount \in Amounts
         /\ seller[req[w].product] \notin {None, req[w].user}
         /\ req[w].amount > start[req[w].product]
         /\ ~Overlap /\ Len(bids[req[w].product]) > 0 =>
               bids[req[w].product][Len(bids[req[w].product])].user # req[w].user
  <1>1. /\ req[w].user \in Users /\ req[w].product \in Products /\ req[w].amount \in Amounts
    BY DEF SafetyInv, Shape, GoroutinesType, RequestShape, BidQueries
  <1>2. /\ seller[req[w].product] \notin {None, req[w].user}
        /\ req[w].amount > start[req[w].product]
    BY DEF SafetyInv, SoundRequest, Listed
  <1>3. ~Overlap => ~Leads(req[w].user, req[w].product)
    BY DEF Politeness, OneBidInFlight, PoliteInv, InserterDoesNotLead
  <1> QED
    BY <1>1, <1>2, <1>3 DEF Leads

LEMMA LedgerExecute ==
  ASSUME SafetyInv, Politeness, NEW w \in Workers, MayExecute(w), acked' = acked
  PROVE  [L!Next]_L!vars
  <1> DEFINE r == req[w]
  <1>1. CASE UNCHANGED tables
    BY <1>1 DEF tables, L!vars
  <1>2. CASE pc[w] = "addProduct" /\ AddProduct(r)
    <2>1. r.user \in Users /\ r.product \in Products /\ r.amount \in StartPrices
      BY <1>2 DEF SafetyInv, Shape, GoroutinesType, RequestShape
    <2>2. seller[r.product] = None
      BY <1>2 DEF SafetyInv, SoundRequest, Listed
    <2>3. L!List(r.product, r.user, r.amount)
      BY <1>2, <2>2 DEF AddProduct, L!List
    <2> QED
      BY <2>1, <2>3 DEF L!Next
  <1>3. CASE pc[w] = "createBid" /\ CreateBid(r)
    <2>1. r.user \in Users /\ r.product \in Products /\ r.amount \in Amounts
      BY <1>3, InsertIsAllowed
    <2>2. L!Store(r.product, r.user, r.amount)
      BY <1>3, InsertIsAllowed DEF CreateBid, L!Store
    <2> QED
      BY <2>1, <2>2 DEF L!Next
  <1>4. CASE pc[w] = "updatePrice" /\ UpdateProductCurrentPrice(r)
    <2>1. r.product \in Products
      BY <1>4 DEF SafetyInv, Shape, GoroutinesType, RequestShape
    <2>2. PICK b \in acked[r.product] : b.price = r.amount
      BY <1>4 DEF SafetyInv, SoundRequest
    <2>3. L!Publish(r.product, b)
      BY <1>4, <2>2 DEF UpdateProductCurrentPrice, L!Publish
    <2> QED
      BY <2>1, <2>3 DEF L!Next
  <1> QED
    BY <1>1, <1>2, <1>3, <1>4 DEF MayExecute, Execute

LEMMA LedgerStep ==
  ASSUME SafetyInv, Politeness, [Next]_vars
  PROVE  [L!Next]_L!vars
  <1>1. ASSUME NEW w \in Workers, QueryStep(w)
        PROVE  [L!Next]_L!vars
    <2>1. CASE SendQuery(w) \/ QueryFails(w)
      BY <2>1 DEF SendQuery, QueryFails, tables, L!vars
    <2>2. CASE Interrupted(w)
      BY <2>2, LedgerExecute DEF Interrupted
    <2>3. CASE ProductAdded(w) \/ ProductRead(w) \/ BidProductRead(w) \/ BidLatestRead(w) \/ PriceUpdated(w)
      BY <2>3, LedgerExecute DEF ProductAdded, ProductRead, BidProductRead, BidLatestRead, PriceUpdated,
                                 Answered, MayExecute
    <2>4. CASE BidCreated(w)
      <3> DEFINE r == req[w]
      <3>1. pc[w] = "createBid" /\ CreateBid(r)
        BY <2>4 DEF BidCreated, Answered, Execute
      <3>2. acked' = [acked EXCEPT ![r.product] = @ \cup {[user |-> r.user, price |-> r.amount]}]
        BY <2>4 DEF BidCreated
      <3>3. r.user \in Users /\ r.product \in Products /\ r.amount \in Amounts
        BY <3>1, InsertIsAllowed
      <3>4. L!Store(r.product, r.user, r.amount)
        BY <3>1, <3>2, InsertIsAllowed DEF CreateBid, L!Store
      <3> QED
        BY <3>3, <3>4 DEF L!Next
    <2> QED
      BY <1>1, <2>1, <2>2, <2>3, <2>4 DEF QueryStep
  <1>2. ASSUME NEW w \in Workers, NEW query, NEW r, Reject(w) \/ Arrive(w, query, r)
        PROVE  [L!Next]_L!vars
    BY <1>2 DEF Reject, Arrive, tables, L!vars
  <1>3. CASE ShutdownBegins \/ ConnectionLost \/ ProcessRestart
    BY <1>3 DEF ShutdownBegins, ConnectionLost, ProcessRestart, tables, L!vars
  <1>4. CASE ShutdownEnds \/ ShutdownTimesOut \/ ProcessCrash
    <2>1. GoroutinesEnd
      BY <1>4 DEF ShutdownEnds, ShutdownTimesOut, ProcessCrash
    <2>2. CASE conn \in Workers
      BY <2>1, <2>2, LedgerExecute DEF GoroutinesEnd
    <2>3. CASE conn \notin Workers
      BY <2>1, <2>3 DEF GoroutinesEnd, tables, L!vars
    <2> QED
      BY <2>2, <2>3
  <1>5. CASE UNCHANGED vars
    BY <1>5 DEF vars, tables, L!vars
  <1> QED
    BY <1>1, <1>2, <1>3, <1>4, <1>5 DEF Next, CreateProduct, GetProductByID, PlaceBid

\* The concurrent code implements the ledger, whatever happens
\* (service/products.go:98-153).
THEOREM AuctionImplementsLedger == Spec => ImplementsLedger
  <1>1. Init => L!Init
    BY DEF Init, L!Init
  <1>2. SafetyInv /\ Politeness /\ [Next]_vars => [L!Next]_L!vars
    BY LedgerStep
  <1> QED
    BY SafetyInvariant, PoliteInvariant, <1>1, <1>2, PTL DEF Spec, ImplementsLedger, L!Spec
=============================================================================
