-------------------------- MODULE CatalogWalkProofs --------------------------
(***************************************************************************)
(* A client that reads a seller's products page by page misses none, for   *)
(* any number of products, pages and sellers, any limit and any width of   *)
(* the integers, whatever is listed and whatever fails between the pages.  *)
(*                                                                         *)
(* The place of a product in the order of the pages is the number of newer *)
(* products of its seller.  The places of a seller's products are          *)
(* different and without a gap: so a page holds at most as many products   *)
(* as its limit, and it is empty only when nothing lies at its offset or   *)
(* beyond.                                                                 *)
(***************************************************************************)
EXTENDS CatalogProofs

After(i) == {j \in (i + 1)..Len(products) : products[j].seller = products[i].seller}

-----------------------------------------------------------------------------
(* Places. *)

LEMMA PlaceIsNat ==
  ASSUME products \in Seq(Product), NEW i \in 1..Len(products)
  PROVE  /\ IsFiniteSet(After(i))
         /\ Newer(i) = Cardinality(After(i))
         /\ Newer(i) \in Nat
  <1>1. IsFiniteSet((i + 1)..Len(products))
    BY FS_Interval
  <1>2. After(i) \in SUBSET ((i + 1)..Len(products))
    BY DEF After
  <1>3. IsFiniteSet(After(i))
    BY <1>1, <1>2, FS_Subset
  <1>4. Newer(i) = Cardinality(After(i))
    BY DEF Newer, After
  <1> QED
    BY <1>3, <1>4, FS_CardinalityType

\* A newer product comes earlier.
LEMMA NewerComesEarlier ==
  ASSUME products \in Seq(Product), NEW s, NEW i \in ProductsOf(s), NEW k \in ProductsOf(s), i < k
  PROVE  Newer(k) < Newer(i)
  <1>1. i \in 1..Len(products) /\ k \in 1..Len(products)
    BY DEF ProductsOf
  <1>2. k \in After(i) /\ After(k) \subseteq After(i) \ {k}
    BY <1>1 DEF ProductsOf, After
  <1>3. /\ IsFiniteSet(After(i) \ {k})
        /\ Cardinality(After(i) \ {k}) = Cardinality(After(i)) - 1
    BY <1>1, <1>2, PlaceIsNat, FS_RemoveElement
  <1>4. Cardinality(After(k)) <= Cardinality(After(i) \ {k})
    BY <1>2, <1>3, FS_Subset
  <1> QED
    BY <1>1, <1>3, <1>4, PlaceIsNat

LEMMA PlacesDiffer ==
  ASSUME products \in Seq(Product), NEW s, NEW i \in ProductsOf(s), NEW k \in ProductsOf(s),
         Newer(i) = Newer(k)
  PROVE  i = k
  <1>1. i \in 1..Len(products) /\ k \in 1..Len(products)
    BY DEF ProductsOf
  <1>2. Newer(i) \in Nat
    BY <1>1, PlaceIsNat
  <1>3. ~(i < k) /\ ~(k < i)
    BY <1>2, NewerComesEarlier
  <1> QED
    BY <1>1, <1>3

\* There is no gap in front of a product.
LEMMA PlacesHaveNoGap ==
  ASSUME products \in Seq(Product), NEW s, NEW i \in ProductsOf(s), NEW n \in 0..Newer(i)
  PROVE  \E k \in ProductsOf(s) : Newer(k) = n
  <1> DEFINE S == {i} \cup After(i)
             T == 0..Newer(i)
             f == [k \in S |-> Newer(k)]
  <1>1. i \in 1..Len(products) /\ products[i].seller = s
    BY DEF ProductsOf
  <1>2. IsFiniteSet(After(i)) /\ Newer(i) = Cardinality(After(i)) /\ Newer(i) \in Nat
    BY <1>1, PlaceIsNat
  <1>3. S \subseteq ProductsOf(s) /\ i \notin After(i)
    BY <1>1 DEF After, ProductsOf
  <1>4. Cardinality(S) = Newer(i) + 1
    <2>1. S = After(i) \cup {i}
      OBVIOUS
    <2> QED
      BY <1>2, <1>3, <2>1, FS_AddElement
  <1>5. IsFiniteSet(T) /\ Cardinality(T) = Newer(i) + 1
    BY <1>2, FS_Interval
  <1>6. f \in Injection(S, T)
    <2>1. ASSUME NEW k \in S
          PROVE  Newer(k) \in T
      <3>1. k \in 1..Len(products) /\ Newer(k) \in Nat
        BY <1>3, PlaceIsNat DEF ProductsOf
      <3>2. CASE k = i
        BY <3>1, <3>2
      <3>3. CASE k \in After(i)
        <4>1. i < k
          BY <3>3, <1>1 DEF After
        <4>2. Newer(k) < Newer(i)
          BY <4>1, <1>3, NewerComesEarlier
        <4> QED
          BY <3>1, <4>2, <1>2
      <3> QED
        BY <3>2, <3>3
    <2>2. ASSUME NEW k \in S, NEW m \in S, Newer(k) = Newer(m)
          PROVE  k = m
      BY <1>3, <2>2, PlacesDiffer
    <2> QED
      BY <2>1, <2>2 DEF Injection, IsInjective
  <1>7. f \in Surjection(S, T)
    <2> HIDE DEF S, T, f
    <2> QED
      BY <1>4, <1>5, <1>6, FS_Injection
  <1>8. PICK k \in S : f[k] = n
    BY <1>7 DEF Surjection
  <1> QED
    BY <1>3, <1>8

\* Products are only added, so a place only moves away from the start.
TableGrows ==
    /\ products' \in Seq(Product)
    /\ Len(products') >= Len(products)
    /\ \A i \in 1..Len(products) : products'[i] = products[i]

LEMMA PlacesMoveAway ==
  ASSUME products \in Seq(Product), TableGrows, NEW i \in 1..Len(products)
  PROVE  Newer(i)' \in Nat /\ Newer(i)' >= Newer(i)
  <1> DEFINE S == {j \in (i + 1)..Len(products') : products'[j].seller = products'[i].seller}
  <1>1. Newer(i)' = Cardinality(S)
    BY DEF Newer
  <1>2. IsFiniteSet(S)
    <2>1. IsFiniteSet((i + 1)..Len(products')) /\ S \in SUBSET ((i + 1)..Len(products'))
      BY FS_Interval DEF TableGrows
    <2> QED
      BY <2>1, FS_Subset
  <1>3. After(i) \in SUBSET S
    BY DEF After, TableGrows
  <1>4. Cardinality(S) \in Nat /\ Cardinality(After(i)) \in Nat /\ Cardinality(After(i)) <= Cardinality(S)
    <2> HIDE DEF S
    <2> QED
      BY <1>2, <1>3, FS_Subset, FS_CardinalityType
  <1> QED
    BY <1>1, <1>4, PlaceIsNat

-----------------------------------------------------------------------------
(* Pages. *)

\* A page holds at most as many products as its limit.
LEMMA PageWithinLimit ==
  ASSUME products \in Seq(Product), NEW s, NEW limit \in Nat, NEW offset \in Nat
  PROVE  /\ IsFiniteSet(Page(s, limit, offset))
         /\ Cardinality(Page(s, limit, offset)) \in Nat
         /\ Cardinality(Page(s, limit, offset)) <= limit
  <1> DEFINE S == Page(s, limit, offset)
             T == offset..(offset + limit - 1)
             f == [i \in S |-> Newer(i)]
  <1>1. IsFiniteSet(T) /\ Cardinality(T) = limit
    BY FS_Interval
  <1>2. f \in Injection(S, T)
    <2>1. ASSUME NEW i \in S
          PROVE  Newer(i) \in T
      <3>1. Newer(i) \in Nat
        BY PlaceIsNat DEF Page, ProductsOf
      <3> QED
        BY <3>1 DEF Page
    <2>2. ASSUME NEW i \in S, NEW k \in S, Newer(i) = Newer(k)
          PROVE  i = k
      BY <2>2, PlacesDiffer DEF Page
    <2> QED
      BY <2>1, <2>2 DEF Injection, IsInjective
  <1>3. IsFiniteSet(S) /\ Cardinality(S) <= Cardinality(T)
    <2> HIDE DEF S, T, f
    <2> QED
      BY <1>1, <1>2, FS_Injection
  <1> QED
    BY <1>1, <1>3, FS_CardinalityType

\* A page that could hold a product is empty only when nothing lies at its
\* offset or beyond.
LEMMA EmptyPageIsTheEnd ==
  ASSUME products \in Seq(Product), NEW s, NEW limit \in Nat \ {0}, NEW offset \in Nat,
         Page(s, limit, offset) = {}, NEW i \in ProductsOf(s)
  PROVE  Newer(i) < offset
  <1>1. Newer(i) \in Nat
    BY PlaceIsNat DEF ProductsOf
  <1>2. SUFFICES ASSUME offset <= Newer(i) PROVE FALSE
    BY <1>1
  <1>3. PICK k \in ProductsOf(s) : Newer(k) = offset
    BY <1>1, <1>2, PlacesHaveNoGap
  <1> QED
    BY <1>3 DEF Page

\* What an offset that is not negative as an int32 was before the conversion.
LEMMA Int32Values ==
  ASSUME NEW n \in Nat
  PROVE  /\ Int32(n) \in Int /\ Int32(n) < Half
         /\ n < 2 * Half /\ Int32(n) >= 0 => n < Half /\ Int32(n) = n
  <1>1. Half \in Nat \ {0}
    BY CatalogAssumption DEF CatalogAssumption
  <1>2. n % (2 * Half) \in 0..(2 * Half - 1)
    BY <1>1
  <1>3. n < 2 * Half => n % (2 * Half) = n
    BY <1>1
  <1> QED
    BY <1>1, <1>2, <1>3 DEF Int32

\* A page that arrives: its rows leave the missing, and the offset moves by as
\* many places as it has rows, and no further than what is still missing.
LEMMA PageMovesWalk ==
  ASSUME products \in Seq(Product), products' = products, walk \in Walk, ~walk.over, WalkInv,
         Int32(walk.limit) >= 0, Int32(walk.offset) >= 0,
         PageReceived(Page(walk.seller, Int32(walk.limit), Int32(walk.offset)))
  PROVE  /\ OffsetBounded' /\ MissingBeyond' /\ WalkSeesAll'
         /\ walk'.seller = walk.seller
  <1> DEFINE limit == Int32(walk.limit)
             offset == walk.offset
             rows == Page(walk.seller, limit, offset)
             count == Cardinality(rows)
  <1>1. /\ Half \in Nat \ {0}
        /\ walk.limit \in Nat /\ offset \in Nat /\ walk.missing \subseteq Nat
    BY CatalogAssumption DEF CatalogAssumption, Walk
  <1>2. limit \in Nat /\ limit < Half /\ offset < Half /\ Int32(offset) = offset
    BY <1>1, Int32Values DEF WalkInv, OffsetBounded
  <1>3. count \in Nat /\ count <= limit
    BY <1>1, <1>2, PageWithinLimit
  <1>4. /\ walk.missing \subseteq ProductsOf(walk.seller)
        /\ \A i \in walk.missing : Newer(i) >= offset
    BY DEF WalkInv, MissingBeyond
  <1>5. \A i \in ProductsOf(walk.seller) : Newer(i) \in Nat
    BY PlaceIsNat DEF ProductsOf
  <1>6. PageReceived(rows)
    BY <1>2
  <1>7. \A s : ProductsOf(s)' = ProductsOf(s)
    BY DEF ProductsOf
  <1>8. \A i : Newer(i)' = Newer(i)
    BY DEF Newer
  <1>9. CASE rows = {}
    <2>1. walk' = [walk EXCEPT !.offset = 0, !.over = TRUE]
      BY <1>6, <1>9 DEF PageReceived
    <2>2. /\ walk'.offset = 0 /\ walk'.over /\ walk'.missing = walk.missing
          /\ walk'.seller = walk.seller /\ walk'.limit = walk.limit
      BY <2>1 DEF Walk
    <2>3. limit # 0 => walk.missing = {}
      <3>1. ASSUME limit # 0, NEW i \in walk.missing
            PROVE  FALSE
        <4>1. Newer(i) < offset
          BY <1>1, <1>2, <1>4, <1>9, <3>1, EmptyPageIsTheEnd
        <4> QED
          BY <1>1, <1>4, <1>5, <4>1
      <3> QED
        BY <3>1
    <2>4. Int32(walk'.limit) = Int32(walk.limit)
      BY <2>2
    <2>5. WalkSeesAll'
      BY <2>2, <2>3, <2>4 DEF WalkSeesAll, Int32
    <2> QED
      BY <1>1, <1>4, <1>7, <2>2, <2>5 DEF OffsetBounded, MissingBeyond
  <1>10. CASE rows # {}
    <2>1. walk' = [walk EXCEPT !.offset = @ + count, !.missing = @ \ rows]
      BY <1>6, <1>10 DEF PageReceived
    <2>2. /\ walk'.offset = offset + count /\ ~walk'.over /\ walk'.missing = walk.missing \ rows
          /\ walk'.seller = walk.seller
      BY <2>1 DEF Walk
    <2>3. ASSUME NEW i \in walk.missing \ rows
          PROVE  Newer(i) >= offset + count
      <3>1. Newer(i) \in Nat /\ Newer(i) >= offset
        BY <1>4, <1>5
      <3>2. ~(Newer(i) < offset + limit)
        BY <1>4, <3>1 DEF Page
      <3> HIDE DEF limit, offset, rows, count
      <3> QED
        BY <1>1, <1>2, <1>3, <3>1, <3>2
    <2>4. OffsetBounded'
      <3> HIDE DEF limit, rows, count
      <3> QED
        BY <1>1, <1>2, <1>3, <2>2 DEF OffsetBounded
    <2>5. MissingBeyond'
      <3> HIDE DEF limit, rows, count, offset
      <3> QED
        BY <1>4, <1>7, <1>8, <2>2, <2>3 DEF MissingBeyond
    <2>6. WalkSeesAll'
      BY <2>2 DEF WalkSeesAll
    <2> QED
      BY <2>2, <2>4, <2>5, <2>6
  <1> QED
    BY <1>9, <1>10

-----------------------------------------------------------------------------
(* Steps. *)

\* No goroutine starts to ask for a page.
NoNewReader ==
    \A x \in Workers : pc'[x] = "sellerProducts" => pc[x] = "sellerProducts" /\ req'[x] = req[x]

\* Steps that leave the walk alone, whatever they add to the table.
LEMMA WalkKept ==
  ASSUME CatalogInv, WalkInv, TableGrows, walk' = walk, PageAsked'
  PROVE  WalkInv'
  <1>1. products \in Seq(Product) /\ walk.offset \in Nat
    BY DEF CatalogInv, TypeOK, Walk
  <1>2. ProductsOf(walk.seller) \subseteq ProductsOf(walk.seller)'
    BY DEF ProductsOf, TableGrows
  <1>3. ASSUME ~walk.over, NEW i \in walk.missing
        PROVE  Newer(i)' >= walk.offset
    <2>1. i \in 1..Len(products) /\ Newer(i) >= walk.offset
      BY <1>3 DEF WalkInv, MissingBeyond, ProductsOf
    <2>2. Newer(i)' \in Nat /\ Newer(i)' >= Newer(i)
      BY <1>1, <2>1, PlacesMoveAway
    <2>3. Newer(i) \in Nat
      BY <1>1, <2>1, PlaceIsNat
    <2> QED
      BY <1>1, <2>1, <2>2, <2>3
  <1>4. MissingBeyond'
    BY <1>2, <1>3 DEF WalkInv, MissingBeyond
  <1>5. OffsetBounded' /\ WalkSeesAll'
    BY DEF WalkInv, OffsetBounded, WalkSeesAll, Int32
  <1> QED
    BY <1>4, <1>5 DEF WalkInv

LEMMA PageAskedKept ==
  ASSUME PageAsked, NoNewReader, walk' = walk
  PROVE  PageAsked'
  BY DEF PageAsked, NoNewReader

LEMMA TableStays ==
  ASSUME CatalogInv, products' = products
  PROVE  TableGrows
  BY DEF CatalogInv, TypeOK, TableGrows

LEMMA StatementGrowsTable ==
  ASSUME CatalogInv, NEW w \in Workers, MayExecute(w)
  PROVE  TableGrows
  <1>1. CASE products' = products
    BY <1>1, TableStays
  <1>2. CASE pc[w] = "addProduct" /\ AddProduct(req[w])
    <2> DEFINE p == [seller |-> req[w].seller, images |-> req[w].images]
    <2>1. p \in Product /\ products \in Seq(Product)
      BY <1>2 DEF CatalogInv, HandsSound, RequestSound, TypeOK, Request, Product
    <2>2. products' = Append(products, p)
      BY <1>2 DEF AddProduct
    <2> QED
      BY <2>1, <2>2 DEF TableGrows
  <1> QED
    BY <1>1, <1>2 DEF MayExecute, Execute

LEMMA HandlerAsksNoPage ==
  ASSUME CatalogInv, NEW w \in Workers, HandlerStep(w)
  PROVE  NoNewReader
  <1> USE DEF CatalogInv, TypeOK, NoNewReader
  <1>1. CASE SendQuery(w)
    BY <1>1 DEF SendQuery, goroutines
  <1>2. ASSUME NEW status, Finish(w, status)
        PROVE  NoNewReader
    BY <1>2 DEF Finish
  <1>3. ASSUME NEW call, call # "sellerProducts", NEW r, GoOn(w, call, r)
        PROVE  NoNewReader
    BY <1>3 DEF GoOn
  <1> HIDE DEF CatalogInv, TypeOK, NoNewReader
  <1> QED
    BY <1>1, <1>2, <1>3
       DEF HandlerStep, BucketChecked, BucketMade, ImageStored, StorageFails, ImageListed, ListingFails,
           NextFile, UrlsSigned, NameRemoved, RemovalFails, TakeOff, QueryFails, Interrupted,
           ProductAdded, ImagesRead, PageRead

\* Only the answer to the request for a page moves the walk.
LEMMA HandlerKeepsWalk ==
  ASSUME CatalogInv, NEW w \in Workers, HandlerStep(w), ~PageRead(w)
  PROVE  walk' = walk /\ TableGrows
  <1>1. CASE Interrupted(w)
    BY <1>1, StatementGrowsTable DEF Interrupted, clients
  <1>2. CASE ProductAdded(w) \/ ImagesRead(w)
    BY <1>2, StatementGrowsTable DEF ProductAdded, ImagesRead, Answered, MayExecute, clients
  <1>3. CASE \/ BucketChecked(w) \/ BucketMade(w) \/ ImageStored(w) \/ StorageFails(w)
             \/ ImageListed(w) \/ ListingFails(w) \/ UrlsSigned(w) \/ SendQuery(w) \/ QueryFails(w)
             \/ \E i \in req[w].images : NameRemoved(w, i) \/ RemovalFails(w, i)
    <2>1. walk' = walk /\ products' = products
      BY <1>3 DEF BucketChecked, BucketMade, ImageStored, StorageFails, ImageListed, ListingFails,
                  UrlsSigned, SendQuery, QueryFails, NameRemoved, RemovalFails, clients, stores
    <2> QED
      BY <2>1, TableStays
  <1> QED
    BY <1>1, <1>2, <1>3 DEF HandlerStep

LEMMA PageReadKeepsWalk ==
  ASSUME CatalogInv, WalkInv, NEW w \in Workers, PageRead(w)
  PROVE  WalkInv'
  <1>1. /\ pc[w] = "sellerProducts" /\ products' = products
        /\ products \in Seq(Product) /\ walk \in Walk
    BY DEF PageRead, Answered, Execute, CatalogInv, TypeOK
  <1>2. ~walk.over /\ req[w].seller = walk.seller /\ req[w].limit = walk.limit /\ req[w].offset = walk.offset
    BY <1>1 DEF WalkInv, PageAsked
  <1>3. /\ pc'[w] = "idle"
        /\ \A x \in Workers : x # w => pc'[x] = pc[x]
    BY DEF PageRead, Finish, CatalogInv, TypeOK
  <1>4. \A x \in Workers : pc'[x] # "sellerProducts"
    BY <1>1, <1>3 DEF WalkInv, PageAsked
  <1>5. PageAsked'
    BY <1>4 DEF PageAsked
  <1>6. CASE walk' = walk
    BY <1>1, <1>5, <1>6, TableStays, WalkKept
  <1>7. CASE /\ Int32(walk.limit) >= 0 /\ Int32(walk.offset) >= 0
             /\ PageReceived(Page(walk.seller, Int32(walk.limit), Int32(walk.offset)))
    BY <1>1, <1>2, <1>5, <1>7, PageMovesWalk DEF WalkInv
  <1> QED
    BY <1>2, <1>6, <1>7 DEF PageRead

LEMMA StartWalkKeepsWalk ==
  ASSUME CatalogInv, WalkInv, NEW s \in Sellers, NEW l \in Limits, StartWalk(s, l)
  PROVE  WalkInv'
  <1>1. /\ products' = products /\ pc' = pc /\ walk.over
        /\ walk' = [seller |-> s, limit |-> Parsed(l), offset |-> 0, missing |-> ProductsOf(s), over |-> FALSE]
    BY DEF StartWalk, stores, goroutines
  <1>2. \A x \in Workers : pc'[x] # "sellerProducts"
    BY <1>1 DEF WalkInv, PageAsked
  <1>3. PageAsked' /\ OffsetBounded' /\ WalkSeesAll'
    BY <1>1, <1>2, CatalogAssumption DEF CatalogAssumption, PageAsked, OffsetBounded, WalkSeesAll
  <1>4. ProductsOf(s)' = ProductsOf(s) /\ \A i : Newer(i)' = Newer(i)
    BY <1>1 DEF ProductsOf, Newer
  <1>5. \A i \in ProductsOf(s) : Newer(i) >= 0
    BY PlaceIsNat DEF ProductsOf, CatalogInv, TypeOK
  <1>6. MissingBeyond'
    BY <1>1, <1>4, <1>5 DEF MissingBeyond
  <1> QED
    BY <1>3, <1>6 DEF WalkInv

LEMMA ArrivalKeepsWalk ==
  ASSUME CatalogInv, WalkInv, NEW w \in Workers, NEW call, NEW r, Arrive(w, call, r),
         call = "sellerProducts" =>
            /\ ~walk.over /\ r.seller = walk.seller /\ r.limit = walk.limit /\ r.offset = walk.offset
            /\ \A x \in Workers : pc[x] # "sellerProducts"
  PROVE  WalkInv'
  <1>1. /\ walk' = walk /\ TableGrows
        /\ pc'[w] = call /\ req'[w] = r
        /\ \A x \in Workers : x # w => pc'[x] = pc[x] /\ req'[x] = req[x]
    BY TableStays DEF Arrive, clients, stores, CatalogInv, TypeOK
  <1>2. PageAsked'
    BY <1>1 DEF WalkInv, PageAsked
  <1> QED
    BY <1>1, <1>2, WalkKept

LEMMA WalkInit == Init => WalkInv
  <1> SUFFICES ASSUME Init PROVE WalkInv
    OBVIOUS
  <1>1. \A w \in Workers : pc[w] # "sellerProducts"
    BY DEF Init
  <1>2. walk.missing = {} /\ walk.offset = 0 /\ walk.over
    BY DEF Init
  <1> QED
    BY <1>1, <1>2, CatalogAssumption
       DEF CatalogAssumption, WalkInv, PageAsked, OffsetBounded, MissingBeyond, WalkSeesAll

LEMMA WalkStep ==
  ASSUME CatalogInv, WalkInv, [Next]_vars
  PROVE  WalkInv'
  <1>1. ASSUME NoNewReader, walk' = walk, TableGrows
        PROVE  WalkInv'
    BY <1>1, PageAskedKept, WalkKept DEF WalkInv
  <1>2. ASSUME NEW w \in Workers, HandlerStep(w)
        PROVE  WalkInv'
    BY <1>1, <1>2, PageReadKeepsWalk, HandlerAsksNoPage, HandlerKeepsWalk
  <1>3. ASSUME NEW w \in Workers, ProductsBySellerID(w)
        PROVE  WalkInv'
    <2> DEFINE r == [NoRequest EXCEPT !.seller = walk.seller, !.limit = walk.limit, !.offset = walk.offset]
    <2>1. r.seller = walk.seller /\ r.limit = walk.limit /\ r.offset = walk.offset
      BY DEF NoRequest
    <2>2. /\ ~walk.over /\ Arrive(w, "sellerProducts", r)
          /\ \A x \in Workers : pc[x] # "sellerProducts"
      BY <1>3 DEF ProductsBySellerID
    <2> HIDE DEF r
    <2> QED
      BY <2>1, <2>2, ArrivalKeepsWalk
  <1>4. ASSUME NEW w \in Workers,
               \/ \E n \in 1..MaxFiles : UploadImages(w, n)
               \/ \E s \in Sellers, names \in SUBSET Images : CreateProduct(w, s, names)
               \/ \E p \in 1..MaxProducts : GetProductImageUrls(w, p)
        PROVE  WalkInv'
    BY <1>4, ArrivalKeepsWalk DEF UploadImages, CreateProduct, GetProductImageUrls
  <1>5. CASE \/ UNCHANGED vars \/ ShutdownBegins \/ ConnectionLost \/ ProcessRestart
             \/ \E w \in Workers : Reject(w) \/ ClientLeaves(w)
    <2>1. pc' = pc /\ req' = req /\ walk' = walk /\ products' = products
      BY <1>5 DEF vars, ShutdownBegins, ConnectionLost, ProcessRestart, Reject, ClientLeaves,
                  stores, clients, goroutines
    <2> QED
      BY <1>1, <2>1, TableStays DEF NoNewReader
  <1>6. CASE \E s \in Sellers, l \in Limits : StartWalk(s, l)
    BY <1>6, StartWalkKeepsWalk
  <1>7. CASE ShutdownEnds \/ ShutdownTimesOut \/ ProcessCrash
    <2>1. ProcessEnds
      BY <1>7 DEF ShutdownEnds, ShutdownTimesOut, ProcessCrash
    <2>2. NoNewReader /\ walk' = walk
      BY <2>1 DEF ProcessEnds, NoNewReader, clients
    <2>3. TableGrows
      BY <2>1, TableStays, StatementGrowsTable DEF ProcessEnds
    <2> QED
      BY <1>1, <2>2, <2>3
  <1> QED
    BY <1>2, <1>3, <1>4, <1>5, <1>6, <1>7 DEF Next

-----------------------------------------------------------------------------
(* The theorems. *)

\* What a walk has not seen yet is at its offset or beyond, whatever is listed
\* and whatever fails between two pages (service/products.go:160-164).
THEOREM WalkInvariant == Spec => []WalkInv
  <1>1. Init => CatalogInv /\ WalkInv
    BY CatalogInit, WalkInit
  <1>2. CatalogInv /\ WalkInv /\ [Next]_vars => CatalogInv' /\ WalkInv'
    BY CatalogStep, WalkStep
  <1> QED
    BY <1>1, <1>2, PTL DEF Spec

\* A client that has read the pages to their end has seen every product that was
\* listed when it began, unless its limit converts to zero.
THEOREM WalksSeeAll == Spec => []WalkSeesAll
  <1>1. WalkInv => WalkSeesAll
    BY DEF WalkInv
  <1> QED
    BY <1>1, WalkInvariant, PTL
=============================================================================
