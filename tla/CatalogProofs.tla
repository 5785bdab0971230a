----------------------------- MODULE CatalogProofs -----------------------------
(***************************************************************************)
(* Catalog for every number of images, products, sellers and goroutines,   *)
(* every upload size and every page limit: types, the exactness of the     *)
(* temporary list, which uploads may fail, and that the life of an image   *)
(* goes one way.                                                           *)
(***************************************************************************)
EXTENDS CatalogInvariant, FiniteSetTheorems, TLAPS

\* Goroutine w goes on to this call with this request.
Moves(w, call, r) == pc' = [pc EXCEPT ![w] = call] /\ req' = [req EXCEPT ![w] = r]

\* The variables other than pc, req, objects and tempList keep their types.
TypesKept ==
    /\ ServerTypeOK'
    /\ products' \in Seq(Product)
    /\ bucket' \in BOOLEAN
    /\ guessed' \subseteq Images /\ unlisted' \subseteq Images /\ unremoved' \subseteq Images
    /\ calm' \in BOOLEAN
    /\ walk' \in Walk
    /\ reply' \in [Workers -> StatusClasses]
    /\ gone' \subseteq Workers

\* The names of the product goroutine w is creating.
Naming(w) == IF pc[w] = "addProduct" THEN req[w].images ELSE {}

\* A step of goroutine w changes the stores only for the name it holds, and
\* takes no other name but a new one.
NamesKept(w) ==
    LET new == told' \cup Carried(w)' IN
    /\ objects \subseteq objects' /\ objects' \subseteq objects \cup Held(w)
    /\ tempList' \subseteq objects'
    /\ Used \subseteq Used'
    /\ bucket => bucket'
    /\ new \subseteq Shown \cup Held(w)
    /\ new \subseteq objects'
    /\ Held(w)' \subseteq Held(w) \cup NewNames
    /\ Held(w)' \cap (Shown \cup new) = {}
    /\ pc'[w] \in UploadCalls => (req'[w].name \in objects' <=> pc'[w] = "addTemp")

\* A step of goroutine w uses no name that is neither told nor guessed.
ToldKept(w) ==
    /\ told \subseteq told' /\ guessed \subseteq guessed'
    /\ Used' \subseteq Used \cup Naming(w)
    /\ Naming(w)' \subseteq told' \cup guessed' \cup Naming(w)

\* A step of goroutine w adds nothing to what the temporary list gets wrong.
ExactKept(w) ==
    /\ unlisted \subseteq unlisted' /\ unremoved \subseteq unremoved' /\ guessed \subseteq guessed'
    /\ \A i \in objects' \ (tempList' \cup Used' \cup unlisted') :
          \/ i \in objects \ (tempList \cup Used) /\ ~(pc[w] = "addTemp" /\ req[w].name = i)
          \/ pc'[w] = "addTemp" /\ req'[w].name = i
    /\ \A i \in (tempList' \cap Used') \ (unremoved' \cup guessed') :
          \/ i \in tempList \cap Used /\ ~(pc[w] = "removeTemp" /\ i \in req[w].images)
          \/ pc'[w] = "removeTemp" /\ i \in req'[w].images

-----------------------------------------------------------------------------
(* Steps of one goroutine. *)

LEMMA NamesStayFresh ==
  ASSUME TypeOK, NamesFresh, NEW w \in Workers, NEW call \in Calls \cup {"idle"}, NEW r \in Request,
         Moves(w, call, r), NamesKept(w)
  PROVE  NamesFresh'
  <1> DEFINE new == told' \cup Carried(w)'
  <1>1. pc'[w] = call /\ req'[w] = r
    BY DEF Moves, TypeOK
  <1>2. ASSUME NEW x \in Workers, x # w
        PROVE  pc'[x] = pc[x] /\ req'[x] = req[x] /\ Held(x)' = Held(x) /\ Carried(x)' = Carried(x)
    BY <1>2 DEF Moves, TypeOK, Held, Carried
  <1>3. Shown' \subseteq Shown \cup new
    BY <1>2 DEF Shown
  <1>4. (Shown \cup tempList)' \subseteq objects'
    BY <1>3 DEF NamesFresh, NamesKept
  <1>5. ASSUME NEW x \in Workers
        PROVE  Held(x)' \cap Shown' = {}
    <2>1. CASE x = w
      BY <2>1, <1>3 DEF NamesKept
    <2>2. CASE x # w
      <3>1. Held(x)' = Held(x) /\ Held(x) \cap Shown = {} /\ Held(x) \cap Held(w) = {}
        BY <2>2, <1>2 DEF NamesFresh
      <3> QED
        BY <3>1, <1>3 DEF NamesKept
    <2> QED
      BY <2>1, <2>2
  <1>6. ASSUME NEW x \in Workers, x # w
        PROVE  Held(x)' \cap Held(w)' = {}
    <2>1. Held(x)' = Held(x) /\ Held(x) \cap Held(w) = {}
      BY <1>6, <1>2 DEF NamesFresh
    <2>2. Held(x) \cap NewNames = {}
      BY DEF Held, NewNames, NamesDrawn
    <2> QED
      BY <2>1, <2>2 DEF NamesKept
  <1>7. ASSUME NEW x \in Workers, NEW y \in Workers, x # y
        PROVE  Held(x)' \cap Held(y)' = {}
    <2>1. CASE x # w /\ y # w
      BY <1>7, <2>1, <1>2 DEF NamesFresh
    <2> QED
      BY <1>7, <2>1, <1>6
  <1>8. ASSUME NEW x \in Workers, pc'[x] \in UploadCalls
        PROVE  req'[x].name \in objects' <=> pc'[x] = "addTemp"
    <2>1. CASE x = w
      BY <1>8, <2>1 DEF NamesKept
    <2>2. CASE x # w
      <3>1. pc'[x] = pc[x] /\ req'[x] = req[x] /\ req[x].name \in Held(x)
        BY <1>8, <2>2, <1>2 DEF Held
      <3>2. req[x].name \notin Held(w)
        BY <2>2, <3>1 DEF NamesFresh
      <3>3. req[x].name \in objects <=> pc[x] = "addTemp"
        BY <1>8, <3>1 DEF NamesFresh
      <3> QED
        BY <3>1, <3>2, <3>3 DEF NamesKept
    <2> QED
      BY <2>1, <2>2
  <1> QED
    BY <1>4, <1>5, <1>7, <1>8 DEF NamesFresh

LEMMA NamesStayTold ==
  ASSUME TypeOK, NamesTold, NEW w \in Workers, NEW call \in Calls \cup {"idle"}, NEW r \in Request,
         Moves(w, call, r), ToldKept(w)
  PROVE  NamesTold'
  <1>1. Naming(w) \subseteq told \cup guessed /\ Used \subseteq told \cup guessed
    BY DEF Naming, NamesTold
  <1>2. Used' \ guessed' \subseteq told'
    BY <1>1 DEF ToldKept
  <1>3. ASSUME NEW x \in Workers, pc'[x] = "addProduct"
        PROVE  req'[x].images \ guessed' \subseteq told'
    <2>1. CASE x = w
      BY <1>1, <1>3, <2>1 DEF ToldKept, Naming
    <2>2. CASE x # w
      BY <1>3, <2>2 DEF Moves, TypeOK, NamesTold, ToldKept
    <2> QED
      BY <2>1, <2>2
  <1> QED
    BY <1>2, <1>3 DEF NamesTold

LEMMA ListStaysExact ==
  ASSUME TypeOK, TempListExact, NEW w \in Workers, NEW call \in Calls \cup {"idle"}, NEW r \in Request,
         Moves(w, call, r), ExactKept(w)
  PROVE  TempListExact'
  <1>1. ASSUME NEW x \in Workers, x # w
        PROVE  pc'[x] = pc[x] /\ req'[x] = req[x]
    BY <1>1 DEF Moves, TypeOK
  <1>2. ASSUME NEW i \in objects' \ (tempList' \cup Used' \cup unlisted')
        PROVE  \E x \in Workers : pc'[x] = "addTemp" /\ req'[x].name = i
    <2>1. CASE i \in objects \ (tempList \cup Used) /\ ~(pc[w] = "addTemp" /\ req[w].name = i)
      <3>1. i \notin unlisted
        BY <1>2 DEF ExactKept
      <3>2. PICK x \in Workers : pc[x] = "addTemp" /\ req[x].name = i
        BY <2>1, <3>1 DEF TempListExact
      <3> QED
        BY <2>1, <3>2, <1>1
    <2> QED
      BY <1>2, <2>1 DEF ExactKept
  <1>3. ASSUME NEW i \in (tempList' \cap Used') \ (unremoved' \cup guessed')
        PROVE  \E x \in Workers : pc'[x] = "removeTemp" /\ i \in req'[x].images
    <2>1. CASE i \in tempList \cap Used /\ ~(pc[w] = "removeTemp" /\ i \in req[w].images)
      <3>1. i \notin unremoved \cup guessed
        BY <1>3 DEF ExactKept
      <3>2. PICK x \in Workers : pc[x] = "removeTemp" /\ i \in req[x].images
        BY <2>1, <3>1 DEF TempListExact
      <3> QED
        BY <2>1, <3>2, <1>1
    <2> QED
      BY <1>3, <2>1 DEF ExactKept
  <1> QED
    BY <1>2, <1>3 DEF TempListExact

\* What a step of goroutine w has to show.
LEMMA MoveSound ==
  ASSUME CatalogInv, NEW w \in Workers, NEW call \in Calls \cup {"idle"}, NEW r \in Request,
         Moves(w, call, r), TypesKept, NamesKept(w), ToldKept(w), ExactKept(w), RequestSound(w)'
  PROVE  CatalogInv'
  <1>1. NamesFresh'
    BY NamesStayFresh DEF CatalogInv, HandsSound
  <1>2. TempListExact'
    BY ListStaysExact DEF CatalogInv
  <1>8. NamesTold'
    BY NamesStayTold DEF CatalogInv
  <1>3. pc' \in [Workers -> Calls \cup {"idle"}] /\ req' \in [Workers -> Request]
    BY DEF Moves, CatalogInv, TypeOK
  <1>4. ASSUME NEW x \in Workers
        PROVE  RequestSound(x)'
    <2>1. CASE x = w
      BY <2>1
    <2>2. CASE x # w
      <3>1. pc'[x] = pc[x] /\ req'[x] = req[x]
        BY <2>2 DEF Moves, CatalogInv, TypeOK
      <3>2. RequestSound(x)
        BY DEF CatalogInv, HandsSound
      <3> QED
        BY <3>1, <3>2 DEF RequestSound, NamesKept
    <2> QED
      BY <2>1, <2>2
  <1>5. objects' \subseteq Images
    <2>1. Held(w) \subseteq Images
      BY DEF CatalogInv, HandsSound, RequestSound, Held
    <2> QED
      BY <2>1 DEF NamesKept, CatalogInv, TypeOK
  <1>6. tempList' \subseteq Images /\ told' \subseteq Images
    BY <1>5 DEF NamesKept
  <1>7. TypeOK'
    BY <1>3, <1>5, <1>6 DEF TypeOK, TypesKept
  <1> QED
    BY <1>1, <1>2, <1>4, <1>7, <1>8 DEF CatalogInv, HandsSound

-----------------------------------------------------------------------------
(* What the parts of the actions do. *)

LEMMA RequestOfNobody == NoRequest \in Request
  BY CatalogAssumption DEF CatalogAssumption, NoRequest, Request

LEMMA FinishMoves ==
  ASSUME TypeOK, NEW w \in Workers, NEW status \in StatusClasses, Finish(w, status)
  PROVE  /\ Moves(w, "idle", NoRequest)
         /\ reply' \in [Workers -> StatusClasses] /\ gone' \subseteq Workers
  BY DEF Finish, Moves, TypeOK

LEMMA GoOnMoves ==
  ASSUME TypeOK, NEW w \in Workers, NEW call \in Calls, NEW r \in Request, GoOn(w, call, r)
  PROVE  /\ Moves(w, call, r)
         /\ reply' \in [Workers -> StatusClasses] /\ gone' \subseteq Workers
  BY DEF GoOn, Moves, TypeOK

\* Queries begin, fail and are answered.
LEMMA ServerKept ==
  ASSUME TypeOK, NEW w \in Workers,
         Acquire(w) \/ Refused(w) \/ CancelledBefore(w) \/ Errs(w) \/ Release(w)
           \/ Break(w, w \in gone)
  PROVE  ServerTypeOK'
  BY DEF TypeOK, ServerTypeOK, Acquire, Refused, CancelledBefore, Errs, Release, Break, serverVars

\* A row adds its images to those in use.
LEMMA UsedGrows ==
  ASSUME products \in Seq(Product), NEW p \in Product, products' = Append(products, p)
  PROVE  products' \in Seq(Product) /\ Used' = Used \cup p.images
  <1>1. /\ Len(products') = Len(products) + 1
        /\ \A i \in 1..Len(products) : products'[i] = products[i]
        /\ products'[Len(products) + 1] = p
    OBVIOUS
  <1>2. 1..Len(products') = 1..Len(products) \cup {Len(products) + 1}
    BY <1>1
  <1> QED
    BY <1>1, <1>2 DEF Used

\* The insert of a product that goroutine w has in flight.
LEMMA InsertUses ==
  ASSUME CatalogInv, NEW w \in Workers, Execute(w), pc[w] = "addProduct"
  PROVE  products' \in Seq(Product) /\ Used' = Used \cup req[w].images
  <1> DEFINE p == [seller |-> req[w].seller, images |-> req[w].images]
  <1>1. products' = Append(products, p)
    BY DEF Execute, AddProduct
  <1>2. p \in Product
    BY DEF CatalogInv, HandsSound, RequestSound, TypeOK, Request, Product
  <1> QED
    BY <1>1, <1>2, UsedGrows DEF CatalogInv, TypeOK

\* A query other than the insert leaves the table alone.
LEMMA ReadsUseNothing ==
  ASSUME CatalogInv, NEW w \in Workers, MayExecute(w), pc[w] # "addProduct" \/ ~Execute(w)
  PROVE  products' \in Seq(Product) /\ Used' = Used
  BY DEF MayExecute, Execute, CatalogInv, TypeOK, Used

LEMMA MayUse ==
  ASSUME CatalogInv, NEW w \in Workers, MayExecute(w)
  PROVE  products' \in Seq(Product) /\ Used \subseteq Used' /\ Used' \subseteq Used \cup Naming(w)
  BY InsertUses, ReadsUseNothing DEF Naming

\* Goroutine w ends, in error.
LEMMA EndSound ==
  ASSUME CatalogInv, NEW w \in Workers, NEW status \in StatusClasses, Finish(w, status),
         ServerTypeOK', UNCHANGED <<products, bucket, objects, tempList, told>>,
         walk' \in Walk, UNCHANGED history, pc[w] \notin {"addTemp", "removeTemp"}
  PROVE  CatalogInv'
  <1> USE DEF CatalogInv
  <1>1. Moves(w, "idle", NoRequest) /\ NoRequest \in Request
    BY FinishMoves, RequestOfNobody
  <1>2. TypesKept
    BY FinishMoves DEF TypesKept, TypeOK, history
  <1>3. pc'[w] = "idle" /\ Held(w)' = {} /\ Carried(w)' = {} /\ Used' = Used
    BY <1>1 DEF Moves, TypeOK, Held, Carried, UploadCalls, Used
  <1>4. NamesKept(w)
    BY <1>3 DEF NamesKept, Shown, HandsSound, NamesFresh, UploadCalls
  <1>5. RequestSound(w)'
    BY <1>3 DEF RequestSound, UploadCalls
  <1>6. ToldKept(w) /\ ExactKept(w)
    BY <1>1, <1>3 DEF ToldKept, ExactKept, Naming, Moves, TypeOK, history
  <1> QED
    BY <1>1, <1>2, <1>4, <1>5, <1>6, MoveSound

\* A step that no request, no store and no name takes part in.
LEMMA QuietSound ==
  ASSUME CatalogInv, TypesKept,
         UNCHANGED <<products, bucket, objects, tempList, told, history, pc, req>>
  PROVE  CatalogInv'
  <1> USE DEF CatalogInv
  <1>1. TypeOK'
    BY DEF TypeOK, TypesKept
  <1>2. Used' = Used /\ \A w \in Workers : Held(w)' = Held(w) /\ Carried(w)' = Carried(w)
    BY DEF Used, Held, Carried
  <1>3. Shown' = Shown
    BY <1>2 DEF Shown
  <1>4. NamesFresh'
    BY <1>2, <1>3 DEF HandsSound, NamesFresh
  <1>5. ASSUME NEW w \in Workers
        PROVE  RequestSound(w)'
    BY <1>2 DEF HandsSound, RequestSound
  <1>6. TempListExact' /\ NamesTold'
    BY <1>2 DEF TempListExact, NamesTold, history
  <1> QED
    BY <1>1, <1>4, <1>5, <1>6 DEF HandsSound

-----------------------------------------------------------------------------
(* UploadImages. *)

LEMMA BucketCheckedSound ==
  ASSUME CatalogInv, NEW w \in Workers, BucketChecked(w)
  PROVE  CatalogInv'
  <1> USE DEF CatalogInv
  <1> DEFINE call == IF bucket THEN "putObject" ELSE "makeBucket"
  <1>1. call \in Calls /\ req[w] \in Request /\ GoOn(w, call, req[w]) /\ pc[w] = "bucketExists"
    BY DEF BucketChecked, Calls, UploadCalls, TypeOK
  <1>2. Moves(w, call, req[w]) /\ TypesKept
    BY <1>1, GoOnMoves DEF BucketChecked, TypesKept, TypeOK, ServerTypeOK, serverVars, clients, history, stores
  <1>3. pc'[w] = call /\ req'[w] = req[w] /\ UNCHANGED <<stores, told, history>>
    BY <1>2 DEF BucketChecked, clients, Moves, TypeOK
  <1>4. Held(w)' = Held(w) /\ Carried(w)' = Carried(w) /\ Used' = Used
    BY <1>1, <1>3 DEF Held, Carried, UploadCalls, Used, stores
  <1>5. NamesKept(w)
    BY <1>1, <1>3, <1>4 DEF NamesKept, Shown, HandsSound, NamesFresh, UploadCalls, stores
  <1>6. RequestSound(w)'
    BY <1>1, <1>3 DEF HandsSound, RequestSound, UploadCalls, stores
  <1>7. ToldKept(w) /\ ExactKept(w)
    BY <1>1, <1>3, <1>4 DEF ToldKept, ExactKept, Naming, stores, history
  <1> QED
    BY <1>1, <1>2, <1>5, <1>6, <1>7, MoveSound

LEMMA BucketMadeSound ==
  ASSUME CatalogInv, NEW w \in Workers, BucketMade(w)
  PROVE  CatalogInv'
  <1> USE DEF CatalogInv
  <1>1. pc[w] = "makeBucket" /\ req[w] \in Request /\ ServerTypeOK'
    BY DEF BucketMade, TypeOK, ServerTypeOK, serverVars
  <1>2. CASE bucket /\ Finish(w, "5xx")
    BY <1>1, <1>2, EndSound DEF BucketMade, TypeOK, StatusClasses, clients
  <1>3. CASE GoOn(w, "putObject", req[w])
    <2>1. Moves(w, "putObject", req[w]) /\ TypesKept
      BY <1>1, <1>3, GoOnMoves DEF BucketMade, TypesKept, TypeOK, clients, history, Calls, UploadCalls
    <2>2. /\ pc'[w] = "putObject" /\ req'[w] = req[w] /\ bucket'
          /\ UNCHANGED <<products, objects, tempList, told, history>>
      BY <2>1 DEF BucketMade, clients, Moves, TypeOK
    <2>3. Held(w)' = Held(w) /\ Carried(w)' = Carried(w) /\ Used' = Used
      BY <1>1, <2>2 DEF Held, Carried, UploadCalls, Used
    <2>4. NamesKept(w)
      BY <1>1, <2>2, <2>3 DEF NamesKept, Shown, HandsSound, NamesFresh, UploadCalls
    <2>5. RequestSound(w)'
      BY <1>1, <2>2 DEF HandsSound, RequestSound, UploadCalls
    <2>6. ToldKept(w) /\ ExactKept(w)
      BY <1>1, <2>2, <2>3 DEF ToldKept, ExactKept, Naming, history
    <2> QED
      BY <1>1, <2>1, <2>4, <2>5, <2>6, MoveSound DEF Calls, UploadCalls
  <1> QED
    BY <1>2, <1>3 DEF BucketMade

LEMMA ImageStoredSound ==
  ASSUME CatalogInv, NEW w \in Workers, ImageStored(w)
  PROVE  CatalogInv'
  <1> USE DEF CatalogInv
  <1>1. pc[w] = "putObject" /\ req[w] \in Request /\ ServerTypeOK' /\ GoOn(w, "addTemp", req[w])
    BY DEF ImageStored, TypeOK, ServerTypeOK, serverVars
  <1>2. Moves(w, "addTemp", req[w]) /\ TypesKept
    BY <1>1, GoOnMoves DEF ImageStored, TypesKept, TypeOK, clients, history, Calls, UploadCalls
  <1>3. /\ pc'[w] = "addTemp" /\ req'[w] = req[w] /\ objects' = objects \cup {req[w].name}
        /\ UNCHANGED <<products, bucket, tempList, told, history>>
    BY <1>2 DEF ImageStored, clients, Moves, TypeOK
  <1>4. Held(w) = {req[w].name} /\ Held(w)' = Held(w) /\ Carried(w)' = Carried(w) /\ Used' = Used
    BY <1>1, <1>3 DEF Held, Carried, UploadCalls, Used
  <1>5. NamesKept(w)
    BY <1>1, <1>3, <1>4 DEF NamesKept, Shown, HandsSound, NamesFresh, UploadCalls
  <1>6. RequestSound(w)'
    BY <1>1, <1>3 DEF HandsSound, RequestSound, UploadCalls
  <1>7. ToldKept(w) /\ ExactKept(w)
    BY <1>1, <1>3, <1>4 DEF ToldKept, ExactKept, Naming, history
  <1> QED
    BY <1>1, <1>2, <1>5, <1>6, <1>7, MoveSound DEF Calls, UploadCalls

LEMMA StorageFailsSound ==
  ASSUME CatalogInv, NEW w \in Workers, StorageFails(w)
  PROVE  CatalogInv'
  <1> USE DEF CatalogInv
  <1>1. Moves(w, "idle", NoRequest) /\ NoRequest \in Request
    BY FinishMoves, RequestOfNobody DEF StorageFails, StatusClasses
  <1>2. /\ objects' \in {objects, objects \cup Held(w)} /\ bucket' \in BOOLEAN /\ (bucket => bucket')
        /\ UNCHANGED <<serverVars, products, tempList, told, walk, guessed, unremoved>> /\ calm' = FALSE
    <2>1. UNCHANGED <<serverVars, products, tempList, told, walk, guessed, unremoved>> /\ calm' = FALSE
      BY DEF StorageFails, clients
    <2>2. CASE StorageEffect(w)
      <3>1. objects' \in {objects, objects \cup Held(w)}
        BY <2>2 DEF StorageEffect, Held, UploadCalls
      <3>2. bucket' \in BOOLEAN /\ (bucket => bucket')
        BY <2>2 DEF StorageEffect, TypeOK
      <3> QED
        BY <2>1, <3>1, <3>2
    <2>3. CASE UNCHANGED <<bucket, objects>>
      BY <2>1, <2>3 DEF TypeOK
    <2> QED
      BY <2>2, <2>3 DEF StorageFails
  <1>3. TypesKept
    <2>1. /\ reply' \in [Workers -> StatusClasses] /\ gone' \subseteq Workers
          /\ UNCHANGED <<serverVars, products, walk, guessed, unremoved>>
      BY FinishMoves DEF StorageFails, StatusClasses, clients
    <2>2. unlisted' \subseteq Images
      <3>1. objects' \subseteq Images
        BY <1>2 DEF TypeOK, Held, HandsSound, RequestSound
      <3> QED
        BY <3>1 DEF StorageFails, TypeOK
    <2> QED
      BY <1>2, <2>1, <2>2 DEF TypesKept, TypeOK, ServerTypeOK, serverVars
  <1>4. pc'[w] = "idle" /\ Held(w)' = {} /\ Carried(w)' = {} /\ Used' = Used
    BY <1>1, <1>2 DEF Moves, TypeOK, Held, Carried, UploadCalls, Used
  <1>5. NamesKept(w)
    BY <1>2, <1>4 DEF NamesKept, Shown, HandsSound, NamesFresh, UploadCalls
  <1>6. RequestSound(w)'
    BY <1>4 DEF RequestSound, UploadCalls
  <1>7. pc[w] \notin {"addTemp", "removeTemp", "addProduct"} /\ Naming(w)' = {}
    BY <1>1 DEF StorageFails, StorageCalls, UploadCalls, Naming, Moves, TypeOK
  <1>8. unlisted' = unlisted \cup ({req[w].name} \cap objects')
    BY DEF StorageFails
  <1>9. ToldKept(w) /\ ExactKept(w)
    BY <1>2, <1>4, <1>7, <1>8 DEF ToldKept, ExactKept, Held
  <1> QED
    BY <1>1, <1>3, <1>5, <1>6, <1>9, MoveSound

\* The request of an upload that turns to its next file.
LEMMA NextRequest ==
  ASSUME NEW r \in Request, r.left > 0, NEW i \in Images
  PROVE  LET next == [r EXCEPT !.name = i, !.left = @ - 1] IN
         next \in Request /\ next.name = i /\ next.images = r.images /\ next.existed = r.existed
  <1>1. r.left \in 0..MaxFiles /\ r.left - 1 \in 0..MaxFiles
    BY CatalogAssumption DEF CatalogAssumption, Request
  <1> QED
    BY <1>1 DEF Request

\* The end of the loop, or its next file: the name in hand is on the list, or the
\* call that lists it was lost.
LEMMA NextFileSound ==
  ASSUME CatalogInv, NEW w \in Workers, pc[w] = "addTemp", NextFile(w, Collected(req[w])),
         tempList' \in {tempList, tempList \cup {req[w].name}},
         unlisted' \in {unlisted, unlisted \cup {req[w].name}},
         req[w].name \in tempList' \cup unlisted',
         UNCHANGED <<serverVars, products, bucket, objects, walk, guessed, unremoved>>
  PROVE  CatalogInv'
  <1> USE DEF CatalogInv
  <1> DEFINE r == Collected(req[w])
  <1>1. /\ req[w] \in Request /\ req[w].name \in Images /\ req[w].name \in objects
        /\ Held(w) = {req[w].name} /\ Carried(w) = req[w].images
    BY DEF TypeOK, HandsSound, NamesFresh, RequestSound, UploadCalls, Held, Carried
  <1>2. r \in Request /\ r.images = Carried(w) \cup Held(w) /\ r.existed = req[w].existed
    BY <1>1 DEF Collected, Request
  <1>3. Used' = Used /\ ServerTypeOK' /\ unlisted' \subseteq Images
    BY <1>1 DEF Used, TypeOK, ServerTypeOK, serverVars
  <1>4. req[w].name \notin told /\ Carried(w) \subseteq Shown /\ Shown \subseteq objects
    BY <1>1 DEF HandsSound, NamesFresh, Shown
  <1>5. req[w].name \notin Used \ guessed
    BY <1>4 DEF NamesTold
  <1>6. ExactKept(w)
    BY <1>3, <1>5 DEF ExactKept
  <1>7. /\ tempList' \subseteq objects' /\ objects' = objects
        /\ told \subseteq told' /\ told' \subseteq told \cup Carried(w) \cup Held(w)
        /\ (bucket => bucket') /\ calm' \in BOOLEAN
    BY <1>1, <1>2, <1>3 DEF NextFile, HandsSound, NamesFresh, TypeOK
  <1>8. CASE \E status \in StatusClasses : Finish(w, status)
    <2>1. Moves(w, "idle", NoRequest) /\ NoRequest \in Request /\ TypesKept
      BY <1>3, <1>7, <1>8, FinishMoves, RequestOfNobody DEF TypesKept, TypeOK
    <2>2. pc'[w] = "idle" /\ Held(w)' = {} /\ Carried(w)' = {} /\ Naming(w)' = {}
      BY <2>1 DEF Moves, TypeOK, Held, Carried, Naming, UploadCalls
    <2>3. NamesKept(w)
      BY <1>1, <1>3, <1>4, <1>7, <2>2 DEF NamesKept, Shown, UploadCalls
    <2>4. RequestSound(w)'
      BY <2>2 DEF RequestSound, UploadCalls
    <2>5. ToldKept(w)
      BY <1>3, <1>7, <2>2 DEF ToldKept
    <2> QED
      BY <1>6, <2>1, <2>3, <2>4, <2>5, MoveSound
  <1>9. ASSUME NEW i \in NewNames, r.left > 0,
               GoOn(w, "bucketExists", [r EXCEPT !.name = i, !.left = @ - 1]), UNCHANGED told
        PROVE  CatalogInv'
    <2> DEFINE next == [r EXCEPT !.name = i, !.left = @ - 1]
    <2>1. i \in Images /\ i \notin objects /\ i # req[w].name
      BY <1>9 DEF NewNames, NamesDrawn
    <2>2. next \in Request /\ next.name = i /\ next.images = r.images /\ next.existed = r.existed
      BY <1>2, <1>9, <2>1, NextRequest
    <2>3. Moves(w, "bucketExists", next) /\ TypesKept
      BY <1>3, <1>7, <1>9, <2>2, GoOnMoves DEF TypesKept, TypeOK, Calls, UploadCalls
    <2>4. /\ pc'[w] = "bucketExists" /\ req'[w] = next
          /\ Held(w)' = {i} /\ Carried(w)' = r.images /\ Naming(w)' = {}
      BY <2>2, <2>3 DEF Moves, TypeOK, Held, Carried, Naming, UploadCalls
    <2>5. NamesKept(w)
      BY <1>1, <1>2, <1>3, <1>4, <1>7, <1>9, <2>1, <2>2, <2>4 DEF NamesKept, Shown, UploadCalls
    <2>6. RequestSound(w)'
      BY <1>2, <2>1, <2>2, <2>4 DEF HandsSound, RequestSound, UploadCalls
    <2>7. ToldKept(w)
      BY <1>3, <1>7, <2>4 DEF ToldKept
    <2> QED
      BY <1>6, <2>2, <2>3, <2>5, <2>6, <2>7, MoveSound DEF Calls, UploadCalls
  <1> QED
    BY <1>8, <1>9 DEF NextFile, StatusClasses

LEMMA ListingSound ==
  ASSUME CatalogInv, NEW w \in Workers, ImageListed(w) \/ ListingFails(w)
  PROVE  CatalogInv'
  <1>1. CASE ImageListed(w)
    BY <1>1, NextFileSound DEF ImageListed
  <1>2. CASE ListingFails(w)
    BY <1>2, NextFileSound DEF ListingFails
  <1> QED
    BY <1>1, <1>2

-----------------------------------------------------------------------------
(* CreateProduct and the reads. *)

\* A step of a goroutine that is in no upload when it is done.
LEMMA OutsideSound ==
  ASSUME CatalogInv, NEW w \in Workers, NEW call \in {"idle", "presign", "removeTemp"}, NEW r \in Request,
         Moves(w, call, r), TypesKept, UNCHANGED <<bucket, objects, told, guessed>>,
         Used \subseteq Used', Used' \subseteq Used \cup Naming(w), tempList' \subseteq tempList,
         call = "removeTemp" => r.images \subseteq Used',
         ExactKept(w)
  PROVE  CatalogInv'
  <1> USE DEF CatalogInv
  <1>1. pc'[w] = call /\ req'[w] = r
    BY DEF Moves, TypeOK
  <1>2. Held(w)' = {} /\ Carried(w)' = {} /\ Naming(w)' = {}
    BY <1>1 DEF Held, Carried, Naming, UploadCalls
  <1>3. Carried(w) \subseteq Shown /\ Shown \cup tempList \subseteq objects
    BY DEF HandsSound, NamesFresh, Shown
  <1>4. NamesKept(w)
    BY <1>1, <1>2, <1>3 DEF NamesKept, Shown, UploadCalls
  <1>5. RequestSound(w)'
    BY <1>1 DEF RequestSound, UploadCalls
  <1>6. ToldKept(w)
    BY <1>2 DEF ToldKept
  <1> QED
    BY <1>4, <1>5, <1>6, MoveSound DEF Calls

LEMMA UrlsSignedSound ==
  ASSUME CatalogInv, NEW w \in Workers, UrlsSigned(w)
  PROVE  CatalogInv'
  BY EndSound DEF UrlsSigned, CatalogInv, TypeOK, StatusClasses, stores, clients, serverVars, ServerTypeOK

LEMMA QueryFailsSound ==
  ASSUME CatalogInv, NEW w \in Workers, QueryFails(w)
  PROVE  CatalogInv'
  BY EndSound, ServerKept DEF QueryFails, CatalogInv, TypeOK, StatusClasses, stores, clients, PostgresCalls

LEMMA InterruptedSound ==
  ASSUME CatalogInv, NEW w \in Workers, Interrupted(w)
  PROVE  CatalogInv'
  <1> USE DEF CatalogInv
  <1>1. Moves(w, "idle", NoRequest) /\ NoRequest \in Request
    BY FinishMoves, RequestOfNobody DEF Interrupted, StatusClasses
  <1>2. products' \in Seq(Product) /\ Used \subseteq Used' /\ Used' \subseteq Used \cup Naming(w)
    BY MayUse DEF Interrupted
  <1>3. /\ UNCHANGED <<bucket, objects, tempList, told, walk, guessed, unlisted, calm>>
        /\ unremoved' = unremoved \cup ToRemove(w) /\ conn = w /\ pc[w] # "addTemp"
    BY DEF Interrupted, clients, Break, PostgresCalls
  <1>4. TypesKept
    BY <1>2, <1>3, FinishMoves, ServerKept DEF Interrupted, TypesKept, TypeOK, StatusClasses, ToRemove, Request
  <1>5. ExactKept(w)
    BY <1>2, <1>3 DEF ExactKept, ToRemove, Naming
  <1> QED
    BY <1>1, <1>2, <1>3, <1>4, <1>5, OutsideSound

LEMMA ProductAddedSound ==
  ASSUME CatalogInv, NEW w \in Workers, ProductAdded(w)
  PROVE  CatalogInv'
  <1> USE DEF CatalogInv
  <1>1. pc[w] = "addProduct" /\ req[w] \in Request
    BY DEF ProductAdded, Answered, TypeOK
  <1>2. Moves(w, "removeTemp", req[w]) /\ reply' \in [Workers -> StatusClasses] /\ gone' \subseteq Workers
    BY <1>1, GoOnMoves DEF ProductAdded, Calls
  <1>3. products' \in Seq(Product) /\ Used' = Used \cup req[w].images
    BY <1>1, InsertUses DEF ProductAdded, Answered
  <1>4. UNCHANGED <<bucket, objects, tempList, told, walk, history>>
    BY DEF ProductAdded, clients
  <1>5. TypesKept
    BY <1>2, <1>3, <1>4, ServerKept DEF ProductAdded, Answered, TypesKept, TypeOK, history
  <1>6. pc'[w] = "removeTemp" /\ req'[w] = req[w]
    BY <1>2 DEF Moves, TypeOK
  <1>7. ExactKept(w)
    BY <1>1, <1>3, <1>4, <1>6 DEF ExactKept, history
  <1> QED
    BY <1>1, <1>2, <1>3, <1>4, <1>5, <1>7, OutsideSound DEF Naming, history

\* A name comes off the list, or should have; the next one is in hand.
LEMMA TakenOffSound ==
  ASSUME CatalogInv, NEW w \in Workers, NEW i \in req[w].images, pc[w] = "removeTemp", TakeOff(w, i),
         tempList' \in {tempList, tempList \ {i}}, unremoved' \in {unremoved, unremoved \cup {i}},
         i \notin tempList' \ unremoved',
         UNCHANGED <<serverVars, products, bucket, objects, clients, guessed, unlisted, calm>>
  PROVE  CatalogInv'
  <1> USE DEF CatalogInv
  <1>1. Used' = Used /\ ServerTypeOK' /\ UNCHANGED <<told, walk>>
    BY DEF Used, TypeOK, ServerTypeOK, serverVars, clients
  <1>2. /\ req[w] \in Request /\ req[w].images \subseteq Used
        /\ unremoved' \subseteq Images
    BY DEF TypeOK, HandsSound, RequestSound, Request
  <1>3. CASE req[w].images = {i} /\ Finish(w, "2xx")
    <2>1. Moves(w, "idle", NoRequest) /\ NoRequest \in Request /\ TypesKept
      BY <1>1, <1>2, <1>3, FinishMoves, RequestOfNobody DEF TypesKept, TypeOK, StatusClasses
    <2>2. ExactKept(w)
      BY <1>1, <1>2, <1>3 DEF ExactKept
    <2> QED
      BY <1>1, <2>1, <2>2, OutsideSound
  <1>4. CASE GoOn(w, "removeTemp", [req[w] EXCEPT !.images = @ \ {i}])
    <2> DEFINE r == [req[w] EXCEPT !.images = @ \ {i}]
    <2>1. r \in Request /\ r.images = req[w].images \ {i}
      BY <1>2 DEF Request
    <2>2. Moves(w, "removeTemp", r) /\ TypesKept
      BY <1>1, <1>2, <1>4, <2>1, GoOnMoves DEF TypesKept, TypeOK, Calls
    <2>3. pc'[w] = "removeTemp" /\ req'[w] = r
      BY <2>2 DEF Moves, TypeOK
    <2>4. ExactKept(w)
      BY <1>1, <1>2, <2>1, <2>3 DEF ExactKept
    <2>5. r.images \subseteq Used'
      BY <1>1, <1>2, <2>1
    <2> QED
      BY <1>1, <2>1, <2>2, <2>4, <2>5, OutsideSound
  <1> QED
    BY <1>3, <1>4 DEF TakeOff

LEMMA NameTakenOffSound ==
  ASSUME CatalogInv, NEW w \in Workers, NEW i \in req[w].images, NameRemoved(w, i) \/ RemovalFails(w, i)
  PROVE  CatalogInv'
  <1>1. CASE NameRemoved(w, i)
    BY <1>1, TakenOffSound DEF NameRemoved, history
  <1>2. CASE RemovalFails(w, i)
    BY <1>2, TakenOffSound DEF RemovalFails
  <1> QED
    BY <1>1, <1>2

LEMMA ImagesReadSound ==
  ASSUME CatalogInv, NEW w \in Workers, ImagesRead(w)
  PROVE  CatalogInv'
  <1> USE DEF CatalogInv
  <1>1. /\ pc[w] = "productImages" /\ ServerTypeOK' /\ Used' = Used
        /\ UNCHANGED <<products, bucket, objects, tempList, told, walk, history>>
    BY ServerKept DEF ImagesRead, Answered, Execute, clients, Used
  <1>2. CASE Finish(w, "5xx")
    BY <1>1, <1>2, EndSound DEF TypeOK, StatusClasses
  <1>3. CASE /\ req[w].id \in 1..Len(products)
             /\ GoOn(w, "presign", [req[w] EXCEPT !.images = products[req[w].id].images])
    <2> DEFINE r == [req[w] EXCEPT !.images = products[req[w].id].images]
    <2>1. products[req[w].id] \in Product
      BY <1>3 DEF TypeOK
    <2>2. r \in Request
      <3>1. req[w] \in Request
        BY DEF TypeOK
      <3>2. products[req[w].id].images \subseteq Images
        BY <2>1 DEF Product
      <3> HIDE DEF CatalogInv
      <3> QED
        BY <3>1, <3>2 DEF Request
    <2>3. Moves(w, "presign", r) /\ TypesKept
      BY <1>1, <1>3, <2>2, GoOnMoves DEF TypesKept, TypeOK, Calls, history
    <2>4. ExactKept(w)
      BY <1>1 DEF ExactKept, history
    <2> QED
      BY <1>1, <2>2, <2>3, <2>4, OutsideSound DEF history
  <1> QED
    BY <1>2, <1>3 DEF ImagesRead

LEMMA PageReadSound ==
  ASSUME CatalogInv, NEW w \in Workers, PageRead(w)
  PROVE  CatalogInv'
  <1> USE DEF CatalogInv
  <1> DEFINE rows == Page(req[w].seller, Int32(req[w].limit), Int32(req[w].offset))
  <1>1. /\ pc[w] = "sellerProducts" /\ ServerTypeOK'
        /\ UNCHANGED <<products, bucket, objects, tempList, told, history>>
    BY ServerKept DEF PageRead, Answered, Execute
  <1>2. Cardinality(rows) \in Nat
    <2>1. IsFiniteSet(1..Len(products))
      BY FS_Interval DEF TypeOK
    <2>2. rows \subseteq 1..Len(products)
      BY DEF Page, ProductsOf
    <2> QED
      BY <2>1, <2>2, FS_Subset, FS_CardinalityType
  <1>3. ASSUME PageReceived(rows)
        PROVE  walk' \in Walk
    <2> HIDE DEF rows
    <2>1. /\ walk.offset \in Nat /\ walk.missing \subseteq Nat
          /\ walk.offset + Cardinality(rows) \in Nat /\ walk.missing \ rows \subseteq Nat
      BY <1>2 DEF TypeOK, Walk
    <2>2. CASE rows = {}
      BY <1>3, <2>2 DEF PageReceived, TypeOK, Walk
    <2>3. CASE rows # {}
      BY <1>3, <2>1, <2>3 DEF PageReceived, TypeOK, Walk
    <2> QED
      BY <2>2, <2>3
  <1>4. walk' \in Walk
    BY <1>3 DEF PageRead, TypeOK
  <1>5. \E status \in StatusClasses : Finish(w, status)
    BY DEF PageRead, StatusClasses
  <1> QED
    BY <1>1, <1>4, <1>5, EndSound DEF TypeOK

-----------------------------------------------------------------------------
(* Requests that arrive, and steps that no request takes part in. *)

LEMMA ArriveSound ==
  ASSUME CatalogInv, NEW w \in Workers, NEW call \in {"bucketExists"} \cup PostgresCalls, NEW r \in Request,
         Arrive(w, call, r),
         call = "bucketExists" => r.name \in NewNames /\ r.images = {} /\ (r.existed => bucket),
         call = "addProduct" => r.seller \in Sellers /\ r.images \ told \subseteq guessed',
         guessed \subseteq guessed', guessed' \subseteq Images
  PROVE  CatalogInv'
  <1> USE DEF CatalogInv
  <1>1. pc[w] = "idle" /\ Moves(w, call, r) /\ pc'[w] = call /\ req'[w] = r
    BY DEF Arrive, Moves, TypeOK
  <1>2. TypesKept
    BY DEF Arrive, TypesKept, TypeOK, ServerTypeOK, serverVars, stores, clients, StatusClasses
  <1>3. UNCHANGED <<products, bucket, objects, tempList, told, unlisted, unremoved, calm>> /\ Used' = Used
    BY DEF Arrive, stores, clients, Used
  <1>4. /\ Held(w)' \subseteq NewNames /\ Carried(w)' = {}
        /\ call = "bucketExists" => Held(w)' = {r.name}
        /\ call # "bucketExists" => Held(w)' = {}
    BY <1>1 DEF Held, Carried, UploadCalls, PostgresCalls
  <1>5. Shown \cup tempList \subseteq objects /\ told \subseteq Shown
    BY DEF HandsSound, NamesFresh, Shown
  <1>6. NewNames \cap objects = {} /\ NewNames \subseteq Images
    BY DEF NewNames, NamesDrawn
  <1>7. pc'[w] \in UploadCalls => call = "bucketExists" /\ req'[w].name \notin objects'
    BY <1>1, <1>3, <1>6 DEF UploadCalls, PostgresCalls
  <1>8. NamesKept(w)
    BY <1>1, <1>3, <1>4, <1>5, <1>6, <1>7 DEF NamesKept
  <1>9. RequestSound(w)'
    BY <1>1, <1>3, <1>6 DEF RequestSound, UploadCalls, PostgresCalls
  <1>10. ToldKept(w) /\ ExactKept(w)
    BY <1>1, <1>3 DEF ToldKept, ExactKept, Naming
  <1> QED
    BY <1>1, <1>2, <1>8, <1>9, <1>10, MoveSound DEF Calls, UploadCalls, PostgresCalls

LEMMA UploadArrives ==
  ASSUME CatalogInv, NEW w \in Workers, NEW n \in 1..MaxFiles, UploadImages(w, n)
  PROVE  CatalogInv'
  <1>1. PICK i \in NewNames :
           Arrive(w, "bucketExists", [NoRequest EXCEPT !.name = i, !.left = n - 1, !.existed = bucket])
    BY DEF UploadImages
  <1> DEFINE r == [NoRequest EXCEPT !.name = i, !.left = n - 1, !.existed = bucket]
  <1>2. n - 1 \in 0..MaxFiles /\ i \in Images /\ bucket \in BOOLEAN
    BY CatalogAssumption DEF CatalogAssumption, NewNames, CatalogInv, TypeOK
  <1>3. r \in Request /\ r.name = i /\ r.images = {} /\ r.existed = bucket
    BY <1>2, CatalogAssumption DEF CatalogAssumption, NoRequest, Request
  <1> QED
    BY <1>1, <1>3, ArriveSound DEF UploadImages, CatalogInv, TypeOK

LEMMA ProductArrives ==
  ASSUME CatalogInv, NEW w \in Workers, NEW s \in Sellers, NEW names \in SUBSET Images,
         CreateProduct(w, s, names)
  PROVE  CatalogInv'
  <1> DEFINE r == [NoRequest EXCEPT !.seller = s, !.images = names]
  <1>1. r \in Request /\ r.seller = s /\ r.images = names
    BY RequestOfNobody DEF NoRequest, Request, CatalogInv, TypeOK
  <1>2. Arrive(w, "addProduct", r)
    BY DEF CreateProduct
  <1> QED
    BY <1>1, <1>2, ArriveSound DEF PostgresCalls, CreateProduct, CatalogInv, TypeOK

LEMMA ReadArrives ==
  ASSUME CatalogInv, NEW w \in Workers,
         ProductsBySellerID(w) \/ \E p \in 1..MaxProducts : GetProductImageUrls(w, p)
  PROVE  CatalogInv'
  <1>1. CASE ProductsBySellerID(w)
    <2> DEFINE r == [NoRequest EXCEPT !.seller = walk.seller, !.limit = walk.limit, !.offset = walk.offset]
    <2>1. r \in Request
      BY RequestOfNobody DEF NoRequest, Request, CatalogInv, TypeOK, Walk
    <2> QED
      BY <1>1, <2>1, ArriveSound DEF ProductsBySellerID, PostgresCalls, CatalogInv, TypeOK
  <1>2. ASSUME NEW p \in 1..MaxProducts, GetProductImageUrls(w, p)
        PROVE  CatalogInv'
    <2>1. p \in Nat
      BY CatalogAssumption DEF CatalogAssumption
    <2>2. [NoRequest EXCEPT !.id = p] \in Request
      BY <2>1, RequestOfNobody DEF NoRequest, Request
    <2> QED
      BY <1>2, <2>2, ArriveSound DEF GetProductImageUrls, PostgresCalls, CatalogInv, TypeOK
  <1> QED
    BY <1>1, <1>2

LEMMA QuietStep ==
  ASSUME CatalogInv,
         \/ UNCHANGED vars \/ ShutdownBegins \/ ConnectionLost \/ ProcessRestart
         \/ \E w \in Workers : Reject(w) \/ ClientLeaves(w) \/ SendQuery(w)
  PROVE  CatalogInv'
  <1> USE DEF CatalogInv, TypeOK, TypesKept, vars, stores, clients, history, goroutines, serverVars
  <1>1. CASE UNCHANGED vars
    BY <1>1, QuietSound DEF ServerTypeOK
  <1>2. CASE ShutdownBegins
    BY <1>2, QuietSound DEF ServerTypeOK, ShutdownBegins, Signal
  <1>3. CASE ConnectionLost
    BY <1>3, QuietSound DEF ServerTypeOK, ConnectionLost, BreakIdle
  <1>4. CASE ProcessRestart
    BY <1>4, QuietSound DEF ServerTypeOK, ProcessRestart, Restart
  <1>5. ASSUME NEW w \in Workers, Reject(w)
        PROVE  CatalogInv'
    BY <1>5, QuietSound DEF ServerTypeOK, Reject, StatusClasses
  <1>6. ASSUME NEW w \in Workers, ClientLeaves(w)
        PROVE  CatalogInv'
    BY <1>6, QuietSound DEF ServerTypeOK, ClientLeaves
  <1>7. ASSUME NEW w \in Workers, SendQuery(w)
        PROVE  CatalogInv'
    BY <1>7, QuietSound, ServerKept DEF SendQuery
  <1> QED
    BY <1>1, <1>2, <1>3, <1>4, <1>5, <1>6, <1>7

LEMMA WalkStarts ==
  ASSUME CatalogInv, NEW s \in Sellers, NEW l \in Limits, StartWalk(s, l)
  PROVE  CatalogInv'
  <1>1. Parsed(l) \in Nat
    BY CatalogAssumption DEF CatalogAssumption, Parsed
  <1>2. ProductsOf(s) \subseteq Nat
    BY DEF ProductsOf, CatalogInv, TypeOK
  <1>3. walk' \in Walk
    BY <1>1, <1>2 DEF StartWalk, Walk
  <1> QED
    BY <1>3, QuietSound DEF StartWalk, CatalogInv, TypeOK, TypesKept, ServerTypeOK, serverVars,
                            stores, history, goroutines

-----------------------------------------------------------------------------
(* The end of the process. *)

LEMMA ProcessEndsSound ==
  ASSUME CatalogInv, ProcessEnds, ServerTypeOK'
  PROVE  CatalogInv'
  <1> USE DEF CatalogInv
  <1>1. /\ UNCHANGED <<bucket, objects, tempList, told, walk, guessed, calm, reply>> /\ gone' = {}
        /\ \A w \in Workers : pc'[w] = "idle" /\ req'[w] = NoRequest
    BY DEF ProcessEnds, clients
  <1>2. /\ products' \in Seq(Product) /\ Used \subseteq Used'
        /\ \A i \in Used' \ Used : conn \in Workers /\ i \in Naming(conn)
    <2>1. CASE conn \in Workers
      BY <2>1, MayUse DEF ProcessEnds
    <2>2. CASE conn \notin Workers
      BY <2>2 DEF ProcessEnds, Used, TypeOK
    <2> QED
      BY <2>1, <2>2
  <1>3. /\ \A w \in Workers : Held(w)' = {} /\ Carried(w)' = {}
        /\ Shown' = told
    BY <1>1 DEF Held, Carried, UploadCalls, Shown
  <1>4. NamesFresh'
    BY <1>1, <1>3 DEF HandsSound, NamesFresh, UploadCalls, Shown
  <1>5. \A w \in Workers : RequestSound(w)'
    BY <1>1 DEF RequestSound, UploadCalls
  <1>6. /\ unlisted' = unlisted \cup {req[w].name : w \in {x \in Workers : pc[x] = "addTemp"}}
        /\ \A w \in Workers : ToRemove(w) \subseteq unremoved'
        /\ unremoved \subseteq unremoved' /\ unlisted' \subseteq Images /\ unremoved' \subseteq Images
    BY DEF ProcessEnds, TypeOK, Request, ToRemove, HandsSound, RequestSound, UploadCalls
  <1>7. TypeOK'
    BY <1>1, <1>2, <1>6, RequestOfNobody DEF TypeOK, ProcessEnds
  <1>8. NamesTold'
    BY <1>1, <1>2 DEF NamesTold, Naming
  <1>9. TempListExact'
    <2>1. ASSUME NEW i \in objects' \ (tempList' \cup Used' \cup unlisted')
          PROVE  FALSE
      BY <2>1, <1>1, <1>2, <1>6 DEF TempListExact
    <2>2. ASSUME NEW i \in (tempList' \cap Used') \ (unremoved' \cup guessed')
          PROVE  FALSE
      BY <2>2, <1>1, <1>2, <1>6 DEF TempListExact, ToRemove, Naming
    <2> QED
      BY <2>1, <2>2 DEF TempListExact
  <1> QED
    BY <1>4, <1>5, <1>7, <1>8, <1>9 DEF HandsSound

LEMMA ProcessStep ==
  ASSUME CatalogInv, ShutdownEnds \/ ShutdownTimesOut \/ ProcessCrash
  PROVE  CatalogInv'
  <1>1. ServerTypeOK' /\ ProcessEnds
    BY DEF ShutdownEnds, ShutdownTimesOut, ProcessCrash, ShutdownDone, ShutdownTimeout, Crash, Exit,
           CatalogInv, TypeOK, ServerTypeOK
  <1> QED
    BY <1>1, ProcessEndsSound

-----------------------------------------------------------------------------
(* The invariant. *)

LEMMA CatalogInit == Init => CatalogInv
  <1> SUFFICES ASSUME Init PROVE CatalogInv
    OBVIOUS
  <1>1. TypeOK
    <2>1. ServerTypeOK
      BY DEF Init, ServerInit, ServerTypeOK
    <2>2. walk \in Walk
      BY DEF Init, Walk
    <2>3. req \in [Workers -> Request]
      BY RequestOfNobody DEF Init
    <2>4. products \in Seq(Product)
      BY DEF Init
    <2> QED
      BY <2>1, <2>2, <2>3, <2>4 DEF Init, TypeOK, StatusClasses
  <1>2. Used = {} /\ \A w \in Workers : Held(w) = {} /\ Carried(w) = {}
    BY DEF Init, Used, Held, Carried, UploadCalls
  <1>3. Shown = {}
    BY <1>2 DEF Init, Shown
  <1>4. NamesFresh
    BY <1>2, <1>3 DEF Init, NamesFresh, UploadCalls
  <1>5. \A w \in Workers : RequestSound(w)
    BY DEF Init, RequestSound, UploadCalls
  <1>6. NamesTold /\ TempListExact
    BY <1>2 DEF Init, NamesTold, TempListExact
  <1> QED
    BY <1>1, <1>4, <1>5, <1>6 DEF CatalogInv, HandsSound

LEMMA CatalogStep == CatalogInv /\ [Next]_vars => CatalogInv'
  <1> SUFFICES ASSUME CatalogInv, [Next]_vars PROVE CatalogInv'
    OBVIOUS
  <1>1. ASSUME NEW w \in Workers, HandlerStep(w)
        PROVE  CatalogInv'
    <2>1. CASE BucketChecked(w) \/ BucketMade(w) \/ ImageStored(w) \/ StorageFails(w)
      BY <2>1, BucketCheckedSound, BucketMadeSound, ImageStoredSound, StorageFailsSound
    <2>2. CASE ImageListed(w) \/ ListingFails(w)
      BY <2>2, ListingSound
    <2>3. CASE UrlsSigned(w) \/ QueryFails(w) \/ Interrupted(w)
      BY <2>3, UrlsSignedSound, QueryFailsSound, InterruptedSound
    <2>4. CASE ProductAdded(w) \/ ImagesRead(w) \/ PageRead(w)
      BY <2>4, ProductAddedSound, ImagesReadSound, PageReadSound
    <2>5. CASE \E i \in req[w].images : NameRemoved(w, i) \/ RemovalFails(w, i)
      BY <2>5, NameTakenOffSound
    <2>6. CASE SendQuery(w)
      BY <2>6, QuietStep
    <2> QED
      BY <1>1, <2>1, <2>2, <2>3, <2>4, <2>5, <2>6 DEF HandlerStep
  <1>2. ASSUME NEW w \in Workers,
               \/ \E n \in 1..MaxFiles : UploadImages(w, n)
               \/ \E s \in Sellers, names \in SUBSET Images : CreateProduct(w, s, names)
        PROVE  CatalogInv'
    BY <1>2, UploadArrives, ProductArrives
  <1>3. ASSUME NEW w \in Workers,
               ProductsBySellerID(w) \/ \E p \in 1..MaxProducts : GetProductImageUrls(w, p)
        PROVE  CatalogInv'
    BY <1>3, ReadArrives
  <1>4. CASE \/ UNCHANGED vars \/ ShutdownBegins \/ ConnectionLost \/ ProcessRestart
             \/ \E w \in Workers : Reject(w) \/ ClientLeaves(w)
    BY <1>4, QuietStep
  <1>5. CASE \E s \in Sellers, l \in Limits : StartWalk(s, l)
    BY <1>5, WalkStarts
  <1>6. CASE ShutdownEnds \/ ShutdownTimesOut \/ ProcessCrash
    BY <1>6, ProcessStep
  <1> QED
    BY <1>1, <1>2, <1>3, <1>4, <1>5, <1>6 DEF Next

\* Every reachable state satisfies the invariant.
THEOREM CatalogIsSound == Spec => []CatalogInv
  BY CatalogInit, CatalogStep, PTL DEF Spec

\* Every variable of the catalog keeps its type: a row has a seller and images,
\* the objects and the listed names are images, a request in hand is one the
\* handlers build.
THEOREM CatalogTypeCorrect == Spec => []TypeOK
  <1>1. CatalogInv => TypeOK
    BY DEF CatalogInv
  <1> QED
    BY <1>1, CatalogIsSound, PTL

\* A name is known outside its upload only when its object is stored, and what a
\* request has found out still holds when it acts, however uploads, products and
\* failures are interleaved.
THEOREM HandsAreSound == Spec => []HandsSound
  <1>1. CatalogInv => HandsSound
    BY DEF CatalogInv
  <1> QED
    BY <1>1, CatalogIsSound, PTL

\* What the temporary list gets wrong is what the failed calls have left, name by
\* name: no failure costs a name its call but the one that hits this call, and no
\* name that was told before it was used comes back.
THEOREM TempListIsExact == Spec => []TempListExact
  <1>1. CatalogInv => TempListExact
    BY DEF CatalogInv
  <1> QED
    BY <1>1, CatalogIsSound, PTL

-----------------------------------------------------------------------------
(* Which uploads fail. *)

\* A step of one goroutine leaves the others where they are.
LEMMA OthersStay ==
  ASSUME CatalogInv, NEW w \in Workers, HandlerStep(w), NEW x \in Workers, x # w
  PROVE  pc'[x] = pc[x]
  <1>1. CASE SendQuery(w)
    BY <1>1 DEF SendQuery, goroutines
  <1>2. ASSUME NEW status, Finish(w, status)
        PROVE  pc'[x] = pc[x]
    BY <1>2 DEF Finish, CatalogInv, TypeOK
  <1>3. ASSUME NEW call, NEW r, GoOn(w, call, r)
        PROVE  pc'[x] = pc[x]
    BY <1>3 DEF GoOn, CatalogInv, TypeOK
  <1> QED
    BY <1>1, <1>2, <1>3
       DEF HandlerStep, BucketChecked, BucketMade, ImageStored, StorageFails, ImageListed, ListingFails,
           NextFile, UrlsSigned, NameRemoved, RemovalFails, TakeOff, QueryFails, Interrupted,
           ProductAdded, ImagesRead, PageRead

\* Unless something around the server fails, an upload ends in a 5xx only where
\* it made a bucket that was there by then, and had not been when it arrived.
LEMMA OwnFailure ==
  ASSUME CatalogInv, NEW w \in Workers, HandlerStep(w),
         pc[w] \in UploadCalls, pc'[w] = "idle", reply[w] = "none", reply'[w] = "5xx", calm'
  PROVE  ~req[w].existed
  <1> USE DEF CatalogInv
  <1>1. CASE pc[w] = "makeBucket"
    BY <1>1 DEF HandsSound, RequestSound
  <1>2. CASE pc[w] # "makeBucket"
    <2>1. ~BucketChecked(w) /\ ~ImageStored(w)
      BY DEF BucketChecked, ImageStored, GoOn, TypeOK
    <2>2. ~StorageFails(w) /\ ~Interrupted(w)
      BY DEF StorageFails, Interrupted, PostgresCalls, UploadCalls
    <2>3. ~ImageListed(w) /\ ~ListingFails(w)
      BY DEF ImageListed, ListingFails, NextFile, GoOn, Finish, TypeOK
    <2>4. /\ ~UrlsSigned(w) /\ ~ProductAdded(w) /\ ~ImagesRead(w) /\ ~PageRead(w)
          /\ ~SendQuery(w) /\ ~QueryFails(w)
          /\ \A i \in req[w].images : ~NameRemoved(w, i) /\ ~RemovalFails(w, i)
      BY DEF UrlsSigned, ProductAdded, ImagesRead, PageRead, Answered, SendQuery, QueryFails,
             NameRemoved, RemovalFails, UploadCalls, PostgresCalls
    <2> QED
      BY <1>2, <2>1, <2>2, <2>3, <2>4 DEF HandlerStep, BucketMade
  <1> QED
    BY <1>1, <1>2

LEMMA FailuresStep ==
  ASSUME CatalogInv, [Next]_vars, NEW w \in Workers,
         pc[w] \in UploadCalls, pc'[w] = "idle", reply[w] = "none", reply'[w] = "5xx", calm'
  PROVE  ~req[w].existed
  <1>1. pc'[w] # pc[w]
    BY DEF UploadCalls
  <1>2. ASSUME NEW x \in Workers, HandlerStep(x)
        PROVE  ~req[w].existed
    BY <1>1, <1>2, OthersStay, OwnFailure
  <1>3. ASSUME NEW x \in Workers, NEW call, NEW r, Arrive(x, call, r)
        PROVE  FALSE
    BY <1>1, <1>3 DEF Arrive, CatalogInv, TypeOK, UploadCalls
  <1>4. /\ ~UNCHANGED vars /\ ~ShutdownBegins /\ ~ConnectionLost /\ ~ProcessRestart
        /\ \A x \in Workers : ~Reject(x) /\ ~ClientLeaves(x)
        /\ \A s \in Sellers, l \in Limits : ~StartWalk(s, l)
    BY <1>1 DEF vars, goroutines, ShutdownBegins, ConnectionLost, ProcessRestart, Reject, ClientLeaves,
                StartWalk
  <1>5. ~ShutdownEnds /\ ~ShutdownTimesOut /\ ~ProcessCrash
    BY DEF ShutdownEnds, ShutdownTimesOut, ProcessCrash, ProcessEnds
  <1> QED
    BY <1>2, <1>3, <1>4, <1>5
       DEF Next, UploadImages, CreateProduct, GetProductImageUrls, ProductsBySellerID

\* Only an upload that found no bucket when it arrived can lose the race to make
\* it; the others never fail while everything around the server works.
THEOREM OnlyFirstUploadsFail == Spec => UploadsFailForFirstBucket
  <1>1. CatalogInv /\ [Next]_vars
           => [\A w \in Workers :
                 /\ pc[w] \in UploadCalls /\ pc'[w] = "idle"
                 /\ reply[w] = "none" /\ reply'[w] = "5xx" /\ calm'
                 => ~req[w].existed]_vars
    BY FailuresStep
  <1> QED
    BY <1>1, CatalogIsSound, PTL DEF Spec, UploadsFailForFirstBucket

-----------------------------------------------------------------------------
(* The life of an image. *)

LEMMA NothingAdvances ==
  ASSUME UNCHANGED <<products, objects, tempList, told>>
  PROVE  UNCHANGED Life!lifeVars
  BY DEF Life!lifeVars, Used

\* An object is stored under the name in hand.
LEMMA StoringAdvances ==
  ASSUME CatalogInv, NEW w \in Workers, pc[w] = "putObject",
         objects' = objects \cup {req[w].name}, UNCHANGED <<products, tempList, told>>
  PROVE  [Life!LifeNext]_Life!lifeVars
  <1>1. req[w].name \in Images /\ req[w].name \notin objects /\ Used' = Used
    BY DEF CatalogInv, HandsSound, NamesFresh, RequestSound, UploadCalls, Used
  <1>2. Life!Store(req[w].name)
    BY <1>1 DEF Life!Store
  <1> QED
    BY <1>1, <1>2 DEF Life!LifeNext

\* A name goes onto the list, perhaps, and perhaps the upload ends.
LEMMA ListingAdvances ==
  ASSUME CatalogInv, NEW w \in Workers, pc[w] = "addTemp", NextFile(w, Collected(req[w])),
         tempList' \in {tempList, tempList \cup {req[w].name}}, UNCHANGED <<products, objects>>
  PROVE  [Life!LifeNext]_Life!lifeVars
  <1> DEFINE i == req[w].name
             S == told' \ told
  <1>1. i \in Images /\ i \in objects \ told /\ Used' = Used
    BY DEF CatalogInv, HandsSound, NamesFresh, RequestSound, UploadCalls, Held, Shown, Used
  <1>2. told' = told \cup S /\ S \subseteq Carried(w) \cup {i}
    <2>1. Collected(req[w]).images = Carried(w) \cup {i}
      BY DEF Collected, Carried, UploadCalls, CatalogInv, TypeOK, Request
    <2> QED
      BY <2>1 DEF NextFile
  <1>3. S \subseteq objects /\ S \subseteq Images
    BY <1>1, <1>2 DEF CatalogInv, TypeOK, HandsSound, NamesFresh, Shown
  <1>4. Life!List(i, S)
    BY <1>1, <1>2, <1>3 DEF Life!List
  <1> QED
    BY <1>1, <1>3, <1>4 DEF Life!LifeNext

\* An insert that was cut off was executed or not.
LEMMA MayUseAdvances ==
  ASSUME CatalogInv, NEW w \in Workers, MayExecute(w), UNCHANGED <<objects, tempList, told>>
  PROVE  [Life!LifeNext]_Life!lifeVars
  <1>1. CASE pc[w] = "addProduct" /\ Execute(w)
    <2>1. Used' = Used \cup req[w].images /\ req[w].images \in SUBSET Images
      BY <1>1, InsertUses DEF CatalogInv, TypeOK, Request
    <2>2. Life!Use(req[w].images)
      BY <2>1 DEF Life!Use
    <2> QED
      BY <2>1, <2>2 DEF Life!LifeNext
  <1>2. CASE pc[w] # "addProduct" \/ ~Execute(w)
    BY <1>2, ReadsUseNothing DEF Life!lifeVars
  <1> QED
    BY <1>1, <1>2

\* A name comes off the list, perhaps.
LEMMA TakingOffAdvances ==
  ASSUME CatalogInv, NEW w \in Workers, NEW i \in req[w].images, pc[w] = "removeTemp",
         tempList' \in {tempList, tempList \ {i}}, UNCHANGED <<products, objects, told>>
  PROVE  [Life!LifeNext]_Life!lifeVars
  <1>1. i \in Used /\ i \in Images /\ Used' = Used
    BY DEF CatalogInv, TypeOK, Request, HandsSound, RequestSound, Used
  <1>2. CASE tempList' = tempList
    BY <1>2, NothingAdvances
  <1>3. CASE tempList' = tempList \ {i}
    <2>1. Life!TakeOff(i)
      BY <1>1, <1>3 DEF Life!TakeOff
    <2> QED
      BY <1>1, <2>1 DEF Life!LifeNext
  <1> QED
    BY <1>2, <1>3

LEMMA HandlerStepAdvances ==
  ASSUME CatalogInv, NEW w \in Workers, HandlerStep(w)
  PROVE  [Life!LifeNext]_Life!lifeVars
  <1>1. CASE UNCHANGED <<products, objects, tempList, told>>
    BY <1>1, NothingAdvances
  <1>2. CASE ImageStored(w)
    BY <1>2, StoringAdvances DEF ImageStored, clients
  <1>3. CASE StorageFails(w)
    BY <1>1, <1>3, StoringAdvances DEF StorageFails, StorageEffect, clients
  <1>4. CASE ImageListed(w) \/ ListingFails(w)
    BY <1>4, ListingAdvances DEF ImageListed, ListingFails
  <1>5. ASSUME NEW i \in req[w].images, NameRemoved(w, i) \/ RemovalFails(w, i)
        PROVE  [Life!LifeNext]_Life!lifeVars
    BY <1>5, TakingOffAdvances DEF NameRemoved, RemovalFails, clients
  <1>6. CASE Interrupted(w) \/ ProductAdded(w) \/ ImagesRead(w) \/ PageRead(w)
    BY <1>6, MayUseAdvances
       DEF Interrupted, ProductAdded, ImagesRead, PageRead, Answered, MayExecute, clients
  <1>7. CASE BucketChecked(w) \/ BucketMade(w) \/ UrlsSigned(w) \/ SendQuery(w) \/ QueryFails(w)
    BY <1>1, <1>7 DEF BucketChecked, BucketMade, UrlsSigned, SendQuery, QueryFails, stores, clients
  <1> QED
    BY <1>2, <1>3, <1>4, <1>5, <1>6, <1>7 DEF HandlerStep

LEMMA StepAdvances ==
  ASSUME CatalogInv, [Next]_vars
  PROVE  [Life!LifeNext]_Life!lifeVars
  <1>1. ASSUME NEW w \in Workers, HandlerStep(w)
        PROVE  [Life!LifeNext]_Life!lifeVars
    BY <1>1, HandlerStepAdvances
  <1>2. CASE UNCHANGED <<products, objects, tempList, told>>
    BY <1>2, NothingAdvances
  <1>3. CASE ShutdownEnds \/ ShutdownTimesOut \/ ProcessCrash
    <2>1. ProcessEnds
      BY <1>3 DEF ShutdownEnds, ShutdownTimesOut, ProcessCrash
    <2>2. CASE conn \in Workers
      BY <2>1, <2>2, MayUseAdvances DEF ProcessEnds, clients
    <2>3. CASE conn \notin Workers
      BY <1>2, <2>1, <2>3 DEF ProcessEnds, clients
    <2> QED
      BY <2>2, <2>3
  <1>4. ASSUME NEW w \in Workers, NEW call, NEW r, Arrive(w, call, r)
        PROVE  [Life!LifeNext]_Life!lifeVars
    BY <1>2, <1>4 DEF Arrive, stores, clients
  <1>5. CASE \/ UNCHANGED vars \/ ShutdownBegins \/ ConnectionLost \/ ProcessRestart
             \/ \E w \in Workers : Reject(w) \/ ClientLeaves(w)
             \/ \E s \in Sellers, l \in Limits : StartWalk(s, l)
    BY <1>2, <1>5 DEF vars, stores, clients, ShutdownBegins, ConnectionLost, ProcessRestart, Reject,
                      ClientLeaves, StartWalk
  <1> QED
    BY <1>1, <1>3, <1>4, <1>5
       DEF Next, UploadImages, CreateProduct, GetProductImageUrls, ProductsBySellerID

LEMMA LifeBegins == Init => Life!LifeInit
  BY DEF Init, Life!LifeInit, Used

\* Whatever fails and whatever names clients use, a file is stored before its name
\* is listed or told, a told name is not listed any more, and a name comes off the
\* list only because a product uses it: the catalog implements ImageLife.
THEOREM LifeIsImplemented == Spec => ImplementsImageLife
  <1>1. CatalogInv /\ [Next]_vars => [Life!LifeNext]_Life!lifeVars
    BY StepAdvances
  <1> QED
    BY <1>1, LifeBegins, CatalogIsSound, PTL DEF Spec, ImplementsImageLife, Life!LifeSpec
=============================================================================
