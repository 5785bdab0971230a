------------------------------- MODULE Catalog -------------------------------
(***************************************************************************)
(* The seller's side: UploadImages, CreateProduct with the names of        *)
(* uploaded images, GetProductImageUrls and ProductsBySellerID.            *)
(*                                                                         *)
(* Three stores with nothing in common: Postgres, over the one connection  *)
(* of module Server; MinIO, called with a context of its own; and the list *)
(* of temporary image names in Redis, called with the context of the       *)
(* request, its errors dropped.  A step of the model is one call to one of *)
(* them with the Go code up to the next call.  A call cut off by the end   *)
(* of the process was executed or not: the step and the end of the         *)
(* process, or the end of the process alone.                               *)
(*                                                                         *)
(* Bids and prices are in Auction, who the caller is in EAuc.              *)
(***************************************************************************)
EXTENDS Server, Sequences, FiniteSetsExt

CONSTANTS
    Sellers,
    Images,        \* object names; uuid.New never draws one twice
    None,          \* no image, no parameter
    MaxFiles,      \* the most files in one upload
    MaxProducts,   \* bound: the products created, those on their way included
    Limits,        \* what clients give for the parameter limit
    DefaultLimit,  \* the limit of a request without one: 10
    Half           \* 2^31: int32 has the values -Half .. Half - 1

ASSUME CatalogAssumption ==
    /\ None \notin Images \cup Nat
    /\ IsFiniteSet(Images)
    /\ MaxFiles \in Nat \ {0} /\ MaxProducts \in Nat
    /\ Limits \subseteq Nat \cup {None}
    /\ Half \in Nat \ {0} /\ DefaultLimit \in 0..(Half - 1)

VARIABLES
    products,  \* the rows of products in the order of created_at; a position is an id
    bucket,    \* does the bucket product-images exist?
    objects,   \* the objects in it
    tempList,  \* the Redis list temp_image_names
    told,      \* names that an upload has told its client
    guessed,   \* (kept for the properties, as the next three are) names that were
               \* used before an upload told them
    unlisted,  \* names of objects that were not listed: the call failed or was lost
    unremoved, \* names whose removal from the list failed or was lost
    calm,      \* has no call to MinIO and no reading of a file failed yet?
    walk,      \* a client that reads a seller's products page by page
    pc,        \* the call each goroutine is at
    req,       \* the request it works on
    reply,     \* the class of the status of its last response
    gone       \* handlers whose client has gone away: their context is cancelled

stores == <<products, bucket, objects, tempList>>
clients == <<told, walk>>
history == <<guessed, unlisted, unremoved, calm>>
goroutines == <<pc, req, reply, gone>>
vars == <<serverVars, stores, clients, history, goroutines>>

PostgresCalls == {"addProduct", "productImages", "sellerProducts"}
UploadCalls == {"bucketExists", "makeBucket", "putObject", "addTemp"}
StorageCalls == (UploadCalls \ {"addTemp"}) \cup {"presign"}
Calls == PostgresCalls \cup UploadCalls \cup {"presign", "removeTemp"}

Product == [seller : Sellers, images : SUBSET Images]
Request ==
    [images : SUBSET Images,        \* uploaded so far, or of the product
     name : Images \cup {None},     \* the object in hand
     left : 0..MaxFiles,            \* files after it
     existed : BOOLEAN,             \* was there a bucket when the upload arrived?
     id : Nat,                      \* the product asked for
     seller : Sellers \cup {None},
     limit : Nat, offset : Nat]
NoRequest ==
    [images |-> {}, name |-> None, left |-> 0, existed |-> FALSE, id |-> 0,
     seller |-> None, limit |-> 0, offset |-> 0]
Walk ==
    [seller : Sellers, limit : Nat, offset : Nat,
     missing : SUBSET Nat,          \* listed when it began, and not yet seen
     over : BOOLEAN]
StatusClasses == {"none", "2xx", "4xx", "5xx"}

Handlers == {w \in Workers : pc[w] # "idle"}
Uploads == {w \in Workers : pc[w] \in UploadCalls}
Used == UNION {products[i].images : i \in 1..Len(products)}

TypeOK ==
    /\ ServerTypeOK
    /\ products \in Seq(Product)
    /\ bucket \in BOOLEAN
    /\ objects \subseteq Images
    /\ tempList \subseteq Images
    /\ told \subseteq Images
    /\ guessed \subseteq Images /\ unlisted \subseteq Images /\ unremoved \subseteq Images
    /\ calm \in BOOLEAN
    /\ walk \in Walk
    /\ pc \in [Workers -> Calls \cup {"idle"}]
    /\ req \in [Workers -> Request]
    /\ reply \in [Workers -> StatusClasses]
    /\ gone \subseteq Workers

Init ==
    /\ ServerInit
    /\ products = << >>
    /\ bucket = FALSE
    /\ objects = {} /\ tempList = {} /\ told = {}
    /\ guessed = {} /\ unlisted = {} /\ unremoved = {}
    /\ calm = TRUE
    /\ \E s \in Sellers :
          walk = [seller |-> s, limit |-> 0, offset |-> 0, missing |-> {}, over |-> TRUE]
    /\ pc = [w \in Workers |-> "idle"]
    /\ req = [w \in Workers |-> NoRequest]
    /\ reply = [w \in Workers |-> "none"]
    /\ gone = {}

-----------------------------------------------------------------------------
(* Goroutines. *)

GoOn(w, call, r) ==
    /\ pc' = [pc EXCEPT ![w] = call]
    /\ req' = [req EXCEPT ![w] = r]
    /\ UNCHANGED <<reply, gone>>

Finish(w, status) ==
    /\ pc' = [pc EXCEPT ![w] = "idle"]
    /\ req' = [req EXCEPT ![w] = NoRequest]
    /\ reply' = [reply EXCEPT ![w] = status]
    /\ gone' = gone \ {w}

\* A request arrives and its handler runs up to its first call.
Arrive(w, call, r) ==
    /\ Admits(Handlers)
    /\ pc[w] = "idle"
    /\ pc' = [pc EXCEPT ![w] = call]
    /\ req' = [req EXCEPT ![w] = r]
    /\ reply' = [reply EXCEPT ![w] = "none"]
    /\ UNCHANGED <<serverVars, stores, clients, unlisted, unremoved, calm, gone>>

\* No claims, a malformed body or id, no files, or a first file that is too
\* large or no image: answered before any call.
Reject(w) ==
    /\ Admits(Handlers)
    /\ pc[w] = "idle"
    /\ \E status \in {"4xx", "5xx"} : reply' = [reply EXCEPT ![w] = status]
    /\ UNCHANGED <<serverVars, stores, clients, history, pc, req, gone>>

-----------------------------------------------------------------------------
(* UploadImages. *)

NamesDrawn == objects \cup {req[w].name : w \in Workers}

\* Mutant of NewNames: a name that is not stored yet is taken for a new one.
NewNamesNotStored == Images \ objects

NewNames == Images \ NamesDrawn

FilesToCome == MapThenSumSet(LAMBDA w : req[w].left, Uploads)

\* An upload of n files.
UploadImages(w, n) ==
    /\ Cardinality(NamesDrawn \ {None}) + FilesToCome + n <= Cardinality(Images)
    /\ \E i \in NewNames :
          Arrive(w, "bucketExists",
                 [NoRequest EXCEPT !.name = i, !.left = n - 1, !.existed = bucket])
    /\ UNCHANGED guessed

\* The loop goes to its next file, or ends: the files are looked at one by one,
\* and one that is too large or no image, or cannot be read, ends the request.
NextFile(w, r) ==
    \/ /\ r.left = 0
       /\ Finish(w, "2xx")
       /\ told' = IF w \in gone THEN told ELSE told \cup r.images
       /\ UNCHANGED calm
    \/ /\ r.left > 0
       /\ \E i \in NewNames : GoOn(w, "bucketExists", [r EXCEPT !.name = i, !.left = @ - 1])
       /\ UNCHANGED <<calm, told>>
    \/ /\ r.left > 0
       /\ Finish(w, "4xx")
       /\ UNCHANGED <<calm, told>>
    \/ /\ r.left > 0 /\ "storage" \in Events
       /\ Finish(w, "5xx")
       /\ calm' = FALSE /\ UNCHANGED told

\* Mutant of BucketChecked: the bucket is made without asking.
BucketCheckedAlways(w) ==
    /\ pc[w] = "bucketExists"
    /\ GoOn(w, "makeBucket", req[w])
    /\ UNCHANGED <<serverVars, stores, clients, history>>

\* SaveImage, lines 50 to 56.
BucketChecked(w) ==
    /\ pc[w] = "bucketExists"
    /\ GoOn(w, IF bucket THEN "putObject" ELSE "makeBucket", req[w])
    /\ UNCHANGED <<serverVars, stores, clients, history>>

\* Lines 56 to 61: MinIO refuses to make a bucket a second time.
BucketMade(w) ==
    /\ pc[w] = "makeBucket"
    /\ bucket' = TRUE
    /\ IF bucket THEN Finish(w, "5xx") ELSE GoOn(w, "putObject", req[w])
    /\ UNCHANGED <<serverVars, products, objects, tempList, clients, history>>

\* Lines 66 to 73.
ImageStored(w) ==
    /\ pc[w] = "putObject"
    /\ objects' = objects \cup {req[w].name}
    /\ GoOn(w, "addTemp", req[w])
    /\ UNCHANGED <<serverVars, products, bucket, tempList, clients, history>>

\* What MinIO does with the call of goroutine w.
StorageEffect(w) ==
    /\ bucket' = (bucket \/ pc[w] = "makeBucket")
    /\ objects' = IF pc[w] = "putObject" THEN objects \cup {req[w].name} ELSE objects

\* A call to MinIO fails, executed or not.  It has no deadline and is never
\* cancelled: SaveImage and GetFileUrl use a background context.
StorageFails(w) ==
    /\ "storage" \in Events
    /\ pc[w] \in StorageCalls
    /\ StorageEffect(w) \/ UNCHANGED <<bucket, objects>>
    /\ Finish(w, "5xx")
    /\ unlisted' = unlisted \cup ({req[w].name} \cap objects')
    /\ calm' = FALSE
    /\ UNCHANGED <<serverVars, products, tempList, clients, guessed, unremoved>>

\* The name in hand is done with: it goes into the answer.
Collected(r) == [r EXCEPT !.images = @ \cup {r.name}, !.name = None]

\* Mutant of ImageListed: the name that is listed is that of no image.
ImageListedUnnamed(w) ==
    /\ pc[w] = "addTemp"
    /\ w \notin gone
    /\ tempList' = tempList \cup {Collected(req[w]).name}
    /\ NextFile(w, Collected(req[w]))
    /\ UNCHANGED <<serverVars, products, bucket, objects, walk, guessed, unlisted, unremoved>>

\* Mutant of ImageListed: the names are listed together after the last file.
ImageListedAtEnd(w) ==
    /\ pc[w] = "addTemp"
    /\ w \notin gone
    /\ tempList' = IF req[w].left = 0 THEN tempList \cup Collected(req[w]).images ELSE tempList
    /\ NextFile(w, Collected(req[w]))
    /\ UNCHANGED <<serverVars, products, bucket, objects, walk, guessed, unlisted, unremoved>>

ImageListed(w) ==
    /\ pc[w] = "addTemp"
    /\ w \notin gone
    /\ tempList' = tempList \cup {req[w].name}
    /\ NextFile(w, Collected(req[w]))
    /\ UNCHANGED <<serverVars, products, bucket, objects, walk, guessed, unlisted, unremoved>>

\* Redis fails, or the client has gone away: the handler does not notice.
CacheFails(w) == "cache" \in Events \/ w \in gone

ListingFails(w) ==
    /\ pc[w] = "addTemp"
    /\ CacheFails(w)
    /\ tempList' \in {tempList, tempList \cup {req[w].name}}
    /\ unlisted' = unlisted \cup {req[w].name}
    /\ NextFile(w, Collected(req[w]))
    /\ UNCHANGED <<serverVars, products, bucket, objects, walk, guessed, unremoved>>

-----------------------------------------------------------------------------
(* CreateProduct and GetProductImageUrls. *)

\* The names are any strings, one to five of them: whether they were uploaded is
\* not looked at.  They may be those of other products, of no object, or of an
\* object that is still being uploaded.
CreateProduct(w, s, names) ==
    /\ names # {} /\ Cardinality(names) <= 5
    /\ Len(products) + Cardinality({x \in Workers : pc[x] = "addProduct"}) < MaxProducts
    /\ Arrive(w, "addProduct", [NoRequest EXCEPT !.seller = s, !.images = names])
    /\ guessed' = guessed \cup (names \ told)

AddProduct(r) == products' = Append(products, [seller |-> r.seller, images |-> r.images])

\* The handler takes the names off the list one by one, then answers.
TakeOff(w, i) ==
    IF req[w].images = {i}
    THEN Finish(w, "2xx")
    ELSE GoOn(w, "removeTemp", [req[w] EXCEPT !.images = @ \ {i}])

NameRemoved(w, i) ==
    /\ pc[w] = "removeTemp" /\ i \in req[w].images
    /\ w \notin gone
    /\ tempList' = tempList \ {i}
    /\ TakeOff(w, i)
    /\ UNCHANGED <<serverVars, products, bucket, objects, clients, history>>

\* Mutant of RemovalFails: the handler answers at the first name that fails.
RemovalFailsReturning(w, i) ==
    /\ pc[w] = "removeTemp" /\ i \in req[w].images
    /\ CacheFails(w)
    /\ tempList' \in {tempList, tempList \ {i}}
    /\ unremoved' = unremoved \cup {i}
    /\ Finish(w, "2xx")
    /\ UNCHANGED <<serverVars, products, bucket, objects, clients, guessed, unlisted, calm>>

RemovalFails(w, i) ==
    /\ pc[w] = "removeTemp" /\ i \in req[w].images
    /\ CacheFails(w)
    /\ tempList' \in {tempList, tempList \ {i}}
    /\ unremoved' = unremoved \cup {i}
    /\ TakeOff(w, i)
    /\ UNCHANGED <<serverVars, products, bucket, objects, clients, guessed, unlisted, calm>>

GetProductImageUrls(w, p) ==
    /\ Arrive(w, "productImages", [NoRequest EXCEPT !.id = p])
    /\ UNCHANGED guessed

\* An url is signed for each name, whether there is such an object or not.  The
\* client library asks MinIO where the bucket is.
UrlsSigned(w) ==
    /\ pc[w] = "presign"
    /\ Finish(w, IF bucket THEN "2xx" ELSE "5xx")
    /\ UNCHANGED <<serverVars, stores, clients, history>>

-----------------------------------------------------------------------------
(* ProductsBySellerID. *)

\* fmt.Sscanf leaves the default where it cannot read a number.
Parsed(param) == IF param = None THEN DefaultLimit ELSE param

\* The conversion of a uint to int32.
Int32(n) == LET m == n % (2 * Half) IN IF m < Half THEN m ELSE m - 2 * Half

\* How many products of its seller are newer than product i.
Newer(i) == Cardinality({j \in (i + 1)..Len(products) : products[j].seller = products[i].seller})

ProductsOf(s) == {i \in 1..Len(products) : products[i].seller = s}

\* Mutant of Page: the first row after the offset is left out.
PageFromNext(s, limit, offset) ==
    {i \in ProductsOf(s) : offset < Newer(i) /\ Newer(i) <= offset + limit}

\* The rows of GetProductsBySellerID: ORDER BY created_at DESC LIMIT OFFSET.
Page(s, limit, offset) ==
    {i \in ProductsOf(s) : offset <= Newer(i) /\ Newer(i) < offset + limit}

\* A client starts to read the products of seller s, with one limit throughout.
StartWalk(s, limit) ==
    /\ walk.over
    /\ walk' = [seller |-> s, limit |-> Parsed(limit), offset |-> 0,
                missing |-> ProductsOf(s), over |-> FALSE]
    /\ UNCHANGED <<serverVars, stores, told, history, goroutines>>

\* It asks for the next page, again if it got none.
ProductsBySellerID(w) ==
    /\ ~walk.over
    /\ \A x \in Workers : pc[x] # "sellerProducts"
    /\ Arrive(w, "sellerProducts",
              [NoRequest EXCEPT !.seller = walk.seller, !.limit = walk.limit, !.offset = walk.offset])
    /\ UNCHANGED guessed

\* The client skips what it has got, until a page is empty.
PageReceived(rows) ==
    walk' = IF rows = {}
            THEN [walk EXCEPT !.offset = 0, !.over = TRUE]
            ELSE [walk EXCEPT !.offset = @ + Cardinality(rows), !.missing = @ \ rows]

-----------------------------------------------------------------------------
(* Queries. *)

\* What Postgres does with the statement goroutine w has in flight.
Execute(w) == IF pc[w] = "addProduct" THEN AddProduct(req[w]) ELSE UNCHANGED products

MayExecute(w) == Execute(w) \/ UNCHANGED products

SendQuery(w) ==
    /\ pc[w] \in PostgresCalls /\ w \notin gone
    /\ Acquire(w)
    /\ UNCHANGED <<stores, clients, history, goroutines>>

\* Mutant of QueryFails: CreateProduct drops the error of the insert.
QueryFailsUnnoticed(w) ==
    /\ pc[w] \in PostgresCalls
    /\ Refused(w) \/ (w \in gone /\ CancelledBefore(w)) \/ Errs(w)
    /\ IF pc[w] = "addProduct" THEN GoOn(w, "removeTemp", req[w]) ELSE Finish(w, "5xx")
    /\ UNCHANGED <<stores, clients, history>>

\* The query is refused, or its context is cancelled before it is sent, or Postgres
\* answers with an error.
QueryFails(w) ==
    /\ pc[w] \in PostgresCalls
    /\ Refused(w) \/ (w \in gone /\ CancelledBefore(w)) \/ Errs(w)
    /\ Finish(w, "5xx")
    /\ UNCHANGED <<stores, clients, history>>

\* The names that CreateProduct is to take off the list and has not: those of an
\* insert in flight, which may be executed though the handler does not go on, and
\* those it is at.
ToRemove(w) == IF pc[w] = "removeTemp" \/ (pc[w] = "addProduct" /\ conn = w) THEN req[w].images ELSE {}

Interrupted(w) ==
    /\ pc[w] \in PostgresCalls
    /\ Break(w, w \in gone)
    /\ MayExecute(w)
    /\ Finish(w, "5xx")
    /\ unremoved' = unremoved \cup ToRemove(w)
    /\ UNCHANGED <<bucket, objects, tempList, clients, guessed, unlisted, calm>>

Answered(w, call) == pc[w] = call /\ Release(w) /\ Execute(w)

ProductAdded(w) ==
    /\ Answered(w, "addProduct")
    /\ GoOn(w, "removeTemp", req[w])
    /\ UNCHANGED <<bucket, objects, tempList, clients, history>>

\* A product that does not exist is an error like any other.
ImagesRead(w) ==
    /\ Answered(w, "productImages")
    /\ IF req[w].id \in 1..Len(products)
       THEN GoOn(w, "presign", [req[w] EXCEPT !.images = products[req[w].id].images])
       ELSE Finish(w, "5xx")
    /\ UNCHANGED <<bucket, objects, tempList, clients, history>>

\* Postgres refuses a negative LIMIT or OFFSET.
PageRead(w) ==
    LET r == req[w]
        limit == Int32(r.limit)
        offset == Int32(r.offset)
    IN
    /\ Answered(w, "sellerProducts")
    /\ \/ /\ limit < 0 \/ offset < 0
          /\ Finish(w, "5xx") /\ UNCHANGED walk
       \/ /\ limit >= 0 /\ offset >= 0
          /\ Finish(w, "2xx")
          /\ IF w \in gone THEN UNCHANGED walk ELSE PageReceived(Page(r.seller, limit, offset))
    /\ UNCHANGED <<bucket, objects, tempList, told, history>>

-----------------------------------------------------------------------------
(* The environment and the process. *)

ClientLeaves(w) ==
    /\ "disconnect" \in Events
    /\ pc[w] # "idle" /\ w \notin gone
    /\ gone' = gone \cup {w}
    /\ UNCHANGED <<serverVars, stores, clients, history, pc, req, reply>>

ShutdownBegins == Signal /\ UNCHANGED <<stores, clients, history, goroutines>>

ConnectionLost == BreakIdle /\ UNCHANGED <<stores, clients, history, goroutines>>

ProcessEnds ==
    /\ conn \in Workers => MayExecute(conn)
    /\ conn \notin Workers => UNCHANGED products
    /\ pc' = [w \in Workers |-> "idle"]
    /\ req' = [w \in Workers |-> NoRequest]
    /\ gone' = {}
    /\ unlisted' = unlisted \cup {req[w].name : w \in {x \in Workers : pc[x] = "addTemp"}}
    /\ unremoved' = unremoved \cup UNION {ToRemove(w) : w \in Workers}
    /\ UNCHANGED <<bucket, objects, tempList, clients, guessed, calm, reply>>

ShutdownEnds == ShutdownDone(Handlers) /\ ProcessEnds

ShutdownTimesOut == ShutdownTimeout(Handlers) /\ ProcessEnds

ProcessCrash == Crash /\ ProcessEnds

ProcessRestart == Restart /\ UNCHANGED <<stores, clients, history, goroutines>>

-----------------------------------------------------------------------------
HandlerStep(w) ==
    \/ BucketChecked(w)
    \/ BucketMade(w)
    \/ ImageStored(w)
    \/ StorageFails(w)
    \/ ImageListed(w)
    \/ ListingFails(w)
    \/ UrlsSigned(w)
    \/ \E i \in req[w].images : NameRemoved(w, i) \/ RemovalFails(w, i)
    \/ SendQuery(w)
    \/ QueryFails(w)
    \/ Interrupted(w)
    \/ ProductAdded(w)
    \/ ImagesRead(w)
    \/ PageRead(w)

Next ==
    \/ \E w \in Workers : HandlerStep(w) \/ Reject(w) \/ ClientLeaves(w) \/ ProductsBySellerID(w)
    \/ \E w \in Workers, n \in 1..MaxFiles : UploadImages(w, n)
    \/ \E w \in Workers, s \in Sellers, names \in SUBSET Images : CreateProduct(w, s, names)
    \/ \E w \in Workers, p \in 1..MaxProducts : GetProductImageUrls(w, p)
    \/ \E s \in Sellers, l \in Limits : StartWalk(s, l)
    \/ ShutdownBegins
    \/ ConnectionLost
    \/ ShutdownEnds
    \/ ShutdownTimesOut
    \/ ProcessCrash
    \/ ProcessRestart

Spec == Init /\ [][Next]_vars

-----------------------------------------------------------------------------
(* Properties. *)

Life == INSTANCE ImageLife WITH stored <- objects, temporary <- tempList, used <- Used

\* Whatever fails, files come first and the list follows the products: no name is
\* listed or told before its file is stored, none is listed once it has been told,
\* and none comes off the list but for a product that is in the table
\* (handlers/products.go:90-108, 176-195).
ImplementsImageLife == Life!LifeSpec

\* What the temporary list gets wrong is what each failed call leaves, name by
\* name: an object that is neither on it nor used is about to be listed or the call
\* that lists it was lost, also when its upload was answered with an error; and a
\* used name that is still on it is about to be taken off or the call that takes it
\* off was lost.  No failure costs another name its call, and no name comes back
\* once it is off ("remove images from temp list after product creation",
\* handlers/products.go:105).  A client that uses a name before it is told is on
\* its own: the name may be listed after its removal.
TempListExact ==
    /\ \A i \in objects \ (tempList \cup Used \cup unlisted) :
          \E w \in Workers : pc[w] = "addTemp" /\ req[w].name = i
    /\ \A i \in (tempList \cap Used) \ (unremoved \cup guessed) :
          \E w \in Workers : pc[w] = "removeTemp" /\ i \in req[w].images

\* Two first uploads may race for the bucket, and one of them fails; an upload
\* that arrives when the bucket is there never does before a call to MinIO or the
\* reading of a file fails (storage.go:50-61).
UploadsFailForFirstBucket ==
    [][\A w \in Workers :
          /\ pc[w] \in UploadCalls /\ pc'[w] = "idle"
          /\ reply[w] = "none" /\ reply'[w] = "5xx" /\ calm'
          => ~req[w].existed]_vars

\* A client that reads page after page, skipping what it has got, until a page is
\* empty, has seen every product that was listed when it began: products listed
\* meanwhile move the rows only towards it.  A limit that wraps around to a
\* small one costs it pages, one that wraps around to nothing costs it the rest
\* (service/products.go:160-164).
WalkSeesAll == walk.over /\ Int32(walk.limit) # 0 => walk.missing = {}
=============================================================================
