--------------------------- MODULE CatalogInvariant ---------------------------
(***************************************************************************)
(* The inductive invariant from which the properties of Catalog follow.    *)
(* TLC checks it on the small instance, CatalogProofs proves it.           *)
(***************************************************************************)
EXTENDS Catalog

\* The name of the image an upload is working on.
Held(w) == IF pc[w] \in UploadCalls THEN {req[w].name} ELSE {}

\* The names an upload carries to its answer.
Carried(w) == IF pc[w] \in UploadCalls THEN req[w].images ELSE {}

Shown == told \cup UNION {Carried(w) : w \in Workers}

\* Each upload works on a name of its own, which nobody has been told or is about
\* to be told and which is stored once it is about to be listed; names that are
\* told are stored.
NamesFresh ==
    /\ Shown \cup tempList \subseteq objects
    /\ LET shown == Shown IN \A w \in Workers : Held(w) \cap shown = {}
    /\ \A w, x \in Workers : w # x => Held(w) \cap Held(x) = {}
    /\ \A w \in Workers : pc[w] \in UploadCalls => (req[w].name \in objects <=> pc[w] = "addTemp")

\* Names that clients have not guessed were told before they were used, so that
\* they are not listed any more.
NamesTold ==
    /\ Used \ guessed \subseteq told
    /\ \A w \in Workers : pc[w] = "addProduct" => req[w].images \ guessed \subseteq told

\* What a goroutine knows of its request, the bucket and the table.
RequestSound(w) ==
    /\ pc[w] \in UploadCalls => req[w].name \in Images
    /\ pc[w] = "addProduct" => req[w].seller \in Sellers
    /\ pc[w] = "removeTemp" => req[w].images \subseteq Used
    /\ pc[w] \in UploadCalls /\ req[w].existed => bucket
    /\ pc[w] = "makeBucket" => ~req[w].existed

\* A name is listed or told only when its object is stored, so that whatever fails
\* later finds it there, and what a request has found out of the bucket and of the
\* table still holds when it acts (handlers/products.go:183-195, storage.go:50-56).
HandsSound == NamesFresh /\ \A w \in Workers : RequestSound(w)

\* What every reachable state satisfies.
CatalogInv == TypeOK /\ HandsSound /\ NamesTold /\ TempListExact

-----------------------------------------------------------------------------
(* The client that reads a seller's products page by page.  Pages are cut  *)
(* by how many newer products there are, so what it has not seen lies at   *)
(* its offset or beyond: a page takes at most as many rows as the offset   *)
(* moves, and products listed meanwhile push rows away from the start.     *)

\* At most one page is on its way, and it is the next page of the walk.
PageAsked ==
    /\ \A w, x \in Workers : pc[w] = "sellerProducts" /\ pc[x] = "sellerProducts" => w = x
    /\ \A w \in Workers :
          pc[w] = "sellerProducts" =>
              /\ ~walk.over
              /\ req[w].seller = walk.seller
              /\ req[w].limit = walk.limit
              /\ req[w].offset = walk.offset

\* The offset may become negative as an int32, and the walk then gets errors for
\* ever; it never wraps around to a row it has passed.
OffsetBounded == walk.offset < 2 * Half

MissingBeyond ==
    /\ walk.missing \subseteq ProductsOf(walk.seller)
    /\ ~walk.over => \A i \in walk.missing : Newer(i) >= walk.offset

\* What a walk has not seen yet is at its offset or beyond whatever is listed
\* between its pages, and so the first empty page means that it has seen
\* everything (service/products.go:160-164, products.sql.go:103-104).
WalkInv ==
    /\ PageAsked
    /\ OffsetBounded
    /\ MissingBeyond
    /\ WalkSeesAll
=============================================================================
