# e-auc in TLA+

Specifications, model checks and proofs for the e-auc server: a Go program that lets
registered users list products and bid on them. It serves HTTP with one goroutine per
request, keeps users, products and bids in Postgres, images in MinIO and a list of
temporary image names in Redis. Line numbers refer to the files of the repository;
paths without a prefix are under `internal/`.

## Inventory

| Component | State | Operations | Hard behaviour | Correct when |
|---|---|---|---|---|
| Bidding (`service/products.go:98-153`) | tables `products`, `bids` | `PlaceBid`: three queries and a price update in a goroutine of its own | no transaction: other requests run between its queries; the update may be late, overtaken, refused or lost | no acknowledged bid is lost, no seller bids on their own product, nobody bids twice in a row, the price is that of a real bid |
| Product listing (`service/products.go:36-96`) | table `products` | `CreateProduct`, `GetProductByID`, `GetProductImageUrls` | image names leave the temporary list after the insert, errors dropped | a listed product keeps its seller and listing price; a name leaves the temporary list only for a product. That its images exist is not checked by the code and not promised |
| Pagination (`service/products.go:155-173`) | the client's offset | `ProductsBySellerID` | pages are separate queries while rows are added; `int32(limit)` of an unbounded `uint` | a client that reads all pages misses no product |
| Image upload (`handlers/products.go:126-204`, `storage/storage.go`) | MinIO bucket and objects | `UploadImages`: up to four calls per file | several files, one failing; bucket check and creation race; two contexts, one cancelled with the request | every image is listed as temporary or used unless its own call failed; no name is listed or told before its object is stored |
| Cache (`cache/redis.go`) | the Redis list of temporary names | add, remove | errors dropped by the callers | what it gets wrong is what failed calls leave, name by name |
| Accounts (`service/auth.go`, `service/users.go`) | table `users` | register, log in, refresh, profile | lookup and insert are two queries, and the error of the lookup is dropped; no UNIQUE constraint | emails name one user (the code falls short of it in two ways), right credentials log in, tokens name users |
| Sessions (`pkg/jwt/jwt.go`) | blacklist in the process's memory, timers | issue, validate, log out | repeated logouts, timers, restarts | a token logged out is remembered until it expires, and no longer |
| Server process (`cmd/server/server.go`) | running, draining, ended | start, signal, `Shutdown`, timeout | shutdown waits for handlers only | every request is answered or the process has ended |
| Database connection (`dependency/dependencies.go:27`) | one `*pgx.Conn` | query | refuses a query while another is in flight; a cancelled request or a network error closes it for good | no goroutine leaves it busy |
| Middleware and routing (`middleware/`, `cmd/server/routes.go`) | none | claims of a token to the handlers | a token outlives rows read, requests and processes | the user of every insert exists |
| Response helpers, validator, logger, environment, generated docs | none | | | |

Components interact by direct calls, handler to service to generated queries. They share
the connection, and so the failure of one request reaches all the others. The only
asynchronous parts are the price update of `PlaceBid`, the timers of the blacklist and the
shutdown of the process.

## Modules

| Module | What it is |
|---|---|
| `Server` | The life of the process and the one connection, as operators on `server`, `conn`, `restarts`. Extended by each component, which says what its goroutines do when connection or process fail. |
| `Auction` | Products and bids. One action per request and per answer of the database. |
| `Accounts` | Users, tokens and the blacklist. |
| `Catalog` | The seller's side: uploads, products made of uploaded images, signed urls, pages. Three stores: Postgres, MinIO, Redis. |
| `EAuc` | Accounts and Auction in one process over one connection; the claims of a token are the seller and the bidder. |
| `Ledger` | Abstract: what the concurrent code promises of products and bids whatever happens. |
| `EnglishAuction` | Abstract: what the error messages of `service/errors.go:11-14` promise, one step per bid. |
| `ImageLife` | Abstract: what the server promises about the names of images: stored before listed or told, not listed again once told, off the list only for a product. |
| `AuctionRefinement` | The refinement mappings to `Ledger` and `EnglishAuction`. `Catalog` holds the one to `ImageLife`. |
| `AuctionInvariant`, `AccountsInvariant`, `CatalogInvariant` | The inductive invariants, checked by TLC and used by the proofs. |
| `AuctionProofs`, `AuctionRefinementProofs`, `AuctionSerialProofs` | The theorems about `Auction`: whatever happens; the refinement of `Ledger` and polite clients; one goroutine at a time. |
| `AccountsProofs`, `CatalogProofs`, `CatalogWalkProofs` | The theorems about `Accounts` and `Catalog`. |
| `EAucProofs` | The theorems about the whole server. It uses instances of the modules for `Auction` and `Accounts`. |
| `MCAuction`, `MCAccounts`, `MCCatalog`, `MCEAuc` | Symmetry sets, views and a constraint for TLC. |

Definitions whose comment begins with "Mutant of" are wrong on purpose. Each changes the
definition after it as a plausible bug would, no specification uses one, and the property
named beside it in `PROJECT.json` is violated when the change is made.

### How state and actions correspond to the code

* **Goroutines.** `Workers` are slots for goroutines. `pc[w]` is the call a goroutine is at,
  `req[w]` the request it works on, `reply[w]` the status it last answered. A goroutine
  stops only at a call to one of the stores. A step is the sending of a query (`SendQuery`), its
  failure (`QueryFails`, `Interrupted`) or its answer with all the Go code up to the next call.
  `BidProductRead` is `PlaceBid` lines 98 to 115, `BidLatestRead` lines 117 to 124,
  `BidCreated` lines 126 to 152. After `BidCreated` the slot goes to the goroutine that updates the
  price: the handler has answered and no longer counts among the `Handlers` that a shutdown waits for.
* **The connection.** pgx is not in the repository. It is modelled from the way it is called: a query
  is sent when the connection is free (`Acquire`), refused when it is busy or closed
  (`Refused`), answered by Postgres with an error that leaves the connection usable (`Errs`), and a statement in flight that is interrupted closes the connection
  (`Break`) and was executed by Postgres or not (`MayExecute`). Nothing opens it
  again but a restart, because `NewDependencies` dials once. The test of pgx's busy flag is taken as
  atomic. pgx makes no such promise for a connection shared by goroutines; what goes wrong
  then is covered as far as it is a crash of the process. An insert that is interrupted is executed by the time the process
  ends or not at all: Postgres finishing it after the next process has started is not modelled.
* **The process.** `Signal`, `ShutdownDone` and `ShutdownTimeout` are `Run`, lines 58 to 96.
  `Crash` ends the process at any point, `Restart` starts another.
* **When requests come.** `Sequential` is about clients: a request arrives only when no other is being handled. That is *not* one goroutine
  at a time. `PlaceBid` answers before its price update has run, and the next request is handled beside it; `Admits` counts handlers, and a
  price update is none. With one slot in `Workers` even the update keeps the next request out, which is more than any client can see to:
  properties and theorems of that case say "one goroutine", never "one request".
* **Clients that leave.** In `Accounts` and `Catalog` a handler is in `gone` once its context is
  cancelled. `Auction` has no such variable: there a query in flight, or about to be sent, may find its context
  cancelled at any time.
* **Products and bids.** A product is a key of `seller`, `start`, `price` and `bids`. `start` keeps the listing
  price, which the code overwrites, for the properties. `bids[p]` is in the order of `bid_at`:
  one connection inserts one bid after another, and the clock of Postgres is taken not to go back.
  A product's id is drawn by the insert; the model draws it when the request arrives, never
  the same one twice. `min_price` and `is_valid` are left out: no running code reads the first
  or changes the second.
* **Accounts.** A row's position in `users` is its id. A login or refresh issues a pair of tokens,
  an entry of `pairs` with the user and the time. Requests may present any pair ever issued.
  Signatures are left out, passwords stand for their hashes. The cookie belongs to the
  client. `timers` are the pending `time.AfterFunc` calls; a timer fires when it is due, or later.
  A `SELECT ... LIMIT 1` without `ORDER BY` may return any matching row.
  `Unhashable` passwords are refused by bcrypt, `Oversized` values by their columns.
  `AddUser` drops the error of its lookup whatever it is (`service/auth.go:43`). `blind`, in a request and in the row it makes, remembers that the lookup
  failed while connection and client were there, so that the insert may have succeeded.
* **Uploads.** Each file of an upload is four calls: `bucketExists`, `makeBucket` when there is none, `putObject`, and
  `addTemp` for the Redis list. The next file is opened and checked in the same step, and may end the request with a
  4xx or 5xx (`NextFile`). Names are drawn from `Images`, never one twice, as `uuid.New` does; they are
  interchangeable. Calls to MinIO use a background context (`storage.go:47`) and fail only by MinIO, executed or not; calls to Redis use
  the request's context, and their errors are dropped. go-redis repeats a failed call: adding a name
  twice or removing it twice changes nothing here, since `LREM` with count 0 takes all copies out. Status classes are kept,
  not codes.
* **Products made of images.** `CreateProduct` takes any one to five names (`model/request.go:17`) and looks none of them up: names of other
  products, of no object, or of an object still being uploaded. `removeTemp` takes them off the list one by one in any order. The urls of one product are
  signed in one step, `UrlsSigned`, which changes nothing. `guessed`, `unlisted` and `unremoved` remember, name by name, which were used before an
  upload told them, and which calls to the list failed or were lost.
* **Pages.** The rows of a seller are ordered by `created_at`; two rows with one time, whose order Postgres does not
  fix, are taken not to occur. `walk` is a client that reads a seller's products page by page with one limit, skipping what it has
  got. `Int32` wraps as the conversion does, with `Half` for 2^31.
* **The whole.** In `EAuc` a slot serves one request of either component, and `reply` is shared. `AuctionRequest` takes
  its user from `Claims`, those of the pairs that the middleware would let through when the request arrives. `Catalog`
  is not part of `EAuc`: it shares the connection like the others, and every property of it is stated with the connection
  refusing and failing in all ways.

`acked`, `loggedOut`, `blind`, `told`, `guessed`, `unlisted`, `unremoved`, `calm` and the parts of `walk` and of requests that the code does not keep are history
variables, read by properties and by the model of the clients only.

## Runs

All bounds are CONSTANTS in the `.cfg` files. Deadlock is checked wherever the process
cannot end for good.

| Run | Instance | Question |
|---|---|---|
| `auction_faults` | 2 goroutines, 3 users, 1 product, 3 bids, amounts 0 to 3 against a price of 1, all events, 1 restart | The safety of the tables and the connection, and `ImplementsLedger`, whatever happens; which errors may leave a bid behind |
| `auction_polite` | 2 goroutines, 3 users, 3 bids, `Overlap = FALSE`, all events, fair | No two bids in a row of one user; every request is answered, every price update ends |
| `auction_serial` | 1 goroutine, 2 products, amounts 0 to 4, no events | `ImplementsEnglishAuction`; each bid is above the one before, the price ends at the latest, and what was compared still holds at the insert |
| `accounts_faults` | Requests one at a time, 2 emails, 2 names, 2 users, 2 token pairs, clock to 2, all events, fair | A second row with an email is the work of a lookup that failed with connection and client there, and of nothing else; tokens name users, logouts remembered and forgotten, every blacklist entry timed, requests answered |
| `catalog_faults` | 2 goroutines, 2 images, uploads of 1 or 2 files, 2 products, any names, limits that wrap, all events, 1 restart, one mishap at a time | What the temporary list gets wrong is what each failed call leaves, names are listed and told after their files, only a first upload fails, a walk misses nothing and its invariant holds |
| `eauc_faults` | 2 goroutines, 2 users, 2 token pairs, 1 product, 1 bid, all events, 1 restart | Foreign keys hold, the connection comes back; the promises of `Auction` (`PromisesKept`), those of `Accounts` (`SessionsKept`) and `ImplementsLedger` hold of the two together |

Two goroutines are enough for every race of two requests, and two collide on the connection as any
number do; what a third could add is covered by the proofs, which are for any number. Three bids on a product let a
second bid follow a first whose update was lost, and a third follow either. `auction_polite` has one amount above the listing
price, because the property is about who bids: two bids at that amount are taken while the first is not published. Amounts lie below, at and above
the listing price in `auction_faults` and `auction_serial`. One restart is enough:
a process starts with empty memory and a free connection however often it was started.
`accounts_faults` has requests that come one at a time because nothing is promised of emails otherwise
(`accounts_register_race`); timers, clock and failures interleave with them all the same, and an `"error"` of Postgres stands there for the price update
that would make the lookup fail in the whole server. An access token lives two ticks of the clock, so that logouts at two times lie within its life.
`catalog_faults` extends no state in which two mishaps have happened (`FewMishaps`: a name guessed, not listed or not removed, a restart, a shutdown, a failure of MinIO) or
two clients have left requests that are still being handled. One mishap is what each part of `TempListExact` and `ImplementsImageLife` is about, and the first
state after the second is still checked; the proofs have no such bound.
`catalog_faults` has two images: one upload of two files, or two uploads that race for the bucket. With `Half = 16` its limits, 16 and 33,
wrap to a negative number, which Postgres refuses, and to 1, so that two products are two pages.
`Overlap = FALSE` means that a user issues a bid only when none of their earlier bid requests is still
being handled; it restricts clients, not the server.

`eauc_faults` has a view that keeps of `reply` only whether there is one, and leaves `blind` out. No guard of the model and no property of the run
reads more: statuses are written and compared with `"none"` at most. `catalog_faults` has a view without `reply`: no guard reads it, and
`UploadsFailForFirstBucket` reads it only in the step in which an upload is answered.

### Disagreements

Six runs expect a violation. Each states what a message, a comment, a test or the documentation
says of the program, and TLC shows a behaviour of the code that does otherwise.

| Run | Stated | What happens |
|---|---|---|
| `auction_price_race` | `service/errors.go:13` | The price update of the bid before is applied between the check and the insert, and a bid below the new price is stored |
| `auction_lost_update` | `handlers/products.go:287` | The price update meets the query of the next request, and its error is dropped |
| `accounts_register_race` | `handlers/users.go:81` | Two registrations with one email both find it free and both insert |
| `eauc_sequential_emails` | `handlers/users.go:81` | Requests come one at a time and nothing fails: the price update of an answered bid holds the connection, the lookup of the next registration is refused, its error is dropped, and the insert succeeds |
| `accounts_same_username` | `handlers/users.go:97` | Two accounts of one name; login looks at one row only |
| `accounts_profiles` | `tests/users_test.go:268` | "conn busy" is answered as 404; `tests/README.md:216` blames the test environment, but the server has the same single connection |

`auction_price_race` and `auction_lost_update` have `Sequential = TRUE`: it takes no two requests at once, since the price update of the bid
before is a goroutine of its own. `accounts_register_race` and `accounts_profiles` are about two requests, as the message and the test are; the whole
server needs only one beside a price update (`eauc_sequential_emails`, `ServerProfilesFailOnlyWhenBusy`).

More follow from the same causes, or are the conditions under which a property had to be stated, and have no run of their own:

* With `Overlap = TRUE` two overlapping bids of one user both pass the check of line 122, so that `NoConsecutiveBids`
  fails (`service/errors.go:14`).
* A token that was logged out passes the middleware until it expires: `IsBlackListed` (`pkg/jwt/jwt.go:138`) has no caller, where
  `structure.md:257` lists "Token blacklist checking". Reading the code says as much as a run would.
* The blacklist that `structure.md:304` puts into Redis is in the memory of the process: `LogoutRemembered` is stated of the
  first process only.
* A used image stays on the temporary list when Redis fails or the client leaves
  (`handlers/products.go:104-107`), and an image that was stored may be on no list: `TempListExact` says that each such name is one whose own call failed
  or was lost.
* A product may have images that do not exist, and a name it uses before the upload has listed it is listed for good (`guessed`).
* Of two first uploads one may be answered 500, because both saw no bucket: `UploadsFailForFirstBucket` excepts uploads that
  arrived when there was none.
* A `limit` of 2^32 becomes `LIMIT 0`, and the client gets an empty page, which ends its walk: `WalkSeesAll`
  is stated of other limits.

### Fairness

`FairSpec` of `Auction` and `Accounts` has weak fairness of `QueryStep(w)` for each goroutine: the Go scheduler runs every
runnable goroutine, and Postgres answers every query, or the connection breaks. The second half is
an assumption about the environment: no query has a deadline. A refusal counts as a step, so that
weak fairness suffices although the connection is taken and released by others. `Accounts` adds fairness of
the clock and of the timers that are due, which is the Go runtime's. Nothing is assumed of clients, signals,
failures or restarts. `Catalog` has no liveness property: its calls to MinIO have no deadline either, and what could be
said would be the same assumption again.

## Proofs

TLAPS checks the theorems for any number of users, products, images and goroutines, any
amounts and any set of events.

Of `Auction`:

* `TypeCorrect`: `TypeOK` is not inductive, since the tables take their values from
  requests. `Shape` adds the shape of the request of each goroutine, by the query it is at.
* `SafetyInvariant`: `SafetyInv` is inductive. A handler stops between its checks and its insert,
  so `SoundRequest` says what the checks it has passed are still worth: the seller it compared has not changed,
  and its amount is above the *listing* price. That survives any interleaving because sellers and listing prices
  never change and, by `PriceBacked`, the price never falls to below the listing price; the current price itself
  gives no such guarantee. `SoundRequest` of a price update says that its bid has been
  acknowledged. `OneAdder` keeps two inserts from claiming one product id.
* `BidsStayAboveStart`, `PriceStaysBacked`, `AckedBidsStayStored` and `NoSellerBids` are conjuncts of it.
* `PoliteInvariantHolds` and `PoliteClientsNeverBidTwice` assume `OneBidInFlight`: clients wait for the answer (`~Overlap`), or
  there is one goroutine, which makes them wait. `PoliteInv` adds that a user has one
  bid in flight, and that a handler about to insert is not the latest bidder. The second is
  what overlapping bids of one user break: nobody else's bid can make the user the leader.
* `AuctionImplementsLedger`: each step of `Auction` is a step of `Ledger` or leaves its variables alone, using
  `SafetyInv` for the guards of `Ledger` and `PoliteInv` for the last of them.
* `ConnectionAlwaysReturned` and `ErrorsStoreNothing` need only `Shape` and who holds the connection.
* `SerialInvariant`, `LatestBidIsPublished` and `AuctionImplementsEnglishAuction` assume one goroutine and no events. `SerialInv`
  says what neither of the others can: the price a bid was compared with is still the *current* price at the insert. The
  refinement counts a price update on its way as done (`PublishedPrice`), so that the insert is the step that takes the bid and the
  update is invisible. `BidsAlwaysIncrease` follows: the increase of the bids that `service/errors.go:13` has in mind, which neither the
  ledger nor polite clients give.
* `LoneBidsAboveCurrentPrice` lets everything fail and assumes of the behaviour that no two goroutines are at work at once (`OneGoroutine`). The run
  `auction_price_race` shows a bid stored below the current price beside the update of the bid before; the theorem says that another goroutine, a handler or
  such an update, is always part of it: no failure, crash or restart alone comes between the comparison and the insert and leaves the insert to happen.

Of `Accounts`:

* `SessionInvariant`: `SessionInv` is inductive. `TimersOnTime` is its heart: each pending timer is due at the
  expiry of its own token, so that a timer of an earlier logout takes nothing out that a later logout still needs.
  Registered rows never go away, and so `TokensNameUsers` survives every step. `AccountsTypeCorrect`,
  `TokensAlwaysNameUsers`, `LogoutsAreRemembered` and `BlacklistStaysTimed` follow.
  The last is the safety half of `BlacklistForgets`: the timer is there, and that it fires is fairness.
* `EmailsAlwaysChecked` is about requests that come one at a time. A registration whose lookup fails goes on to its insert all the same
  (`service/auth.go:43`). `InsertsFindEmailFree` says of each insert on its way that it will not be sent, because the connection is closed or its context
  cancelled; or that it is `blind`; or that its email is free. So a second row with an email is blind: the code makes duplicates when a lookup fails on a
  connection that survives, and in no other way. `EmailInv` adds that there is one handler, and none when the process is down.
* `ProfilesFailOnlyWhenBusy` assumes no events: a profile request then fails only while the query of another goroutine is in flight, which is
  the cause of `accounts_profiles`.

Of `Catalog`:

* `CatalogIsSound`: `CatalogInv`, which is `TypeOK`, `HandsSound`, `NamesTold` and `TempListExact`, is inductive. `NamesFresh` says that each upload
  works on a name of its own, that nobody was shown, and that a name that was shown or listed is stored. `RequestSound` says what a
  request still knows when it acts: a bucket once seen stays, and what `CreateProduct` takes off the list is in the table. `NamesTold` says that names used
  without a guess were told, so that no upload is still about to list them. `CatalogTypeCorrect`, `HandsAreSound` and `TempListIsExact` are its conjuncts.
* `OnlyFirstUploadsFail`: an upload that found a bucket never makes one, and nothing else fails it while all is calm.
* `LifeIsImplemented`: each step stores one new object, lists a stored name nobody has been told, adds the names of a product, takes a used name off
  the list, or touches none of these.

Of the walk through the pages, in `CatalogWalkProofs`:

* `WalkInvariant`: the place of a product is the number of newer products of its seller. A product that is listed moves the others of its seller
  one place away from the start and nothing moves one back, so that what the client has not seen stays at its offset or beyond
  (`MissingBeyond`). The lemmas count: places are different and without a gap, so a page of `n` rows takes all the places from its offset
  up to `n` further, and it is empty only when no place is that far. The conversion to 32 bits may make the offset negative, and then
  Postgres refuses the query; `OffsetBounded` is why it never comes round to a place already passed.
* `WalksSeeAll`: an empty page at the end means that nothing is missing, for any limit but those that convert to zero.

Of `EAuc`:

* `ForeignKeysHold`: the id of a user goes from the row to the token, from the token to the request and from the request into the
  tables, and is looked up at none of these places. `KeysInv` is inductive because rows are only added.
* `ConnectionAlwaysReturned`: as in `Auction`, for the goroutines of either component.
* `ServerImplementsLedger` reuses the theorems about `Auction`: an instance of `AuctionRefinementProofs` with the ids up to `MaxUsers` for
  users. Each step of the server is a step of that instance, or one beside it that leaves its tables and goroutines alone. A shutdown that
  waited for a handler of `Accounts` is one that `Auction` alone would have let through. `UsersBounded` counts the registrations on their
  way, so that every id is among its users.
* `ServerKeepsPromises` has the same argument (`AuctionOrBeside`) for the safety properties of `Auction`, and `ServerKeepsSessions` has its counterpart
  for those of `Accounts`: a step of the server is a step of Accounts alone (`AccountsOrAuction`), or one of Auction, which touches the connection and
  the answer and nothing else that `SessionInv` reads (`AuctionBeside`).
* `ServerBidsAboveCurrentPrice` assumes that no two goroutines of Auction are at work at once, and nothing of Accounts: whatever requests of Accounts do to the
  connection between a bid's checks and its insert, only another bid or its update makes the price stale.
* `ServerEmailsChecked` is `EmailsAlwaysChecked` in the whole server, with the price updates of answered bids beside the requests. `ServesOne` says that a
  goroutine works for one component at a time, so that no query of Auction gives back or closes the connection that a registration holds; a closed connection
  stays closed, so that an insert that was to fail does. `eauc_sequential_emails` shows that the blind rows it allows do occur.
* `ServerProfilesFailOnlyWhenBusy` is `ProfilesFailOnlyWhenBusy` with goroutines of both components.

The assumptions are the named ones on the constants, `ServerAssumption`, `AuctionAssumption`, `AccountsAssumption`,
`CatalogAssumption` and `EAucAssumption`, and where a theorem says so `OneBidInFlight`, `OneAtATime`, no events, or the last two together (`Undisturbed`). TLC evaluates the named
ones in every run.

Runs that expect a violation and theorems belong together: `LoneBidsAboveCurrentPrice` and `ServerBidsAboveCurrentPrice` say what every violation of
`BidAboveCurrentPrice` takes, `EmailsAlwaysChecked` and `ServerEmailsChecked` what every violation of `EmailsUnique` by requests one at a time takes, and
`ProfilesFailOnlyWhenBusy` and `ServerProfilesFailOnlyWhenBusy` what every failed profile takes. `LatestBidPublished` is proved for one goroutine and no events.
`CredentialsSuffice` fails with one goroutine already.

The proofs corrected the model in one place. `Interrupted` of `Auction` asked only that the connection be held by the goroutine, which in `EAuc`
may be on behalf of `Accounts`: it now asks, as `QueryFails` did, for a query of `Auction`.

Only model-checked: `RequestsAnswered` and `BlacklistForgets`, liveness under fairness, which is beyond the prover. Every invariant and every action property
of the passing runs, and every refinement, is proved.

## Not modelled

* The queries no code calls (`MarkProductAsSold`, `InvalidateBid`, `DeleteBid`, `UpdateProductImages`, the counting and
  listing queries, `WithTx`), and `Get`, `Set`, `Delete` of the cache, `GetFile` and `DeleteFile` of the storage, which have no caller or do nothing.
  This program never closes an auction.
* A port that cannot be opened (`cmd/server/server.go:62`): the process stays up and serves nothing until a signal comes. `Server` starts
  with the port open.
* Response layout, logging, configuration, the validator's rules other than as the inputs that handlers accept, generated documentation, chi.
* Data races inside pgx other than as crashes.

## What could follow

`Catalog` composed into `EAuc`, where an upload's insert competes with bids (its state space is beyond TLC at
useful bounds, so that it would rest on proof alone); a model of the closing of auctions, once the program has one.
