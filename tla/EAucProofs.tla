------------------------------ MODULE EAucProofs ------------------------------
(***************************************************************************)
(* The whole server, for any number of users, tokens, products and         *)
(* goroutines: no insert breaks a foreign key, no goroutine of either      *)
(* component leaves the connection busy, and what Auction and Accounts     *)
(* promise when they run alone they promise side by side.                  *)
(*                                                                         *)
(* The id of a user passes through four hands: the row, the token, the     *)
(* request and the table of Auction.  None of them looks it up again, and  *)
(* none needs to, because rows are only added.                             *)
(***************************************************************************)
EXTENDS EAuc, FiniteSetTheorems, TLAPS

Rows == [email : Emails \cup {None}, username : Usernames \cup {None},
         password : Passwords \cup {None}, blind : BOOLEAN]
BidRows == [user : Nat \cup {None}, price : Int]
AuctionRequests == [user : Nat \cup {None}, product : Products \cup {None}, amount : Int]

AccountsTyped ==
    /\ users \in Seq(Rows)
    /\ pairs \in Seq(U!Pair)
    /\ now \in Nat
    /\ upc \in [Workers -> U!Queries \cup {"idle"}]
    /\ ureq \in [Workers -> U!Request]

TablesTyped ==
    /\ seller \in [Products -> Nat \cup {None}]
    /\ bids \in [Products -> Seq(BidRows)]

AuctionTyped ==
    /\ TablesTyped
    /\ apc \in [Workers -> A!Queries \cup {"idle"}]
    /\ areq \in [Workers -> AuctionRequests]

\* A handler that is to insert a product or a bid knows whose and which.
InsertsReady ==
    \A w \in Workers :
        apc[w] \in A!BidQueries \cup {"addProduct"} => areq[w].user # None /\ areq[w].product \in Products

\* The users in the tables of Auction are rows, and those in its requests.
TablesKeyed ==
    \A p \in Products :
        /\ seller[p] # None => seller[p] \in 1..Len(users)
        /\ \A i \in 1..Len(bids[p]) : bids[p][i].user \in 1..Len(users)
RequestsKeyed ==
    \A w \in Workers : areq[w].user # None => areq[w].user \in 1..Len(users)

\* The inductive invariant: along the way of an id, from row to token to
\* request to table, it stays the id of a row.
KeysInv ==
    /\ AccountsTyped
    /\ AuctionTyped
    /\ InsertsReady
    /\ U!TokensNameUsers
    /\ TablesKeyed
    /\ RequestsKeyed

LEMMA ConnStates == "idle" \notin Workers /\ "closed" \notin Workers
  BY ServerAssumption DEF ServerAssumption

LEMMA KeysInit == Init => KeysInv
  BY DEF Init, U!Init, A!Init, KeysInv, AccountsTyped, AuctionTyped, TablesTyped, InsertsReady,
         TablesKeyed, RequestsKeyed, U!TokensNameUsers, U!NoRequest, A!NoRequest, U!Request,
         AuctionRequests, BidRows, Rows, U!Pair, A!BidQueries

-----------------------------------------------------------------------------
(* Accounts. *)

\* The table only grows.
UsersGrow == users' \in Seq(Rows) /\ Len(users') >= Len(users)

\* The tokens only grow, by a token of a user of the table.
TokensGrow ==
    \/ pairs' = pairs
    \/ \E u \in 1..Len(users) : pairs' = Append(pairs, [user |-> u, at |-> now])

AccountsGoroutines ==
    /\ upc' \in [Workers -> U!Queries \cup {"idle"}]
    /\ ureq' \in [Workers -> U!Request]

LEMMA RegistrationGrows ==
  ASSUME AccountsTyped, NEW w \in Workers, U!MayExecute(w)
  PROVE  UsersGrow
  <1>1. CASE users' = users
    BY <1>1 DEF UsersGrow, AccountsTyped
  <1>2. CASE U!CreateUser(ureq[w])
    <2> DEFINE row == [email |-> ureq[w].email, username |-> ureq[w].username,
                       password |-> ureq[w].password, blind |-> ureq[w].blind]
    <2>1. row \in Rows
      BY DEF AccountsTyped, U!Request, Rows
    <2>2. CASE users' = Append(users, row)
      BY <2>1, <2>2 DEF AccountsTyped, UsersGrow
    <2> QED
      BY <1>1, <1>2, <2>2 DEF U!CreateUser
  <1> QED
    BY <1>1, <1>2 DEF U!MayExecute, U!Execute

LEMMA TokensKept ==
  ASSUME AccountsTyped, U!TokensNameUsers, UsersGrow, TokensGrow
  PROVE  pairs' \in Seq(U!Pair) /\ U!TokensNameUsers'
  <1> USE DEF AccountsTyped, U!TokensNameUsers, UsersGrow
  <1>1. CASE pairs' = pairs
    BY <1>1
  <1>2. ASSUME NEW u \in 1..Len(users), pairs' = Append(pairs, [user |-> u, at |-> now])
        PROVE  pairs' \in Seq(U!Pair) /\ U!TokensNameUsers'
    <2>1. [user |-> u, at |-> now] \in U!Pair
      BY DEF U!Pair
    <2> QED
      BY <1>2, <2>1
  <1> QED
    BY <1>1, <1>2 DEF TokensGrow

\* Steps that leave the tables and the goroutines of Auction alone.
LEMMA AccountsSound ==
  ASSUME KeysInv, UsersGrow, TokensGrow, AccountsGoroutines, now' \in Nat, UNCHANGED auctionVars
  PROVE  KeysInv'
  <1>1. AccountsTyped' /\ U!TokensNameUsers'
    BY TokensKept DEF KeysInv, AccountsTyped, UsersGrow, AccountsGoroutines
  <1>2. AuctionTyped' /\ InsertsReady'
    BY DEF KeysInv, AuctionTyped, TablesTyped, InsertsReady, auctionVars
  <1>3. TablesKeyed' /\ RequestsKeyed'
    <2>1. 1..Len(users) \subseteq 1..Len(users')
      BY DEF KeysInv, AccountsTyped, UsersGrow
    <2> QED
      BY <2>1 DEF KeysInv, TablesKeyed, RequestsKeyed, auctionVars
  <1> QED
    BY <1>1, <1>2, <1>3 DEF KeysInv

LEMMA UFinishTyped ==
  ASSUME AccountsTyped, NEW w \in Workers, NEW status, U!Finish(w, status)
  PROVE  AccountsGoroutines
  BY DEF AccountsTyped, U!Finish, AccountsGoroutines, U!NoRequest, U!Request

LEMMA UFailTyped ==
  ASSUME AccountsTyped, NEW w \in Workers,
         U!FailQuery(w) \/ \E blind \in BOOLEAN : U!HashAndInsert(w, blind)
  PROVE  AccountsGoroutines
  <1>1. ASSUME NEW blind \in BOOLEAN, U!HashAndInsert(w, blind)
        PROVE  AccountsGoroutines
    <2>1. CASE U!Hashable(ureq[w].password)
      <3>1. [ureq[w] EXCEPT !.blind = blind] \in U!Request
        BY DEF AccountsTyped, U!Request
      <3> QED
        BY <1>1, <2>1, <3>1 DEF AccountsTyped, U!HashAndInsert, AccountsGoroutines, U!Queries
    <2> QED
      BY <1>1, <2>1, UFinishTyped DEF U!HashAndInsert
  <1> QED
    BY <1>1, UFinishTyped DEF U!FailQuery

LEMMA AccountsQuerySound ==
  ASSUME KeysInv, NEW w \in Workers, AccountsQuery(w)
  PROVE  KeysInv'
  <1> AccountsTyped /\ U!QueryStep(w) /\ UNCHANGED auctionVars
    BY DEF KeysInv, AccountsQuery
  <1> USE DEF U!QueryStep, U!SendQuery, U!QueryFails, U!Interrupted, U!EmailRead, U!UserCreated,
              U!CredentialsRead, U!RefreshRead, U!ProfileRead, U!session, U!GenerateTokenPair
  <1>1. now' \in Nat
    BY DEF AccountsTyped
  <1>2. UsersGrow
    <2>1. users' = users => UsersGrow
      BY DEF UsersGrow, AccountsTyped
    <2> QED
      BY <2>1, RegistrationGrows DEF U!Answered, U!MayExecute
  <1>3. TokensGrow
    BY DEF TokensGrow, U!RowsByUsername, U!UserExists
  <1>4. AccountsGoroutines
    <2>1. CASE U!SendQuery(w)
      BY <2>1 DEF U!goroutines, AccountsGoroutines, AccountsTyped
    <2>2. CASE U!QueryFails(w) \/ U!Interrupted(w)
      BY <2>2, UFailTyped
    <2>3. CASE U!EmailRead(w)
      BY <2>3, UFailTyped, UFinishTyped
    <2>4. CASE U!UserCreated(w) \/ U!ProfileRead(w)
      BY <2>4, UFinishTyped
    <2>5. CASE U!CredentialsRead(w) \/ U!RefreshRead(w)
      BY <2>5, UFinishTyped
    <2> QED
      BY <2>1, <2>2, <2>3, <2>4, <2>5
  <1> QED
    BY <1>1, <1>2, <1>3, <1>4, AccountsSound

LEMMA UArriveSound ==
  ASSUME KeysInv, NEW w \in Workers, NEW query \in U!Queries, NEW r \in U!Request,
         U!Arrive(w, query, r), UNCHANGED auctionVars
  PROVE  KeysInv'
  <1>1. AccountsGoroutines
    BY DEF U!Arrive, KeysInv, AccountsTyped, AccountsGoroutines
  <1>2. UsersGrow /\ TokensGrow /\ now' \in Nat
    BY DEF U!Arrive, U!session, KeysInv, AccountsTyped, UsersGrow, TokensGrow
  <1> QED
    BY <1>1, <1>2, AccountsSound

\* Steps of Accounts that change neither users nor tokens nor queries.
LEMMA UQuietSound ==
  ASSUME KeysInv, UNCHANGED <<users, pairs, upc, ureq>>, now' \in Nat, UNCHANGED auctionVars
  PROVE  KeysInv'
  <1>1. AccountsGoroutines /\ UsersGrow /\ TokensGrow
    BY DEF KeysInv, AccountsTyped, AccountsGoroutines, UsersGrow, TokensGrow
  <1> QED
    BY <1>1, AccountsSound

LEMMA AccountsRequestSound ==
  ASSUME KeysInv, NEW w \in Workers, AccountsRequest(w)
  PROVE  KeysInv'
  <1> UNCHANGED auctionVars
    BY DEF AccountsRequest
  <1> now \in Nat
    BY DEF KeysInv, AccountsTyped
  <1>1. ASSUME NEW status, U!Answer(w, status)
        PROVE  KeysInv'
    BY <1>1, UQuietSound DEF U!Answer, U!session
  <1>2. ASSUME NEW e \in Emails, NEW n \in Usernames, NEW k \in Passwords, U!RegisterUser(w, e, n, k)
        PROVE  KeysInv'
    <2>1. [email |-> e, username |-> n, password |-> k, pair |-> None, blind |-> FALSE] \in U!Request
      BY DEF U!Request
    <2> QED
      BY <1>2, <2>1, UArriveSound DEF U!RegisterUser, U!Queries
  <1>3. ASSUME NEW n \in Usernames, NEW k \in Passwords, U!LoginUser(w, n, k)
        PROVE  KeysInv'
    <2>1. [email |-> None, username |-> n, password |-> k, pair |-> None, blind |-> FALSE] \in U!Request
      BY DEF U!Request
    <2> QED
      BY <1>3, <2>1, UArriveSound DEF U!LoginUser, U!Queries
  <1>4. ASSUME NEW i \in 1..Len(pairs), U!RefreshToken(w, i) \/ U!Profile(w, i)
        PROVE  KeysInv'
    <2>1. [email |-> None, username |-> None, password |-> None, pair |-> i, blind |-> FALSE] \in U!Request
      BY DEF U!Request
    <2> QED
      BY <1>1, <1>4, <2>1, UArriveSound DEF U!RefreshToken, U!Profile, U!Queries
  <1>5. ASSUME NEW i \in 1..Len(pairs), U!LogoutUser(w, i)
        PROVE  KeysInv'
    BY <1>5, UQuietSound DEF U!LogoutUser
  <1> QED
    BY <1>1, <1>2, <1>3, <1>4, <1>5 DEF AccountsRequest, U!Reject

-----------------------------------------------------------------------------
(* Auction. *)

\* A statement writes the user of the request it belongs to.
LEMMA StatementKeyed ==
  ASSUME AuctionTyped, InsertsReady, TablesKeyed, RequestsKeyed,
         NEW w \in Workers, A!MayExecute(w)
  PROVE  /\ TablesTyped'
         /\ \A p \in Products :
               /\ seller'[p] # None => seller'[p] \in 1..Len(users)
               /\ \A i \in 1..Len(bids'[p]) : bids'[p][i].user \in 1..Len(users)
  <1> DEFINE r == areq[w]
  <1> USE DEF AuctionTyped, TablesTyped, TablesKeyed
  <1>1. CASE UNCHANGED <<seller, bids>>
    BY <1>1
  <1>2. CASE apc[w] = "addProduct" /\ A!AddProduct(r)
    <2>1. r.user \in Nat \cup {None} /\ r.product \in Products /\ r.user \in 1..Len(users)
      BY <1>2 DEF InsertsReady, RequestsKeyed, AuctionRequests
    <2>2. bids' = bids /\ seller' = [seller EXCEPT ![r.product] = r.user]
      BY <1>2 DEF A!AddProduct
    <2> QED
      BY <2>1, <2>2
  <1>3. CASE apc[w] = "createBid" /\ A!CreateBid(r)
    <2> DEFINE b == [user |-> r.user, price |-> r.amount]
    <2>1. r.product \in Products /\ r.user \in 1..Len(users) /\ b \in BidRows
      BY <1>3 DEF InsertsReady, RequestsKeyed, AuctionRequests, BidRows, A!BidQueries
    <2>2. seller' = seller /\ bids' = [bids EXCEPT ![r.product] = Append(@, b)]
      BY <1>3 DEF A!CreateBid
    <2>3. bids[r.product] \in Seq(BidRows) /\ bids'[r.product] = Append(bids[r.product], b)
      BY <2>1, <2>2
    <2>4. \A i \in 1..Len(bids'[r.product]) : bids'[r.product][i].user \in 1..Len(users)
      <3>1. ASSUME NEW i \in 1..Len(bids'[r.product])
            PROVE  \/ i \in 1..Len(bids[r.product]) /\ bids'[r.product][i] = bids[r.product][i]
                   \/ bids'[r.product][i] = b
        BY <2>1, <2>3
      <3>2. \A i \in 1..Len(bids[r.product]) : bids[r.product][i].user \in 1..Len(users)
        BY <2>1
      <3>3. b.user \in 1..Len(users)
        BY <2>1
      <3> HIDE DEF b, r, AuctionTyped, TablesTyped, TablesKeyed
      <3> QED
        BY <3>1, <3>2, <3>3
    <2>5. TablesTyped'
      <3>1. Append(bids[r.product], b) \in Seq(BidRows)
        BY <2>1, <2>3
      <3> QED
        BY <2>1, <2>2, <3>1
    <2>6. \A p \in Products : p # r.product => bids'[p] = bids[p]
      BY <2>2
    <2> HIDE DEF b, r
    <2> QED
      BY <2>2, <2>4, <2>5, <2>6
  <1> QED
    BY <1>1, <1>2, <1>3 DEF A!MayExecute, A!Execute, A!tables, A!UpdateProductCurrentPrice

\* Steps that leave users and tokens alone.
LEMMA AuctionSound ==
  ASSUME KeysInv, UNCHANGED accountsVars, AuctionTyped', InsertsReady', RequestsKeyed', TablesKeyed'
  PROVE  KeysInv'
  BY DEF KeysInv, accountsVars, AccountsTyped, U!TokensNameUsers

LEMMA AFinishKeyed ==
  ASSUME KeysInv, NEW w \in Workers, NEW status, A!Finish(w, status), users' = users
  PROVE  /\ apc' \in [Workers -> A!Queries \cup {"idle"}]
         /\ areq' \in [Workers -> AuctionRequests]
         /\ InsertsReady' /\ RequestsKeyed'
  BY DEF KeysInv, AuctionTyped, InsertsReady, RequestsKeyed, A!Finish, A!NoRequest, AuctionRequests,
         A!BidQueries

LEMMA AGoOnKeyed ==
  ASSUME KeysInv, NEW w \in Workers, apc[w] \in A!BidQueries, users' = users,
         NEW query \in A!Queries, apc' = [apc EXCEPT ![w] = query], areq' = areq
  PROVE  /\ apc' \in [Workers -> A!Queries \cup {"idle"}]
         /\ areq' \in [Workers -> AuctionRequests]
         /\ InsertsReady' /\ RequestsKeyed'
  BY DEF KeysInv, AuctionTyped, InsertsReady, RequestsKeyed, A!BidQueries

LEMMA AuctionQuerySound ==
  ASSUME KeysInv, NEW w \in Workers, AuctionQuery(w)
  PROVE  KeysInv'
  <1> A!QueryStep(w) /\ UNCHANGED accountsVars /\ users' = users
    BY DEF AuctionQuery, accountsVars
  <1> USE DEF A!SendQuery, A!QueryFails, A!Interrupted, A!ProductAdded, A!ProductRead,
              A!BidProductRead, A!BidLatestRead, A!BidCreated, A!PriceUpdated, A!Answered
  <1>1. A!MayExecute(w)
    BY DEF A!QueryStep, A!MayExecute
  <1>2. TablesTyped' /\ TablesKeyed'
    BY <1>1, StatementKeyed DEF KeysInv, TablesKeyed
  <1>3. /\ apc' \in [Workers -> A!Queries \cup {"idle"}]
        /\ areq' \in [Workers -> AuctionRequests]
        /\ InsertsReady' /\ RequestsKeyed'
    <2>1. CASE A!SendQuery(w)
      BY <2>1 DEF KeysInv, AuctionTyped, A!goroutines, InsertsReady, RequestsKeyed
    <2>2. CASE A!QueryFails(w) \/ A!Interrupted(w)
      BY <2>2, AFinishKeyed DEF A!FinishInError
    <2>3. CASE A!ProductAdded(w) \/ A!ProductRead(w) \/ A!PriceUpdated(w)
      BY <2>3, AFinishKeyed
    <2>4. CASE A!BidProductRead(w) \/ A!BidLatestRead(w) \/ A!BidCreated(w)
      BY <2>4, AFinishKeyed, AGoOnKeyed DEF A!GoOn, A!BidQueries, A!HandlerQueries, A!Queries
    <2> QED
      BY <2>1, <2>2, <2>3, <2>4 DEF A!QueryStep
  <1> QED
    BY <1>2, <1>3, AuctionSound DEF AuctionTyped

\* The middleware lets through tokens only, and tokens name rows.
LEMMA ClaimsAreUsers == KeysInv => Claims \subseteq 1..Len(users)
  BY DEF KeysInv, Claims, U!TokensNameUsers

LEMMA AArriveSound ==
  ASSUME KeysInv, NEW w \in Workers, NEW query \in A!Queries, NEW r \in AuctionRequests,
         r.user # None => r.user \in 1..Len(users),
         query \in A!BidQueries \cup {"addProduct"} => r.user # None /\ r.product \in Products,
         A!Arrive(w, query, r), UNCHANGED accountsVars
  PROVE  KeysInv'
  <1>1. AuctionTyped' /\ TablesKeyed'
    BY DEF A!Arrive, A!tables, KeysInv, AuctionTyped, TablesTyped, TablesKeyed, accountsVars
  <1>2. InsertsReady' /\ RequestsKeyed'
    BY DEF A!Arrive, KeysInv, AuctionTyped, InsertsReady, RequestsKeyed, accountsVars
  <1> QED
    BY <1>1, <1>2, AuctionSound

LEMMA AuctionRequestSound ==
  ASSUME KeysInv, NEW w \in Workers, AuctionRequest(w)
  PROVE  KeysInv'
  <1> UNCHANGED accountsVars
    BY DEF AuctionRequest
  <1>1. CASE A!Reject(w)
    BY <1>1, AuctionSound DEF A!Reject, A!tables, KeysInv, AuctionTyped, TablesTyped, InsertsReady,
       TablesKeyed, RequestsKeyed, accountsVars
  <1>2. ASSUME NEW p \in Products, A!GetProductByID(w, p)
        PROVE  KeysInv'
    <2>1. [user |-> None, product |-> p, amount |-> 0] \in AuctionRequests
      BY DEF AuctionRequests
    <2> QED
      BY <1>2, <2>1, AArriveSound DEF A!GetProductByID, A!Queries, A!HandlerQueries, A!BidQueries
  <1>3. ASSUME NEW u \in Claims, NEW p \in Products, NEW a \in Int, NEW query \in {"addProduct", "getProduct"},
               A!Arrive(w, query, [user |-> u, product |-> p, amount |-> a])
        PROVE  KeysInv'
    <2>1. u \in 1..Len(users) /\ u \in Nat /\ u # None
      BY ClaimsAreUsers, EAucAssumption DEF KeysInv, AccountsTyped, EAucAssumption
    <2>2. [user |-> u, product |-> p, amount |-> a] \in AuctionRequests
      BY <2>1 DEF AuctionRequests
    <2> QED
      BY <1>3, <2>1, <2>2, AArriveSound DEF A!Queries, A!HandlerQueries, A!BidQueries
  <1>4. StartPrices \subseteq Int /\ Amounts \subseteq Int
    BY EAucAssumption DEF EAucAssumption
  <1> QED
    BY <1>1, <1>2, <1>3, <1>4 DEF AuctionRequest, A!CreateProduct, A!PlaceBid

-----------------------------------------------------------------------------
(* The process. *)

LEMMA ProcessEndsSound ==
  ASSUME KeysInv, ProcessEnds
  PROVE  KeysInv'
  <1> U!ProcessEnds /\ A!GoroutinesEnd
    BY DEF ProcessEnds
  <1>1. UsersGrow /\ now' \in Nat /\ pairs' = pairs
    BY RegistrationGrows DEF U!ProcessEnds, KeysInv, AccountsTyped, UsersGrow
  <1>2. AccountsTyped' /\ U!TokensNameUsers'
    BY <1>1, TokensKept DEF TokensGrow, U!ProcessEnds, KeysInv, AccountsTyped, UsersGrow, U!NoRequest, U!Request
  <1>3. 1..Len(users) \subseteq 1..Len(users')
    BY <1>1 DEF KeysInv, AccountsTyped, UsersGrow
  <1>4. TablesTyped' /\ TablesKeyed'
    <2>1. CASE conn \in Workers
      BY <1>3, <2>1, StatementKeyed DEF A!GoroutinesEnd, KeysInv, TablesKeyed
    <2>2. CASE conn \notin Workers
      BY <1>3, <2>2 DEF A!GoroutinesEnd, A!tables, KeysInv, AuctionTyped, TablesTyped, TablesKeyed
    <2> QED
      BY <2>1, <2>2
  <1>5. /\ apc' \in [Workers -> A!Queries \cup {"idle"}]
        /\ areq' \in [Workers -> AuctionRequests]
        /\ InsertsReady' /\ RequestsKeyed'
    BY DEF A!GoroutinesEnd, A!NoRequest, AuctionRequests, InsertsReady, RequestsKeyed, A!BidQueries
  <1> QED
    BY <1>2, <1>4, <1>5 DEF KeysInv, AuctionTyped

LEMMA KeysStep ==
  ASSUME KeysInv, [Next]_vars
  PROVE  KeysInv'
  <1> now \in Nat
    BY DEF KeysInv, AccountsTyped
  <1>1. ASSUME NEW w \in Workers, ClientLeaves(w)
        PROVE  KeysInv'
    BY <1>1, UQuietSound DEF ClientLeaves, U!ClientLeaves, U!session
  <1>2. CASE Tick
    BY <1>2, UQuietSound DEF Tick, U!Tick, U!goroutines
  <1>3. CASE TimerFires
    BY <1>3, UQuietSound DEF TimerFires, U!TimerFires, U!goroutines
  <1>4. CASE ShutdownBegins \/ ConnectionLost \/ ProcessRestart
    BY <1>4, UQuietSound DEF ShutdownBegins, ConnectionLost, ProcessRestart, accountsVars
  <1>5. CASE ShutdownEnds \/ ShutdownTimesOut \/ ProcessCrash
    BY <1>5, ProcessEndsSound DEF ShutdownEnds, ShutdownTimesOut, ProcessCrash
  <1>6. CASE UNCHANGED vars
    BY <1>6, UQuietSound DEF vars, accountsVars
  <1> QED
    BY <1>1, <1>2, <1>3, <1>4, <1>5, <1>6, AccountsQuerySound, AccountsRequestSound,
       AuctionQuerySound, AuctionRequestSound DEF Next

\* No insert breaks a foreign key: sellers and bidders are rows of users, across
\* crashes, restarts and tokens older than the process (migrations 02 and 03).
THEOREM ForeignKeysHold == Spec => []ForeignKeys
  <1>1. KeysInv => ForeignKeys
    BY DEF KeysInv, TablesKeyed, RequestsKeyed, ForeignKeys
  <1>2. KeysInv /\ [Next]_vars => KeysInv'
    BY KeysStep
  <1> QED
    BY <1>1, <1>2, KeysInit, PTL DEF Spec
-----------------------------------------------------------------------------
(* The connection. *)

\* A step that does not take the connection, and ends only goroutines that do
\* not have it.
LEMMA ConnKept ==
  ASSUME KeysInv, ConnectionReturned, NEW w \in Workers, conn # w, conn' = conn,
         \A x \in Workers : x # w => apc'[x] = apc[x] /\ upc'[x] = upc[x]
  PROVE  ConnectionReturned'
  BY DEF ConnectionReturned

LEMMA ConnGiven ==
  ASSUME conn' \in {"idle", "closed"}
  PROVE  ConnectionReturned'
  BY ConnStates DEF ConnectionReturned

LEMMA AccountsQueryReturns ==
  ASSUME KeysInv, ConnectionReturned, NEW w \in Workers, AccountsQuery(w)
  PROVE  ConnectionReturned'
  <1> USE DEF KeysInv, AccountsTyped, AuctionTyped
  <1> U!QueryStep(w) /\ apc' = apc
    BY DEF AccountsQuery, auctionVars
  <1>1. CASE U!SendQuery(w)
    BY <1>1 DEF U!SendQuery, U!Acquire, U!goroutines, ConnectionReturned
  <1>2. CASE U!QueryFails(w)
    <2>1. conn' = "idle" \/ (conn # w /\ conn' = conn)
      BY <1>2 DEF U!QueryFails, U!Refused, U!CancelledBefore, U!Errs, U!serverVars
    <2>2. \A x \in Workers : x # w => upc'[x] = upc[x]
      BY <1>2 DEF U!QueryFails, U!FailQuery, U!HashAndInsert, U!Finish
    <2> QED
      BY <2>1, <2>2, ConnKept, ConnGiven
  <1>3. CASE U!Interrupted(w)
    BY <1>3, ConnGiven DEF U!Interrupted, U!Break
  <1>4. CASE U!EmailRead(w) \/ U!UserCreated(w) \/ U!CredentialsRead(w) \/ U!RefreshRead(w) \/ U!ProfileRead(w)
    BY <1>4, ConnGiven DEF U!EmailRead, U!UserCreated, U!CredentialsRead, U!RefreshRead, U!ProfileRead,
                           U!Answered, U!Release
  <1> QED
    BY <1>1, <1>2, <1>3, <1>4 DEF U!QueryStep

LEMMA AuctionQueryReturns ==
  ASSUME KeysInv, ConnectionReturned, NEW w \in Workers, AuctionQuery(w)
  PROVE  ConnectionReturned'
  <1> USE DEF KeysInv, AccountsTyped, AuctionTyped
  <1> A!QueryStep(w) /\ upc' = upc
    BY DEF AuctionQuery, accountsVars
  <1>1. CASE A!SendQuery(w)
    BY <1>1 DEF A!SendQuery, A!Acquire, A!goroutines, ConnectionReturned
  <1>2. CASE A!QueryFails(w)
    <2>1. conn' = "idle" \/ (conn # w /\ conn' = conn)
      BY <1>2 DEF A!QueryFails, A!Refused, A!CancelledBefore, A!Errs, A!serverVars
    <2>2. \A x \in Workers : x # w => apc'[x] = apc[x]
      BY <1>2 DEF A!QueryFails, A!FinishInError, A!Finish
    <2> QED
      BY <2>1, <2>2, ConnKept, ConnGiven
  <1>3. CASE A!Interrupted(w)
    BY <1>3, ConnGiven DEF A!Interrupted, A!Break
  <1>4. CASE \/ A!ProductAdded(w) \/ A!ProductRead(w) \/ A!BidProductRead(w)
             \/ A!BidLatestRead(w) \/ A!BidCreated(w) \/ A!PriceUpdated(w)
    BY <1>4, ConnGiven DEF A!ProductAdded, A!ProductRead, A!BidProductRead, A!BidLatestRead, A!BidCreated,
                           A!PriceUpdated, A!Answered, A!Release
  <1> QED
    BY <1>1, <1>2, <1>3, <1>4 DEF A!QueryStep

LEMMA ConnectionStep ==
  ASSUME KeysInv, ConnectionReturned, [Next]_vars
  PROVE  ConnectionReturned'
  <1> USE DEF KeysInv, AccountsTyped, AuctionTyped
  <1>1. ASSUME conn' = conn, UNCHANGED <<apc, upc>>
        PROVE  ConnectionReturned'
    BY <1>1 DEF ConnectionReturned
  <1>2. ASSUME NEW w \in Workers, AccountsRequest(w)
        PROVE  ConnectionReturned'
    <2>1. apc[w] = "idle" /\ apc' = apc /\ conn' = conn
      BY <1>2 DEF AccountsRequest, auctionVars, U!Reject, U!Answer, U!RegisterUser, U!LoginUser,
                  U!RefreshToken, U!Profile, U!LogoutUser, U!Arrive, U!serverVars
    <2>2. CASE upc' = upc
      BY <2>1, <2>2, <1>1
    <2>3. ASSUME NEW query, query # "idle", upc' = [upc EXCEPT ![w] = query]
          PROVE  ConnectionReturned'
      BY <2>1, <2>3 DEF ConnectionReturned
    <2> QED
      BY <1>2, <2>2, <2>3 DEF AccountsRequest, U!Reject, U!Answer, U!RegisterUser, U!LoginUser,
         U!RefreshToken, U!Profile, U!LogoutUser, U!Arrive
  <1>3. ASSUME NEW w \in Workers, AuctionRequest(w)
        PROVE  ConnectionReturned'
    <2>1. upc' = upc /\ conn' = conn
      BY <1>3 DEF AuctionRequest, accountsVars, A!Reject, A!CreateProduct, A!GetProductByID, A!PlaceBid,
                  A!Arrive, A!serverVars
    <2>2. CASE apc' = apc
      BY <2>1, <2>2, <1>1
    <2>3. ASSUME NEW query, query # "idle", apc' = [apc EXCEPT ![w] = query]
          PROVE  ConnectionReturned'
      BY <2>1, <2>3 DEF ConnectionReturned
    <2> QED
      BY <1>3, <2>2, <2>3 DEF AuctionRequest, A!Reject, A!CreateProduct, A!GetProductByID, A!PlaceBid,
         A!Arrive
  <1>4. CASE (\E w \in Workers : ClientLeaves(w)) \/ Tick \/ TimerFires \/ ShutdownBegins
    BY <1>4, <1>1 DEF ClientLeaves, U!ClientLeaves, Tick, U!Tick, TimerFires, U!TimerFires, U!goroutines,
       U!serverVars, ShutdownBegins, Signal, accountsVars, auctionVars
  <1>5. CASE ConnectionLost \/ ProcessRestart
    BY <1>5, ConnGiven DEF ConnectionLost, BreakIdle, ProcessRestart, Restart
  <1>6. CASE ShutdownEnds \/ ShutdownTimesOut \/ ProcessCrash
    BY <1>6, ConnGiven DEF ShutdownEnds, ShutdownDone, ShutdownTimesOut, ShutdownTimeout, ProcessCrash, Crash, Exit
  <1>7. CASE UNCHANGED vars
    BY <1>7, <1>1 DEF vars, serverVars, accountsVars, auctionVars
  <1> QED
    BY <1>2, <1>3, <1>4, <1>5, <1>6, <1>7, AccountsQueryReturns, AuctionQueryReturns DEF Next

\* Whichever component a goroutine worked for, and whatever broke meanwhile, it
\* does not end with the connection busy on its behalf (dependencies.go:27).
THEOREM ConnectionAlwaysReturned == Spec => []ConnectionReturned
  <1>1. Init => ConnectionReturned
    BY ConnStates DEF Init, U!Init, U!ServerInit, ConnectionReturned
  <1>2. KeysInv /\ ConnectionReturned /\ [Next]_vars => KeysInv' /\ ConnectionReturned'
    BY KeysStep, ConnectionStep
  <1> QED
    BY <1>1, <1>2, KeysInit, PTL DEF Spec
-----------------------------------------------------------------------------
(* What Auction promises.  Its theorems hold here of A, since every step   *)
(* of the server is a step of Auction or leaves its tables and goroutines  *)
(* alone; its users are the ids up to MaxUsers.                            *)

AP == INSTANCE AuctionSerialProofs
         WITH Users <- 1..MaxUsers, pc <- apc, req <- areq

LEMMA ServerAssumed ==
    /\ Sequential \in BOOLEAN
    /\ Events \subseteq AP!EventKinds
    /\ MaxRestarts \in Nat
    /\ {"idle", "closed"} \cap Workers = {}
  BY ServerAssumption DEF ServerAssumption, EventKinds, AP!EventKinds

LEMMA AuctionAssumed ==
    /\ None \notin (1..MaxUsers) \cup Products
    /\ StartPrices \subseteq Nat \ {0}
    /\ Amounts \subseteq Int
    /\ MaxBids \in Nat
    /\ Overlap \in BOOLEAN
  BY EAucAssumption DEF EAucAssumption

LEMMA SameQueryStep ==
  ASSUME NEW w \in Workers, A!QueryStep(w)
  PROVE  AP!QueryStep(w)
  <1> USE DEF A!tables, AP!tables, A!goroutines, AP!goroutines, A!serverVars, AP!serverVars,
              A!NoRequest, AP!NoRequest, A!Finish, AP!Finish, A!FinishInError, AP!FinishInError,
              A!GoOn, AP!GoOn, A!Listed, AP!Listed, A!Leads, AP!Leads,
              A!AddProduct, AP!AddProduct, A!CreateBid, AP!CreateBid,
              A!UpdateProductCurrentPrice, AP!UpdateProductCurrentPrice,
              A!Execute, AP!Execute, A!MayExecute, AP!MayExecute,
              A!Release, AP!Release, A!Answered, AP!Answered
  <1>1. A!SendQuery(w) => AP!SendQuery(w)
    BY DEF A!SendQuery, AP!SendQuery, A!Acquire, AP!Acquire
  <1>2. A!QueryFails(w) => AP!QueryFails(w)
    BY DEF A!QueryFails, AP!QueryFails, A!Refused, AP!Refused, A!CancelledBefore, AP!CancelledBefore, A!Errs, AP!Errs
  <1>3. A!Interrupted(w) => AP!Interrupted(w)
    BY DEF A!Interrupted, AP!Interrupted, A!Break, AP!Break
  <1>4. A!ProductAdded(w) => AP!ProductAdded(w)
    BY DEF A!ProductAdded, AP!ProductAdded
  <1>5. A!ProductRead(w) => AP!ProductRead(w)
    BY DEF A!ProductRead, AP!ProductRead
  <1>6. A!BidProductRead(w) => AP!BidProductRead(w)
    BY DEF A!BidProductRead, AP!BidProductRead
  <1>7. A!BidLatestRead(w) => AP!BidLatestRead(w)
    BY DEF A!BidLatestRead, AP!BidLatestRead
  <1>8. A!BidCreated(w) => AP!BidCreated(w)
    BY DEF A!BidCreated, AP!BidCreated
  <1>9. A!PriceUpdated(w) => AP!PriceUpdated(w)
    BY DEF A!PriceUpdated, AP!PriceUpdated
  <1> QED
    BY <1>1, <1>2, <1>3, <1>4, <1>5, <1>6, <1>7, <1>8, <1>9 DEF A!QueryStep, AP!QueryStep
LEMMA SameRequest ==
  ASSUME NEW w \in Workers, AuctionRequest(w), Claims \subseteq 1..MaxUsers
  PROVE  AP!Next
  <1> USE DEF A!tables, AP!tables, A!serverVars, AP!serverVars, A!Arrive, AP!Arrive,
              A!Admits, AP!Admits, A!Handlers, AP!Handlers, A!HandlerQueries, AP!HandlerQueries,
              A!BidQueries, AP!BidQueries
  <1>1. A!Reject(w) => AP!Reject(w)
    BY DEF A!Reject, AP!Reject
  <1>2. ASSUME NEW p \in Products, A!GetProductByID(w, p)
        PROVE  AP!GetProductByID(w, p)
    BY <1>2 DEF A!GetProductByID, AP!GetProductByID
  <1>3. ASSUME NEW u, NEW p \in Products, NEW c, A!CreateProduct(w, u, p, c)
        PROVE  AP!CreateProduct(w, u, p, c)
    BY <1>3 DEF A!CreateProduct, AP!CreateProduct, A!Listed, AP!Listed
  <1>4. ASSUME NEW u, NEW p \in Products, NEW a, A!PlaceBid(w, u, p, a)
        PROVE  AP!PlaceBid(w, u, p, a)
    <2>1. A!BidHandlers = AP!BidHandlers
      BY DEF A!BidHandlers, AP!BidHandlers, A!BidQueries, AP!BidQueries
    <2>2. A!Cardinality({x \in AP!BidHandlers : areq[x].product = p})
             = AP!Cardinality({x \in AP!BidHandlers : areq[x].product = p})
      BY DEF A!Cardinality, AP!Cardinality
    <2> QED
      BY <1>4, <2>1, <2>2 DEF A!PlaceBid, AP!PlaceBid
  <1> QED
    BY <1>1, <1>2, <1>3, <1>4 DEF AuctionRequest, AP!Next

\* A shutdown that waited for the handlers of Accounts alone is one that Auction
\* did not hold up.
LEMMA SameProcess ==
  ASSUME \/ ShutdownBegins \/ ConnectionLost \/ ProcessRestart
         \/ ShutdownEnds \/ ShutdownTimesOut \/ ProcessCrash
  PROVE  AP!Next
  <1> USE DEF A!tables, AP!tables, AP!goroutines, AP!serverVars
  <1>1. A!GoroutinesEnd => AP!GoroutinesEnd
    BY DEF A!GoroutinesEnd, AP!GoroutinesEnd, A!MayExecute, AP!MayExecute, A!Execute, AP!Execute,
           A!AddProduct, AP!AddProduct, A!CreateBid, AP!CreateBid, A!UpdateProductCurrentPrice,
           AP!UpdateProductCurrentPrice, A!NoRequest, AP!NoRequest
  <1>2. CASE ShutdownBegins \/ ConnectionLost \/ ProcessRestart
    BY <1>2 DEF ShutdownBegins, Signal, ConnectionLost, BreakIdle, ProcessRestart, Restart, auctionVars,
                AP!ShutdownBegins, AP!Signal, AP!ConnectionLost, AP!BreakIdle, AP!ProcessRestart, AP!Restart,
                AP!Next
  <1>3. CASE ShutdownEnds \/ ShutdownTimesOut \/ ProcessCrash
    <2> USE DEF Exit, AP!Exit
    <2>1. CASE ShutdownEnds
      BY <2>1, <1>1 DEF ShutdownEnds, ShutdownDone, ProcessEnds, Handlers, A!Handlers, AP!Handlers,
                        A!HandlerQueries, AP!HandlerQueries, A!BidQueries, AP!BidQueries,
                        AP!ShutdownEnds, AP!ShutdownDone, AP!Next
    <2>2. CASE ShutdownTimesOut
      BY <2>2, <1>1 DEF ShutdownTimesOut, ShutdownTimeout, ProcessEnds, AP!ShutdownEnds, AP!ShutdownDone,
                        AP!ShutdownTimesOut, AP!ShutdownTimeout, AP!Next
    <2>3. CASE ProcessCrash
      BY <2>3, <1>1 DEF ProcessCrash, Crash, ProcessEnds, AP!ProcessCrash, AP!Crash, AP!Next
    <2> QED
      BY <1>3, <2>1, <2>2, <2>3
  <1> QED
    BY <1>2, <1>3

-----------------------------------------------------------------------------
(* The ids stay below MaxUsers.                                            *)

Registering == {x \in Workers : upc[x] \in {"byEmail", "createUser"}}

UsersBounded == Len(users) + Cardinality(Registering) <= MaxUsers

LEMMA RegisteringFinite ==
    /\ IsFiniteSet(Registering) /\ Cardinality(Registering) \in Nat
    /\ IsFiniteSet(Registering') /\ Cardinality(Registering') \in Nat
  <1>1. IsFiniteSet(Registering) /\ IsFiniteSet(Registering')
    BY EAucAssumption, FS_Subset DEF EAucAssumption, Registering
  <1> QED
    BY <1>1, FS_CardinalityType

LEMMA NobodyNew ==
  ASSUME AccountsTyped, UsersBounded, users' = users, Registering' \subseteq Registering
  PROVE  UsersBounded'
  <1>1. Cardinality(Registering') <= Cardinality(Registering)
    BY RegisteringFinite, FS_Subset
  <1> QED
    BY <1>1, RegisteringFinite, EAucAssumption DEF UsersBounded, AccountsTyped, EAucAssumption

LEMMA OneRegistered ==
  ASSUME AccountsTyped, UsersBounded, NEW w \in Registering, Len(users') <= Len(users) + 1,
         users' \in Seq(Rows), Registering' \subseteq Registering \ {w}
  PROVE  UsersBounded'
  <1>1. IsFiniteSet(Registering \ {w}) /\ Cardinality(Registering \ {w}) = Cardinality(Registering) - 1
    BY RegisteringFinite, FS_RemoveElement
  <1>2. Cardinality(Registering') <= Cardinality(Registering \ {w})
    BY <1>1, FS_Subset
  <1> QED
    BY <1>1, <1>2, RegisteringFinite, EAucAssumption DEF UsersBounded, AccountsTyped, EAucAssumption

LEMMA AccountsQueryBounded ==
  ASSUME AccountsTyped, UsersBounded, NEW w \in Workers, AccountsQuery(w)
  PROVE  UsersBounded'
  <1> USE DEF U!QueryStep, U!SendQuery, U!QueryFails, U!Interrupted, U!EmailRead, U!UserCreated,
              U!CredentialsRead, U!RefreshRead, U!ProfileRead, U!Answered
  <1> U!QueryStep(w)
    BY DEF AccountsQuery
  <1>1. UsersGrow
    BY RegistrationGrows DEF U!MayExecute, UsersGrow, AccountsTyped
  <1>2. users' = users \/ (upc[w] = "createUser" /\ Len(users') <= Len(users) + 1)
    <2> DEFINE row == [email |-> ureq[w].email, username |-> ureq[w].username,
                       password |-> ureq[w].password, blind |-> ureq[w].blind]
    <2>1. row \in Rows
      BY DEF AccountsTyped, U!Request, Rows
    <2>2. users' = users \/ (upc[w] = "createUser" /\ users' = Append(users, row))
      BY DEF U!MayExecute, U!Execute, U!CreateUser
    <2> QED
      BY <2>1, <2>2 DEF AccountsTyped
  <1>3. \A x \in Workers : x # w => upc'[x] = upc[x]
    BY DEF U!goroutines, U!FailQuery, U!HashAndInsert, U!Finish, AccountsTyped
  <1>4. CASE users' = users
    <2>1. upc'[w] \in {"byEmail", "createUser"} => upc[w] \in {"byEmail", "createUser"}
      BY DEF U!goroutines, U!FailQuery, U!HashAndInsert, U!Finish, AccountsTyped
    <2> QED
      BY <1>3, <1>4, <2>1, NobodyNew DEF Registering
  <1>5. CASE upc[w] = "createUser" /\ users' # users
    <2>1. upc'[w] = "idle"
      BY <1>5 DEF U!FailQuery, U!Finish, AccountsTyped, U!Execute
    <2>2. w \in Registering /\ Registering' \subseteq Registering \ {w}
      BY <1>3, <1>5, <2>1 DEF Registering
    <2> QED
      BY <1>1, <1>2, <1>5, <2>2, OneRegistered DEF UsersGrow
  <1> QED
    BY <1>2, <1>4, <1>5

LEMMA AccountsRequestBounded ==
  ASSUME AccountsTyped, UsersBounded, NEW w \in Workers, AccountsRequest(w)
  PROVE  UsersBounded'
  <1>1. ASSUME NEW query, query \notin {"byEmail", "createUser"}, NEW r, U!Arrive(w, query, r)
        PROVE  UsersBounded'
    <2>1. users' = users /\ Registering' \subseteq Registering
      BY <1>1 DEF U!Arrive, AccountsTyped, Registering
    <2> QED
      BY <2>1, NobodyNew
  <1>2. ASSUME users' = users, upc' = upc
        PROVE  UsersBounded'
    BY <1>2 DEF UsersBounded, Registering
  <1>3. ASSUME NEW e, NEW n, NEW k, U!RegisterUser(w, e, n, k)
        PROVE  UsersBounded'
    <2>1. users' = users /\ upc[w] = "idle" /\ upc' = [upc EXCEPT ![w] = "byEmail"]
      BY <1>3 DEF U!RegisterUser, U!Arrive
    <2>2. Registering' = Registering \cup {w} /\ w \notin Registering
      BY <2>1 DEF AccountsTyped, Registering
    <2>3. Cardinality(Registering') = Cardinality(Registering) + 1
      BY <2>2, RegisteringFinite, FS_AddElement
    <2>4. Len(users) + Cardinality(Registering) < MaxUsers
      <3>1. U!Cardinality(Registering) = Cardinality(Registering)
        BY DEF U!Cardinality, Cardinality
      <3> QED
        BY <1>3, <3>1 DEF U!RegisterUser, Registering
    <2> QED
      BY <2>1, <2>3, <2>4, RegisteringFinite, EAucAssumption
      DEF UsersBounded, AccountsTyped, EAucAssumption
  <1> QED
    BY <1>1, <1>2, <1>3 DEF AccountsRequest, U!Reject, U!Answer, U!LoginUser, U!RefreshToken, U!Profile,
       U!LogoutUser

LEMMA ProcessEndsBounded ==
  ASSUME AccountsTyped, UsersBounded, ProcessEnds
  PROVE  UsersBounded'
  <1>1. Registering' = {}
    BY DEF ProcessEnds, U!ProcessEnds, Registering
  <1>2. CASE users' = users
    BY <1>1, <1>2, NobodyNew
  <1>3. CASE users' # users
    <2>1. conn \in Workers /\ U!MayExecute(conn)
      BY <1>3 DEF ProcessEnds, U!ProcessEnds
    <2> DEFINE row == [email |-> ureq[conn].email, username |-> ureq[conn].username,
                       password |-> ureq[conn].password, blind |-> ureq[conn].blind]
    <2>2. row \in Rows
      BY <2>1 DEF AccountsTyped, U!Request, Rows
    <2>3. upc[conn] = "createUser" /\ users' = Append(users, row)
      BY <1>3, <2>1 DEF U!MayExecute, U!Execute, U!CreateUser
    <2>4. users' \in Seq(Rows) /\ Len(users') <= Len(users) + 1
      BY <2>2, <2>3 DEF AccountsTyped
    <2>5. conn \in Registering
      BY <2>1, <2>3 DEF Registering
    <2> QED
      BY <1>1, <2>4, <2>5, OneRegistered
  <1> QED
    BY <1>2, <1>3

LEMMA UsersStayBounded ==
  ASSUME KeysInv, UsersBounded, [Next]_vars
  PROVE  UsersBounded'
  <1> AccountsTyped
    BY DEF KeysInv
  <1>1. ASSUME users' = users, upc' = upc
        PROVE  UsersBounded'
    BY <1>1 DEF UsersBounded, Registering
  <1>2. ASSUME NEW w \in Workers, AuctionQuery(w) \/ AuctionRequest(w) \/ ClientLeaves(w)
        PROVE  UsersBounded'
    BY <1>1, <1>2 DEF AuctionQuery, AuctionRequest, accountsVars, ClientLeaves, U!ClientLeaves
  <1>3. CASE Tick \/ TimerFires \/ ShutdownBegins \/ ConnectionLost \/ ProcessRestart \/ UNCHANGED vars
    BY <1>1, <1>3 DEF Tick, U!Tick, TimerFires, U!TimerFires, U!goroutines, ShutdownBegins, ConnectionLost,
       ProcessRestart, accountsVars, vars
  <1>4. CASE ShutdownEnds \/ ShutdownTimesOut \/ ProcessCrash
    BY <1>4, ProcessEndsBounded DEF ShutdownEnds, ShutdownTimesOut, ProcessCrash
  <1> QED
    BY <1>2, <1>3, <1>4, AccountsQueryBounded, AccountsRequestBounded DEF Next
-----------------------------------------------------------------------------
(* The steps of the server are steps of Auction, or beside it.             *)

\* What holds of Auction at every step, and what a step does to its ledger.
AuctionInv == AP!SafetyInv /\ AP!Politeness /\ AP!ErrorMeansNotStored

LEMMA AuctionInit == Init => AuctionInv
  <1>1. Init => AP!Init
    BY DEF Init, A!Init, AP!Init, A!ServerInit, AP!ServerInit, A!NoRequest, AP!NoRequest
  <1>2. AP!Init => AP!PoliteInv
    BY AP!PoliteInit, ServerAssumed, AuctionAssumed
  <1>3. AP!Init => AP!SafetyInv
    BY AP!SafetyInit, ServerAssumed, AuctionAssumed
  <1>4. AP!Init => AP!ErrorMeansNotStored
    BY DEF AP!Init, AP!ErrorMeansNotStored
  <1> QED
    BY <1>1, <1>2, <1>3, <1>4 DEF AuctionInv, AP!Politeness

LEMMA StepOfAuction ==
  ASSUME AuctionInv, AP!Next
  PROVE  AuctionInv' /\ [AP!L!Next]_(AP!L!vars)
  <1>1. AP!SafetyInv'
    BY AP!SafetyStep, ServerAssumed, AuctionAssumed DEF AuctionInv
  <1>2. AP!Politeness'
    <2>1. AP!Shape /\ AP!Shape'
      BY <1>1 DEF AuctionInv, AP!SafetyInv
    <2> QED
      BY <2>1, AP!PoliteStep, ServerAssumed, AuctionAssumed DEF AuctionInv, AP!Politeness
  <1>3. [AP!L!Next]_(AP!L!vars)
    BY AP!LedgerStep, ServerAssumed, AuctionAssumed DEF AuctionInv
  <1>4. AP!ErrorMeansNotStored'
    BY AP!ErrorMeansNotStoredStep, ServerAssumed, AuctionAssumed DEF AuctionInv, AP!SafetyInv
  <1> QED
    BY <1>1, <1>2, <1>3, <1>4 DEF AuctionInv

\* A step of Accounts may take the connection, give it back or lose it, and
\* answer a request.
Beside ==
    /\ UNCHANGED auctionVars /\ UNCHANGED <<server, restarts>>
    /\ conn' \in {"idle", "closed"} \cup Workers
    /\ conn' # "closed" => conn # "closed"
    /\ Events = {} /\ conn # "closed" => conn' # "closed"
    /\ reply' \in [Workers -> Statuses]

LEMMA StepBeside ==
  ASSUME AuctionInv, Beside
  PROVE  AuctionInv' /\ [AP!L!Next]_(AP!L!vars)
  <1> USE DEF Beside
  <1>1. AP!Shape'
    BY DEF AuctionInv, AP!SafetyInv, AP!Shape, AP!ServerTypeOK, AP!TablesType, AP!GoroutinesType,
           AP!RequestShape, auctionVars, Statuses, AP!Statuses
  <1>2. AP!SafetyInv'
    BY <1>1, AP!StutterSafe, ServerAssumed, AuctionAssumed DEF AuctionInv, auctionVars, AP!tables
  <1>3. AP!Politeness'
    BY AP!PoliteStutter, ServerAssumed, AuctionAssumed DEF AuctionInv, AP!Politeness, auctionVars
  <1>4. AP!ErrorMeansNotStored'
    BY DEF AuctionInv, AP!ErrorMeansNotStored, auctionVars
  <1> QED
    BY <1>2, <1>3, <1>4 DEF AuctionInv, auctionVars, AP!L!vars

LEMMA ServerTyped ==
  ASSUME AuctionInv
  PROVE  conn \in {"idle", "closed"} \cup Workers /\ reply \in [Workers -> Statuses]
  BY DEF AuctionInv, AP!SafetyInv, AP!Shape, AP!ServerTypeOK, AP!GoroutinesType, Statuses, AP!Statuses

LEMMA AccountsBeside ==
  ASSUME AuctionInv, NEW w \in Workers, AccountsQuery(w) \/ AccountsRequest(w) \/ ClientLeaves(w)
  PROVE  Beside
  <1>0. conn \in {"idle", "closed"} \cup Workers /\ reply \in [Workers -> Statuses]
    BY ServerTyped
  <1>1. CASE AccountsQuery(w)
    <2> USE DEF U!QueryStep, U!SendQuery, U!QueryFails, U!Interrupted, U!EmailRead, U!UserCreated,
                U!CredentialsRead, U!RefreshRead, U!ProfileRead, U!Answered
    <2>1. UNCHANGED <<server, restarts>> /\ conn' \in {"idle", "closed"} \cup Workers
      BY <1>0, <1>1 DEF AccountsQuery, U!Acquire, U!Refused, U!CancelledBefore, U!Errs, U!Break, U!Release, U!serverVars
    <2>2. reply' = reply \/ \E status \in Statuses : reply' = [reply EXCEPT ![w] = status]
      BY <1>1 DEF AccountsQuery, U!goroutines, U!FailQuery, U!HashAndInsert, U!Finish, Statuses
    <2>3. reply' \in [Workers -> Statuses]
      BY <1>0, <2>2
    <2>4. /\ conn' # "closed" => conn # "closed"
          /\ Events = {} /\ conn # "closed" => conn' # "closed"
      BY <1>1, ConnStates DEF AccountsQuery, U!Acquire, U!Refused, U!CancelledBefore, U!Errs, U!Break, U!Release,
                              U!serverVars
    <2> QED
      BY <1>1, <2>1, <2>3, <2>4 DEF AccountsQuery, Beside
  <1>2. CASE AccountsRequest(w)
    <2> USE DEF U!Reject, U!Answer, U!RegisterUser, U!LoginUser, U!RefreshToken, U!Profile, U!LogoutUser,
                U!Arrive
    <2>1. UNCHANGED <<server, conn, restarts>>
      BY <1>2 DEF AccountsRequest, U!serverVars
    <2>2. reply' \in [Workers -> Statuses]
      BY <1>0, <1>2 DEF AccountsRequest, Statuses
    <2> QED
      BY <1>0, <1>2, <2>1, <2>2 DEF AccountsRequest, Beside
  <1>3. CASE ClientLeaves(w)
    BY <1>0, <1>3 DEF ClientLeaves, U!ClientLeaves, U!serverVars, Beside
  <1> QED
    BY <1>1, <1>2, <1>3

LEMMA AuctionOrBeside ==
  ASSUME KeysInv, UsersBounded, AuctionInv, [Next]_vars
  PROVE  AP!Next \/ Beside
  <1>0. conn \in {"idle", "closed"} \cup Workers /\ reply \in [Workers -> Statuses]
    BY ServerTyped
  <1>1. ASSUME NEW w \in Workers, AuctionQuery(w)
        PROVE  AP!Next
    BY <1>1, SameQueryStep DEF AuctionQuery, AP!Next
  <1>2. Claims \subseteq 1..MaxUsers
    <2>1. Len(users) <= MaxUsers
      BY RegisteringFinite, EAucAssumption DEF UsersBounded, KeysInv, AccountsTyped, EAucAssumption
    <2> QED
      BY <2>1, ClaimsAreUsers, EAucAssumption DEF KeysInv, AccountsTyped, EAucAssumption
  <1>3. CASE Tick \/ TimerFires \/ UNCHANGED vars
    BY <1>0, <1>3 DEF Tick, U!Tick, TimerFires, U!TimerFires, U!serverVars, U!goroutines,
       vars, serverVars, Beside
  <1> QED
    BY <1>1, <1>2, <1>3, SameRequest, SameProcess, AccountsBeside DEF Next

LEMMA ServerStep ==
  ASSUME KeysInv, UsersBounded, AuctionInv, [Next]_vars
  PROVE  AuctionInv' /\ [AP!L!Next]_(AP!L!vars)
  BY AuctionOrBeside, StepOfAuction, StepBeside

LEMMA ServerInvariants == Spec => [](KeysInv /\ UsersBounded /\ AuctionInv)
  <1>1. Init => UsersBounded
    <2> SUFFICES ASSUME Init PROVE UsersBounded
      OBVIOUS
    <2>1. Len(users) = 0 /\ Registering = {}
      BY DEF Init, U!Init, Registering
    <2>2. Cardinality(Registering) = 0
      BY <2>1, FS_EmptySet
    <2> QED
      BY <2>1, <2>2, EAucAssumption DEF UsersBounded, EAucAssumption
  <1>2. KeysInv /\ UsersBounded /\ AuctionInv /\ [Next]_vars => KeysInv' /\ UsersBounded' /\ AuctionInv'
    BY KeysStep, UsersStayBounded, ServerStep
  <1> QED
    BY <1>1, <1>2, KeysInit, AuctionInit, PTL DEF Spec

\* What Auction promises it promises in the whole server, where its users are
\* those of the tokens and Accounts competes with it for the connection
\* (service/products.go:98-153).
THEOREM ServerImplementsLedger == Spec => ImplementsLedger
  <1>1. Init => A!L!Init
    BY DEF Init, A!Init, A!L!Init
  <1>2. [AP!L!Next]_(AP!L!vars) => [A!L!Next]_(A!L!vars)
    BY DEF AP!L!Next, AP!L!vars, A!L!Next, A!L!vars, AP!L!List, A!L!List, AP!L!Store, A!L!Store,
           AP!L!Publish, A!L!Publish
  <1>3. KeysInv /\ UsersBounded /\ AuctionInv /\ [Next]_vars => [A!L!Next]_(A!L!vars)
    BY <1>2, ServerStep
  <1> QED
    BY <1>1, <1>3, ServerInvariants, PTL DEF Spec, ImplementsLedger, A!ImplementsLedger, A!L!Spec

\* The bids and prices of the whole server are as sound as those of Auction alone
\* (service/products.go:98-153, dependencies.go:33).
THEOREM ServerKeepsPromises == Spec => []PromisesKept
  <1>1. AuctionInv => PromisesKept
    <2> SUFFICES ASSUME AuctionInv PROVE PromisesKept
      OBVIOUS
    <2>1. A!BidsAboveStart /\ A!PriceBacked /\ A!AckedBidsStored /\ A!NoSelfBid
      BY DEF AuctionInv, AP!SafetyInv, AP!SoundTables, A!BidsAboveStart, AP!BidsAboveStart, A!PriceBacked,
             AP!PriceBacked, A!AckedBidsStored, AP!AckedBidsStored, A!NoSelfBid, AP!NoSelfBid
    <2>2. A!ErrorMeansNotStored
      BY DEF AuctionInv, A!ErrorMeansNotStored, AP!ErrorMeansNotStored
    <2>3. ~Overlap => A!NoConsecutiveBids
      BY DEF AuctionInv, AP!Politeness, AP!OneBidInFlight, AP!PoliteInv, A!NoConsecutiveBids, AP!NoConsecutiveBids
    <2> QED
      BY <2>1, <2>2, <2>3 DEF PromisesKept
  <1> QED
    BY <1>1, ServerInvariants, PTL

-----------------------------------------------------------------------------
(* One goroutine of Auction at a time.  Requests of Accounts may be handled *)
(* beside it.                                                              *)

OneOfAuction == \A w, x \in Workers : apc[w] # "idle" /\ apc[x] # "idle" => w = x

\* As long as no two goroutines of Auction are at work at once, a bid is above the
\* current price when it is stored, whatever fails and however many requests of
\* Accounts take the connection between the handler's checks and its insert: only
\* another bid or its price update can make the price stale
\* (service/products.go:113).
THEOREM ServerBidsAboveCurrentPrice == Spec /\ []OneOfAuction => A!BidAboveCurrentPrice
  <1>1. Init => AP!AmountAbovePrice
    BY DEF Init, A!Init, AP!AmountAbovePrice
  <1>2. /\ KeysInv /\ UsersBounded /\ AuctionInv /\ AP!AmountAbovePrice
        /\ OneOfAuction /\ OneOfAuction' /\ [Next]_vars
        => AP!AmountAbovePrice' /\ AP!StoredAbovePrice
    <2> SUFFICES ASSUME KeysInv, UsersBounded, AuctionInv, AP!AmountAbovePrice,
                        OneOfAuction, OneOfAuction', [Next]_vars
                 PROVE  AP!AmountAbovePrice' /\ AP!StoredAbovePrice
      OBVIOUS
    <2>1. CASE AP!Next
      <3>1. AP!OneGoroutine /\ AP!OneGoroutine' /\ AP!Shape
        BY DEF OneOfAuction, AP!OneGoroutine, AuctionInv, AP!SafetyInv
      <3> QED
        BY <2>1, <3>1, AP!AmountStep, ServerAssumed, AuctionAssumed
    <2>2. CASE Beside
      BY <2>2 DEF Beside, auctionVars, AP!AmountAbovePrice, AP!StoredAbovePrice
    <2> QED
      BY <2>1, <2>2, AuctionOrBeside
  <1> QED
    BY <1>1, <1>2, ServerInvariants, PTL DEF Spec, A!BidAboveCurrentPrice, AP!StoredAbovePrice

-----------------------------------------------------------------------------
(* What Accounts promises.  Here the steps of Auction are the ones beside: *)
(* they may take the connection, give it back or lose it, and answer a     *)
(* request.                                                                *)

UP == INSTANCE AccountsProofs WITH pc <- upc, req <- ureq

LEMMA AccountsAssumed ==
    /\ Unhashable \subseteq Passwords
    /\ Oversized \subseteq Emails \cup Usernames
    /\ None \notin Emails \cup Usernames \cup Passwords \cup Nat
    /\ AccessTTL \in Nat \ {0} /\ RefreshTTL \in Nat /\ RefreshTTL >= AccessTTL
    /\ MaxTime \in Nat /\ MaxUsers \in Nat /\ MaxPairs \in Nat
  BY EAucAssumption DEF EAucAssumption

LEMMA ServerAssumedToo ==
    /\ Sequential \in BOOLEAN
    /\ Events \subseteq UP!EventKinds
    /\ MaxRestarts \in Nat
    /\ {"idle", "closed"} \cap Workers = {}
  BY ServerAssumption DEF ServerAssumption, EventKinds, UP!EventKinds

LEMMA SameAccountsQuery ==
  ASSUME NEW w \in Workers, U!QueryStep(w)
  PROVE  UP!QueryStep(w)
  <1> USE DEF U!session, UP!session, U!goroutines, UP!goroutines, U!serverVars, UP!serverVars,
              U!NoRequest, UP!NoRequest, U!Finish, UP!Finish, U!Hashable, UP!Hashable,
              U!HashAndInsert, UP!HashAndInsert, U!FailQuery, UP!FailQuery, U!Storable, UP!Storable,
              U!CreateUser, UP!CreateUser, U!Execute, UP!Execute, U!MayExecute, UP!MayExecute,
              U!Release, UP!Release, U!Answered, UP!Answered, U!GenerateTokenPair, UP!GenerateTokenPair,
              U!UserExists, UP!UserExists
  <1>1. U!SendQuery(w) => UP!SendQuery(w)
    BY DEF U!SendQuery, UP!SendQuery, U!Acquire, UP!Acquire
  <1>2. U!QueryFails(w) => UP!QueryFails(w)
    BY DEF U!QueryFails, UP!QueryFails, U!Refused, UP!Refused, U!CancelledBefore, UP!CancelledBefore, U!Errs, UP!Errs
  <1>3. U!Interrupted(w) => UP!Interrupted(w)
    BY DEF U!Interrupted, UP!Interrupted, U!Break, UP!Break
  <1>4. U!EmailRead(w) => UP!EmailRead(w)
    BY DEF U!EmailRead, UP!EmailRead, U!RowsByEmail, UP!RowsByEmail
  <1>5. U!UserCreated(w) => UP!UserCreated(w)
    BY DEF U!UserCreated, UP!UserCreated
  <1>6. U!CredentialsRead(w) => UP!CredentialsRead(w)
    BY DEF U!CredentialsRead, UP!CredentialsRead, U!RowsByUsername, UP!RowsByUsername, U!Matches, UP!Matches
  <1>7. U!RefreshRead(w) => UP!RefreshRead(w)
    BY DEF U!RefreshRead, UP!RefreshRead
  <1>8. U!ProfileRead(w) => UP!ProfileRead(w)
    BY DEF U!ProfileRead, UP!ProfileRead
  <1> QED
    BY <1>1, <1>2, <1>3, <1>4, <1>5, <1>6, <1>7, <1>8 DEF U!QueryStep, UP!QueryStep

LEMMA SameAccountsRequest ==
  ASSUME NEW w \in Workers, AccountsRequest(w)
  PROVE  UP!Next
  <1> USE DEF U!session, UP!session, U!serverVars, UP!serverVars, U!Arrive, UP!Arrive, U!Answer, UP!Answer,
              U!AccessExpiry, UP!AccessExpiry, U!AccessValid, UP!AccessValid, U!RefreshValid, UP!RefreshValid,
              U!Admits, UP!Admits, U!Handlers, UP!Handlers
  <1>1. U!Reject(w) => UP!Reject(w)
    BY DEF U!Reject, UP!Reject
  <1>2. ASSUME NEW S
        PROVE  U!Cardinality(S) = UP!Cardinality(S)
    BY DEF U!Cardinality, UP!Cardinality
  <1>3. ASSUME NEW e, NEW n, NEW k, U!RegisterUser(w, e, n, k)
        PROVE  UP!RegisterUser(w, e, n, k)
    BY <1>2, <1>3 DEF U!RegisterUser, UP!RegisterUser
  <1>4. ASSUME NEW n, NEW k, U!LoginUser(w, n, k)
        PROVE  UP!LoginUser(w, n, k)
    BY <1>2, <1>4 DEF U!LoginUser, UP!LoginUser, U!PairsOnTheWay, UP!PairsOnTheWay
  <1>5. ASSUME NEW i, U!RefreshToken(w, i)
        PROVE  UP!RefreshToken(w, i)
    BY <1>2, <1>5 DEF U!RefreshToken, UP!RefreshToken, U!PairsOnTheWay, UP!PairsOnTheWay
  <1>6. ASSUME NEW i, U!Profile(w, i) \/ U!LogoutUser(w, i)
        PROVE  UP!Profile(w, i) \/ UP!LogoutUser(w, i)
    BY <1>6 DEF U!Profile, UP!Profile, U!LogoutUser, UP!LogoutUser, U!BlacklistUserToken,
                UP!BlacklistUserToken, U!AddToBlackList, UP!AddToBlackList
  <1> QED
    BY <1>1, <1>3, <1>4, <1>5, <1>6 DEF AccountsRequest, UP!Next

\* A shutdown that waited for the handlers of Auction alone is one that Accounts
\* did not hold up.
LEMMA SameAccountsProcess ==
  ASSUME \/ ShutdownBegins \/ ConnectionLost \/ ProcessRestart
         \/ ShutdownEnds \/ ShutdownTimesOut \/ ProcessCrash
  PROVE  UP!Next
  <1>1. U!ProcessEnds => UP!ProcessEnds
    BY DEF U!ProcessEnds, UP!ProcessEnds, U!MayExecute, UP!MayExecute, U!Execute, UP!Execute,
           U!CreateUser, UP!CreateUser, U!Storable, UP!Storable, U!NoRequest, UP!NoRequest
  <1>2. CASE ShutdownBegins \/ ConnectionLost \/ ProcessRestart
    BY <1>2 DEF ShutdownBegins, Signal, ConnectionLost, BreakIdle, ProcessRestart, Restart, accountsVars,
                UP!ShutdownBegins, UP!Signal, UP!ConnectionLost, UP!BreakIdle, UP!ProcessRestart, UP!Restart,
                UP!session, UP!goroutines, UP!Next
  <1>3. CASE ShutdownEnds \/ ShutdownTimesOut \/ ProcessCrash
    <2> USE DEF Exit, UP!Exit
    <2>1. CASE ShutdownEnds
      BY <2>1, <1>1 DEF ShutdownEnds, ShutdownDone, ProcessEnds, Handlers, U!Handlers, UP!Handlers,
                        UP!ShutdownEnds, UP!ShutdownDone, UP!Next
    <2>2. CASE ShutdownTimesOut
      BY <2>2, <1>1 DEF ShutdownTimesOut, ShutdownTimeout, ProcessEnds, UP!ShutdownEnds, UP!ShutdownDone,
                        UP!ShutdownTimesOut, UP!ShutdownTimeout, UP!Next
    <2>3. CASE ProcessCrash
      BY <2>3, <1>1 DEF ProcessCrash, Crash, ProcessEnds, UP!ProcessCrash, UP!Crash, UP!Next
    <2> QED
      BY <1>3, <2>1, <2>2, <2>3
  <1> QED
    BY <1>2, <1>3

\* Auction touches the connection and nothing else of the process: it does not
\* open a closed one, and it closes none while nothing fails.
LEMMA AuctionKeepsProcess ==
  ASSUME NEW w \in Workers, AuctionQuery(w) \/ AuctionRequest(w)
  PROVE  /\ UNCHANGED <<server, restarts>>
         /\ conn' \in {conn, "idle", "closed", w} /\ (conn = "closed" => conn' = "closed")
         /\ Events = {} /\ conn # "closed" => conn' # "closed"
  <1>1. CASE AuctionQuery(w)
    BY <1>1, ConnStates
       DEF AuctionQuery, A!QueryStep, A!SendQuery, A!QueryFails, A!Interrupted, A!ProductAdded,
           A!ProductRead, A!BidProductRead, A!BidLatestRead, A!BidCreated, A!PriceUpdated, A!Answered,
           A!Acquire, A!Refused, A!CancelledBefore, A!Errs, A!Break, A!Release, A!serverVars
  <1>2. CASE AuctionRequest(w)
    BY <1>2 DEF AuctionRequest, A!Reject, A!GetProductByID, A!CreateProduct, A!PlaceBid, A!Arrive, A!serverVars
  <1> QED
    BY <1>1, <1>2

\* A step of Auction, which leaves users and sessions alone.
LEMMA AuctionBeside ==
  ASSUME AuctionInv, AuctionInv', UP!SessionInv, NEW w \in Workers, AuctionQuery(w) \/ AuctionRequest(w)
  PROVE  UP!SessionInv'
  <1>1. UNCHANGED accountsVars
    BY DEF AuctionQuery, AuctionRequest
  <1>2. conn' \in {"idle", "closed"} \cup Workers /\ reply' \in [Workers -> Statuses]
    BY DEF AuctionInv, AP!SafetyInv, AP!Shape, AP!ServerTypeOK, AP!GoroutinesType, Statuses, AP!Statuses
  <1>3. UNCHANGED <<server, restarts>>
    BY AuctionKeepsProcess
  <1>4. UP!ServerTypeOK' /\ UP!GoroutinesType'
    BY <1>1, <1>2, <1>3 DEF UP!SessionInv, UP!Shape, UP!ServerTypeOK, UP!GoroutinesType, UP!RegistrationShape,
                            accountsVars, Statuses, UP!Statuses
  <1> QED
    BY <1>1, <1>3, <1>4, UP!QuietSound, ServerAssumedToo, AccountsAssumed DEF accountsVars, UP!session

\* Every step of the server that Auction does not take is one that Accounts
\* takes when it runs alone.
LEMMA AccountsOrAuction ==
  ASSUME [Next]_vars
  PROVE  \/ [UP!Next]_(UP!vars)
         \/ \E w \in Workers : AuctionQuery(w) \/ AuctionRequest(w)
  <1> USE DEF U!session, UP!session, U!goroutines, UP!goroutines, U!serverVars, UP!serverVars
  <1>1. ASSUME NEW w \in Workers, AccountsQuery(w)
        PROVE  UP!Next
    BY <1>1, SameAccountsQuery DEF AccountsQuery, UP!Next
  <1>2. ASSUME NEW w \in Workers, ClientLeaves(w)
        PROVE  UP!Next
    BY <1>2 DEF ClientLeaves, U!ClientLeaves, UP!ClientLeaves, UP!Next
  <1>3. CASE Tick
    BY <1>3 DEF Tick, U!Tick, UP!Tick, UP!Next
  <1>4. CASE TimerFires
    BY <1>4 DEF TimerFires, U!TimerFires, UP!TimerFires, UP!Next
  <1>5. CASE UNCHANGED vars
    BY <1>5 DEF vars, serverVars, accountsVars, UP!vars
  <1> QED
    BY <1>1, <1>2, <1>3, <1>4, <1>5, SameAccountsRequest, SameAccountsProcess DEF Next

LEMMA SessionsStep ==
  ASSUME AuctionInv, AuctionInv', UP!SessionInv, [Next]_vars
  PROVE  UP!SessionInv'
  BY AccountsOrAuction, AuctionBeside, UP!SessionStep, ServerAssumedToo, AccountsAssumed

\* SessionInv of Accounts is an invariant of the whole server.
LEMMA SessionsInvariant == Spec => []UP!SessionInv
  <1>1. Init => UP!SessionInv
    <2>1. Init => UP!Init
      BY DEF Init, U!Init, UP!Init, U!ServerInit, UP!ServerInit, U!NoRequest, UP!NoRequest
    <2> QED
      BY <2>1, UP!SessionInit, ServerAssumedToo, AccountsAssumed
  <1>2. AuctionInv /\ AuctionInv' /\ UP!SessionInv /\ [Next]_vars => UP!SessionInv'
    BY SessionsStep
  <1> QED
    BY <1>1, <1>2, ServerInvariants, PTL DEF Spec

\* The sessions of the whole server are as sound as those of Accounts alone
\* (service/auth.go:86-106, jwt.go:127-135).
THEOREM ServerKeepsSessions == Spec => []SessionsKept
  <1>1. UP!SessionInv => SessionsKept
    <2> SUFFICES ASSUME UP!SessionInv PROVE SessionsKept
      OBVIOUS
    <2>1. U!LogoutRemembered /\ U!BlacklistTimed
      BY DEF UP!SessionInv, U!LogoutRemembered, UP!LogoutRemembered, U!BlacklistTimed, UP!BlacklistTimed,
             U!AccessValid, UP!AccessValid, U!AccessExpiry, UP!AccessExpiry
    <2>2. U!TokensNameUsers
      BY DEF UP!SessionInv, U!TokensNameUsers, UP!TokensNameUsers
    <2> QED
      BY <2>1, <2>2 DEF SessionsKept
  <1> QED
    BY SessionsInvariant, <1>1, PTL

-----------------------------------------------------------------------------
(* Profiles, while nothing fails.                                          *)

\* While nothing fails around the server, a profile request with a valid token is
\* answered with 200 unless the query of another goroutine, of either component,
\* is in flight when it issues its own: the price update of an answered bid is one
\* (service/users.go:26-41, service/products.go:140, dependencies.go:27).
THEOREM ServerProfilesFailOnlyWhenBusy ==
  ASSUME Events = {}
  PROVE  Spec => [][UP!ProfilesAnswered]_vars
  <1>1. Init => UP!CalmInv
    BY DEF Init, U!Init, U!ServerInit, UP!CalmInv
  <1>2. AuctionInv /\ AuctionInv' /\ UP!SessionInv /\ UP!CalmInv /\ [Next]_vars
           => UP!CalmInv' /\ UP!ProfilesAnswered
    <2> SUFFICES ASSUME UP!SessionInv, UP!CalmInv, [Next]_vars
                 PROVE  UP!CalmInv' /\ UP!ProfilesAnswered
      OBVIOUS
    <2>1. CASE [UP!Next]_(UP!vars)
      BY <2>1, UP!CalmStep, ServerAssumedToo, AccountsAssumed
    <2>2. ASSUME NEW w \in Workers, AuctionQuery(w) \/ AuctionRequest(w)
          PROVE  UP!CalmInv' /\ UP!ProfilesAnswered
      <3>1. UNCHANGED accountsVars
        BY <2>2 DEF AuctionQuery, AuctionRequest
      <3> QED
        BY <2>2, <3>1, AuctionKeepsProcess DEF accountsVars, UP!CalmInv, UP!ProfilesAnswered
    <2> QED
      BY <2>1, <2>2, AccountsOrAuction
  <1> QED
    BY <1>1, <1>2, SessionsInvariant, ServerInvariants, PTL DEF Spec

-----------------------------------------------------------------------------
(* Emails, when requests come one at a time.  The price update that a bid   *)
(* has left behind is beside the next request, and takes the connection    *)
(* from its lookup, its insert or both.                                    *)

ServesOne == \A w \in Workers : apc[w] = "idle" \/ upc[w] = "idle"

LEMMA AuctionQueryServes ==
  ASSUME NEW w \in Workers, AuctionQuery(w)
  PROVE  apc[w] # "idle"
  BY DEF AuctionQuery, A!QueryStep, A!SendQuery, A!QueryFails, A!Interrupted, A!FinishInError, A!ProductAdded,
         A!ProductRead, A!BidProductRead, A!BidLatestRead, A!BidCreated, A!PriceUpdated, A!Answered, A!Finish

LEMMA ServesOneStep ==
  ASSUME KeysInv, ServesOne, [Next]_vars
  PROVE  ServesOne'
  <1> USE DEF KeysInv, AccountsTyped, AuctionTyped
  <1>1. ASSUME UNCHANGED <<apc, upc>>
        PROVE  ServesOne'
    BY <1>1 DEF ServesOne
  <1>2. ASSUME NEW w \in Workers, apc[w] = "idle", UNCHANGED apc, \A x \in Workers : x # w => upc'[x] = upc[x]
        PROVE  ServesOne'
    BY <1>2 DEF ServesOne
  <1>3. ASSUME NEW w \in Workers, upc[w] = "idle", UNCHANGED upc, \A x \in Workers : x # w => apc'[x] = apc[x]
        PROVE  ServesOne'
    BY <1>3 DEF ServesOne
  <1>4. ASSUME NEW w \in Workers, AccountsQuery(w)
        PROVE  ServesOne'
    <2> U!QueryStep(w) /\ UNCHANGED apc
      BY <1>4 DEF AccountsQuery, auctionVars
    <2> USE DEF U!QueryStep, U!SendQuery, U!QueryFails, U!Interrupted, U!EmailRead, U!UserCreated,
                U!CredentialsRead, U!RefreshRead, U!ProfileRead, U!Answered, U!FailQuery
    <2>1. upc[w] # "idle"
      OBVIOUS
    <2>2. \A x \in Workers : x # w => upc'[x] = upc[x]
      BY DEF U!goroutines, U!HashAndInsert, U!Finish
    <2> QED
      BY <1>2, <2>1, <2>2 DEF ServesOne
  <1>5. ASSUME NEW w \in Workers, AuctionQuery(w)
        PROVE  ServesOne'
    <2> A!QueryStep(w) /\ UNCHANGED upc
      BY <1>5 DEF AuctionQuery, accountsVars
    <2> USE DEF A!QueryStep, A!SendQuery, A!QueryFails, A!Interrupted, A!ProductAdded, A!ProductRead,
                A!BidProductRead, A!BidLatestRead, A!BidCreated, A!PriceUpdated, A!Answered
    <2>1. apc[w] # "idle"
      BY <1>5, AuctionQueryServes
    <2>2. \A x \in Workers : x # w => apc'[x] = apc[x]
      BY DEF A!goroutines, A!FinishInError, A!Finish, A!GoOn
    <2> QED
      BY <1>3, <2>1, <2>2 DEF ServesOne
  <1>6. ASSUME NEW w \in Workers, AccountsRequest(w)
        PROVE  ServesOne'
    <2>1. apc[w] = "idle" /\ UNCHANGED apc
      BY <1>6 DEF AccountsRequest, auctionVars
    <2>2. \A x \in Workers : x # w => upc'[x] = upc[x]
      BY <1>6 DEF AccountsRequest, U!Reject, U!Answer, U!RegisterUser, U!LoginUser, U!RefreshToken, U!Profile,
                  U!LogoutUser, U!Arrive
    <2> QED
      BY <1>2, <2>1, <2>2
  <1>7. ASSUME NEW w \in Workers, AuctionRequest(w)
        PROVE  ServesOne'
    <2>1. upc[w] = "idle" /\ UNCHANGED upc
      BY <1>7 DEF AuctionRequest, accountsVars
    <2>2. \A x \in Workers : x # w => apc'[x] = apc[x]
      BY <1>7 DEF AuctionRequest, A!Reject, A!GetProductByID, A!CreateProduct, A!PlaceBid, A!Arrive
    <2> QED
      BY <1>3, <2>1, <2>2
  <1>8. CASE \/ UNCHANGED vars \/ Tick \/ TimerFires \/ \E w \in Workers : ClientLeaves(w)
             \/ ShutdownBegins \/ ConnectionLost \/ ProcessRestart
    BY <1>1, <1>8 DEF vars, Tick, U!Tick, TimerFires, U!TimerFires, U!goroutines, ClientLeaves, U!ClientLeaves,
       ShutdownBegins, ConnectionLost, ProcessRestart, accountsVars, auctionVars
  <1>9. CASE ShutdownEnds \/ ShutdownTimesOut \/ ProcessCrash
    BY <1>9 DEF ShutdownEnds, ShutdownTimesOut, ProcessCrash, ProcessEnds, U!ProcessEnds, A!GoroutinesEnd,
                ServesOne
  <1> QED
    BY <1>4, <1>5, <1>6, <1>7, <1>8, <1>9 DEF Next

\* A query of Auction may take the connection from a registration and give it
\* back, but not the one that the registration holds.
LEMMA EmailsBeside ==
  ASSUME ServesOne, UP!EmailInv, NEW w \in Workers, AuctionQuery(w) \/ AuctionRequest(w)
  PROVE  UP!EmailInv'
  <1>1. UNCHANGED accountsVars /\ server' = server
    BY AuctionKeepsProcess DEF AuctionQuery, AuctionRequest
  <1>2. upc[w] = "idle"
    BY AuctionQueryServes DEF ServesOne, AuctionRequest
  <1>3. UP!EmailsChecked' /\ UP!OneHandler' /\ (server' = "down" => UP!Handlers' = {})
    BY <1>1 DEF UP!EmailInv, UP!EmailsChecked, UP!OneHandler, UP!Handlers, accountsVars
  <1>4. UP!InsertsFindEmailFree'
    <2> SUFFICES ASSUME NEW x \in Workers, upc'[x] = "createUser"
                 PROVE  \/ conn' = "closed"
                        \/ conn' # x /\ x \in gone'
                        \/ ureq'[x].blind
                        \/ {i \in 1..Len(users') : users'[i].email = ureq'[x].email} = {}
      BY DEF UP!InsertsFindEmailFree, UP!RowsByEmail
    <2>1. upc[x] = "createUser" /\ x # w /\ UNCHANGED <<gone, ureq, users>>
      BY <1>1, <1>2 DEF accountsVars
    <2>2. conn # x => conn' # x
      BY <2>1, AuctionKeepsProcess, ConnStates
    <2>3. \/ conn = "closed"
          \/ conn # x /\ x \in gone
          \/ ureq[x].blind
          \/ {i \in 1..Len(users) : users[i].email = ureq[x].email} = {}
      BY <2>1 DEF UP!EmailInv, UP!InsertsFindEmailFree, UP!RowsByEmail
    <2> QED
      BY <2>1, <2>2, <2>3, AuctionKeepsProcess
  <1> QED
    BY <1>3, <1>4 DEF UP!EmailInv

LEMMA EmailsStep ==
  ASSUME Sequential, ServesOne, UP!SessionInv, UP!EmailInv, [Next]_vars
  PROVE  UP!EmailInv'
  <1>1. ASSUME [UP!Next]_(UP!vars)
        PROVE  UP!EmailInv'
    <2>1. UP!Shape
      BY DEF UP!SessionInv
    <2> QED
      BY <1>1, <2>1, UP!EmailStep, ServerAssumedToo, AccountsAssumed
  <1> QED
    BY <1>1, EmailsBeside, AccountsOrAuction

\* When requests come one at a time, a second row with an email is the work of a
\* registration whose lookup failed on a connection that survived, for a client
\* that stayed, also with the price updates of answered bids and whatever fails
\* beside it: no query of Auction makes an insert succeed that was to fail, nor a
\* lookup that was answered stale (service/auth.go:43-60, service/products.go:140).
THEOREM ServerEmailsChecked == Spec => []U!EmailsChecked
  <1>1. CASE Sequential
    <2>1. Init => ServesOne /\ UP!EmailInv
      BY DEF Init, U!Init, U!ServerInit, A!Init, ServesOne, UP!EmailInv, UP!EmailsChecked,
             UP!InsertsFindEmailFree, UP!OneHandler, UP!Handlers
    <2>2. KeysInv /\ ServesOne /\ [Next]_vars => ServesOne'
      BY ServesOneStep
    <2>3. ServesOne /\ UP!SessionInv /\ UP!EmailInv /\ [Next]_vars => UP!EmailInv'
      BY <1>1, EmailsStep
    <2>4. UP!EmailInv => U!EmailsChecked
      BY DEF UP!EmailInv, UP!EmailsChecked, U!EmailsChecked
    <2> QED
      BY <2>1, <2>2, <2>3, <2>4, SessionsInvariant, ServerInvariants, PTL DEF Spec
  <1>2. CASE ~Sequential
    <2>1. U!EmailsChecked
      BY <1>2 DEF U!EmailsChecked
    <2> QED
      BY <2>1, PTL
  <1> QED
    BY <1>1, <1>2
=============================================================================
