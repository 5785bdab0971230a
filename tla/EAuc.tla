-------------------------------- MODULE EAuc --------------------------------
(***************************************************************************)
(* The server as a whole: Accounts and Auction in one process, over the    *)
(* one database connection.  A goroutine serves a request of either; the   *)
(* components share the connection and the life of the process and nothing *)
(* else in memory, and the id of a user goes from one to the other in the  *)
(* claims of an access token.                                              *)
(*                                                                         *)
(* CreateProduct and PlaceBid are behind the middleware: their user is the *)
(* one the token names, checked when the request arrives and not again.    *)
(***************************************************************************)
EXTENDS Server, Integers, Sequences, FiniteSets

CONSTANTS
    None,
    Emails, Usernames, Passwords, Unhashable, Oversized,
    AccessTTL, RefreshTTL, MaxTime, MaxUsers, MaxPairs,
    Products, StartPrices, Amounts, MaxBids, Overlap

\* The assumptions of the two components; goroutines are finitely many.
ASSUME EAucAssumption ==
    /\ IsFiniteSet(Workers)
    /\ Unhashable \subseteq Passwords
    /\ Oversized \subseteq Emails \cup Usernames
    /\ None \notin Emails \cup Usernames \cup Passwords \cup Products \cup Nat
    /\ AccessTTL \in Nat \ {0} /\ RefreshTTL \in Nat /\ RefreshTTL >= AccessTTL
    /\ MaxTime \in Nat /\ MaxUsers \in Nat /\ MaxPairs \in Nat
    /\ StartPrices \subseteq Nat \ {0}
    /\ Amounts \subseteq Int
    /\ MaxBids \in Nat
    /\ Overlap \in BOOLEAN

VARIABLES
    \* of Accounts
    users, pairs, now, blacklist, timers, loggedOut, upc, ureq, gone,
    \* of Auction
    seller, start, price, bids, acked, apc, areq,
    \* of both
    reply

accountsVars == <<users, pairs, now, blacklist, timers, loggedOut, upc, ureq, gone>>
auctionVars == <<seller, start, price, bids, acked, apc, areq>>
vars == <<serverVars, accountsVars, auctionVars, reply>>

U == INSTANCE Accounts WITH pc <- upc, req <- ureq

A == INSTANCE AuctionRefinement
        WITH Users <- 1..MaxUsers, pc <- apc, req <- areq

Init == U!Init /\ A!Init

-----------------------------------------------------------------------------
(* The components: a goroutine that is at work for one of them is not free *)
(* for the other.  Clients that send one request at a time wait for the    *)
(* requests of both.                                                       *)

Handlers == U!Handlers \cup A!Handlers

AccountsQuery(w) == U!QueryStep(w) /\ UNCHANGED auctionVars

AuctionQuery(w) == A!QueryStep(w) /\ UNCHANGED accountsVars

\* A request to one of the routes of AuthRoutes and UserRoutes.
AccountsRequest(w) ==
    /\ Admits(Handlers) /\ apc[w] = "idle"
    /\ \/ U!Reject(w)
       \/ \E e \in Emails, n \in Usernames, k \in Passwords : U!RegisterUser(w, e, n, k)
       \/ \E n \in Usernames, k \in Passwords : U!LoginUser(w, n, k)
       \/ \E i \in 1..Len(pairs) : U!RefreshToken(w, i) \/ U!Profile(w, i) \/ U!LogoutUser(w, i)
    /\ UNCHANGED auctionVars

\* The users in the claims that the middleware lets through.
Claims == {pairs[i].user : i \in {j \in 1..Len(pairs) : U!AccessValid(j)}}

\* A request to one of ProductRoutes.
AuctionRequest(w) ==
    /\ Admits(Handlers) /\ upc[w] = "idle"
    /\ \/ A!Reject(w)
       \/ \E p \in Products : A!GetProductByID(w, p)
       \/ \E u \in Claims, p \in Products :
             \/ \E c \in StartPrices : A!CreateProduct(w, u, p, c)
             \/ \E a \in Amounts : A!PlaceBid(w, u, p, a)
    /\ UNCHANGED accountsVars

ClientLeaves(w) == U!ClientLeaves(w) /\ UNCHANGED auctionVars

Tick == U!Tick /\ UNCHANGED auctionVars

TimerFires == (\E t \in timers : U!TimerFires(t)) /\ UNCHANGED auctionVars

-----------------------------------------------------------------------------
(* The process. *)

ShutdownBegins == Signal /\ UNCHANGED <<accountsVars, auctionVars, reply>>

ConnectionLost == BreakIdle /\ UNCHANGED <<accountsVars, auctionVars, reply>>

ProcessEnds == U!ProcessEnds /\ A!GoroutinesEnd

ShutdownEnds == ShutdownDone(Handlers) /\ ProcessEnds

ShutdownTimesOut == ShutdownTimeout(Handlers) /\ ProcessEnds

ProcessCrash == Crash /\ ProcessEnds

ProcessRestart == Restart /\ UNCHANGED <<accountsVars, auctionVars, reply>>

-----------------------------------------------------------------------------
Next ==
    \/ \E w \in Workers : AccountsQuery(w) \/ AuctionQuery(w)
    \/ \E w \in Workers : AccountsRequest(w) \/ AuctionRequest(w) \/ ClientLeaves(w)
    \/ Tick
    \/ TimerFires
    \/ ShutdownBegins
    \/ ConnectionLost
    \/ ShutdownEnds
    \/ ShutdownTimesOut
    \/ ProcessCrash
    \/ ProcessRestart

Spec == Init /\ [][Next]_vars

-----------------------------------------------------------------------------
(* Properties. *)

\* No insert is ever refused by a foreign key: the seller of every product, the
\* user of every bid and those of the inserts on their way are rows of users,
\* although no handler looks the user up and the token may be older than the
\* process (migrations 02 and 03, "REFERENCES users(id)").  Auction takes its
\* users for granted on this account.
ForeignKeys ==
    /\ \A p \in Products :
          /\ seller[p] # None => seller[p] \in 1..Len(users)
          /\ \A i \in 1..Len(bids[p]) : bids[p][i].user \in 1..Len(users)
    /\ \A w \in Workers : areq[w].user # None => areq[w].user \in 1..Len(users)

\* The connection is never busy on behalf of a goroutine that has ended, though
\* the two components know nothing of each other (dependencies.go:27).
ConnectionReturned == conn \in Workers => apc[conn] # "idle" \/ upc[conn] # "idle"

\* No two users have the same email (handlers/users.go:81, "user already exists
\* with same email and username").
EmailsUnique == U!EmailsUnique

\* What Auction promises it promises in the whole server too.
ImplementsLedger == A!ImplementsLedger

\* The bids and prices are as sound beside Accounts as they are alone: a bid is
\* legal when it is stored, backs the price when it is published, is never lost
\* once it is answered with 200, and is not stored when it is answered with an
\* error, although requests of Accounts take the connection, hold it across the
\* handler's checks and lose it (service/products.go:98-153, dependencies.go:33).
PromisesKept ==
    /\ A!BidsAboveStart
    /\ A!PriceBacked
    /\ A!AckedBidsStored
    /\ A!NoSelfBid
    /\ A!ErrorMeansNotStored
    /\ ~Overlap => A!NoConsecutiveBids

\* Sessions are as sound beside Auction as they are alone: a logout is remembered
\* until its token expires, every entry of the blacklist has its timer, and every
\* token names a row, although the goroutines, the connection and the life of
\* the process are shared (service/auth.go:86-106, jwt.go:127-135).
SessionsKept ==
    /\ U!LogoutRemembered
    /\ U!BlacklistTimed
    /\ U!TokensNameUsers
=============================================================================
