------------------------------- MODULE Accounts -------------------------------
(***************************************************************************)
(* Users and sessions: registration, login, refresh, logout and profile,   *)
(* run by concurrent goroutines over the one database connection of module *)
(* Server, with the JWT manager's blacklist in the memory of the process.  *)
(*                                                                         *)
(* A login or a refresh issues a pair of tokens, an access token and a     *)
(* refresh token, that differ only in their life: a pair is known by its   *)
(* position in "pairs".  Passwords stand for their hashes.  The cookie is  *)
(* the client's: a request may present any token ever issued.              *)
(***************************************************************************)
EXTENDS Server, Sequences, FiniteSets

CONSTANTS
    Emails, Usernames, Passwords,   \* what clients type
    Unhashable,    \* the passwords bcrypt refuses: longer than 72 bytes
    Oversized,     \* the emails and user names longer than their columns
    None,          \* no value
    AccessTTL,     \* life of an access token, in ticks of the clock
    RefreshTTL,    \* life of a refresh token
    MaxTime,       \* bound on the clock
    MaxUsers,      \* bound on the registrations that may succeed
    MaxPairs       \* bound on the logins and refreshes that may succeed

ASSUME AccountsAssumption ==
    /\ Unhashable \subseteq Passwords
    /\ Oversized \subseteq Emails \cup Usernames
    /\ None \notin Emails \cup Usernames \cup Passwords \cup Nat
    /\ AccessTTL \in Nat \ {0} /\ RefreshTTL \in Nat /\ RefreshTTL >= AccessTTL
    /\ MaxTime \in Nat /\ MaxUsers \in Nat /\ MaxPairs \in Nat

VARIABLES
    users,      \* the rows of users; a row's position is its id
    pairs,      \* the token pairs issued: whose, and when
    now,        \* the clock
    blacklist,  \* pairs whose access token is in JwtManager.tokens
    timers,     \* the pending time.AfterFunc calls that take one out
    loggedOut,  \* pairs this process has logged out (kept for the properties)
    pc,         \* the query each goroutine is at
    req,        \* the request it works on
    reply,      \* the status of its last response
    gone        \* handlers whose client has gone away: their context is cancelled

session == <<pairs, now, blacklist, timers, loggedOut>>
goroutines == <<pc, req, reply, gone>>
vars == <<serverVars, users, session, goroutines>>

Queries == {"byEmail", "createUser", "byUsername", "refreshUser", "profileUser"}
\* "blind" is kept for the properties: the lookup before the insert failed, and
\* neither the connection nor the client was gone.
Row == [email : Emails, username : Usernames, password : Passwords, blind : BOOLEAN]
Pair == [user : Nat, at : Nat]
Timer == [pair : Nat, at : Nat]
Request ==
    [email : Emails \cup {None}, username : Usernames \cup {None},
     password : Passwords \cup {None}, pair : Nat \cup {None}, blind : BOOLEAN]
NoRequest ==
    [email |-> None, username |-> None, password |-> None, pair |-> None, blind |-> FALSE]

Handlers == {w \in Workers : pc[w] # "idle"}

AccessExpiry(i) == pairs[i].at + AccessTTL
AccessValid(i) == now < AccessExpiry(i)
RefreshValid(i) == now < pairs[i].at + RefreshTTL

TypeOK ==
    /\ ServerTypeOK
    /\ users \in Seq(Row)
    /\ pairs \in Seq(Pair)
    /\ now \in Nat
    /\ blacklist \subseteq Nat
    /\ timers \subseteq Timer
    /\ loggedOut \subseteq Nat
    /\ pc \in [Workers -> Queries \cup {"idle"}]
    /\ req \in [Workers -> Request]
    /\ reply \in [Workers -> Statuses]
    /\ gone \subseteq Workers

Init ==
    /\ ServerInit
    /\ users = << >>
    /\ pairs = << >>
    /\ now = 0
    /\ blacklist = {} /\ timers = {} /\ loggedOut = {}
    /\ pc = [w \in Workers |-> "idle"]
    /\ req = [w \in Workers |-> NoRequest]
    /\ reply = [w \in Workers |-> "none"]
    /\ gone = {}

-----------------------------------------------------------------------------
(* The users table. *)

Storable(r) == {r.email, r.username} \cap Oversized = {}

\* Postgres refuses a value that is too long for its column; the connection
\* survives.
CreateUser(r) ==
    IF Storable(r)
    THEN users' = Append(users, [email |-> r.email, username |-> r.username,
                                 password |-> r.password, blind |-> r.blind])
    ELSE UNCHANGED users

\* What Postgres does with the statement goroutine w has in flight.
Execute(w) == IF pc[w] = "createUser" THEN CreateUser(req[w]) ELSE UNCHANGED users

MayExecute(w) == Execute(w) \/ UNCHANGED users

\* The rows a SELECT ... LIMIT 1 without ORDER BY may return.
RowsByEmail(e) == {i \in 1..Len(users) : users[i].email = e}
RowsByUsername(n) == {i \in 1..Len(users) : users[i].username = n}

-----------------------------------------------------------------------------
(* Goroutines. *)

Finish(w, status) ==
    /\ pc' = [pc EXCEPT ![w] = "idle"]
    /\ req' = [req EXCEPT ![w] = NoRequest]
    /\ reply' = [reply EXCEPT ![w] = status]
    /\ gone' = gone \ {w}

\* HashPassword: bcrypt refuses a password that is too long.
Hashable(k) == k \notin Unhashable

\* ComparePassword: is k the password of row i?
Matches(i, k) == users[i].password = k

\* AddUser, lines 49 to 60: hash the password, then insert.
HashAndInsert(w, blind) ==
    IF Hashable(req[w].password)
    THEN /\ pc' = [pc EXCEPT ![w] = "createUser"]
         /\ req' = [req EXCEPT ![w].blind = blind]
         /\ UNCHANGED <<reply, gone>>
    ELSE Finish(w, "500")

\* A query failed.  AddUser drops the error of its first query and goes on as if
\* no user had the email (line 43), also when the connection and the client are
\* still there and the insert may succeed; GetUserByID turns every error into
\* ErrUserNotFound, and ValidateUser into invalid credentials.
FailQuery(w) ==
    \/ pc[w] = "byEmail" /\ HashAndInsert(w, conn' # "closed" /\ w \notin gone)
    \/ pc[w] = "createUser" /\ Finish(w, "500")
    \/ pc[w] \in {"byUsername", "refreshUser"} /\ Finish(w, "401")
    \/ pc[w] = "profileUser" /\ Finish(w, "404")

Arrive(w, query, r) ==
    /\ Admits(Handlers)
    /\ pc[w] = "idle"
    /\ pc' = [pc EXCEPT ![w] = query]
    /\ req' = [req EXCEPT ![w] = r]
    /\ reply' = [reply EXCEPT ![w] = "none"]
    /\ UNCHANGED <<serverVars, users, session, gone>>

\* A request answered before any query, and without effect.
Answer(w, status) ==
    /\ Admits(Handlers)
    /\ pc[w] = "idle"
    /\ reply' = [reply EXCEPT ![w] = status]
    /\ UNCHANGED <<serverVars, users, session, pc, req, gone>>

\* A malformed or invalid body, or a missing cookie or token.
Reject(w) == \E status \in {"400", "401"} : Answer(w, status)

RegisterUser(w, e, n, k) ==
    /\ Len(users) + Cardinality({x \in Workers : pc[x] \in {"byEmail", "createUser"}}) < MaxUsers
    /\ Arrive(w, "byEmail", [email |-> e, username |-> n, password |-> k, pair |-> None, blind |-> FALSE])

PairsOnTheWay == {x \in Workers : pc[x] \in {"byUsername", "refreshUser"}}

LoginUser(w, n, k) ==
    /\ Len(pairs) + Cardinality(PairsOnTheWay) < MaxPairs
    /\ Arrive(w, "byUsername", [email |-> None, username |-> n, password |-> k, pair |-> None, blind |-> FALSE])

RefreshToken(w, i) ==
    \/ ~RefreshValid(i) /\ Answer(w, "401")
    \/ /\ RefreshValid(i)
       /\ Len(pairs) + Cardinality(PairsOnTheWay) < MaxPairs
       /\ Arrive(w, "refreshUser", [email |-> None, username |-> None, password |-> None, pair |-> i, blind |-> FALSE])

\* AuthMiddleware, then the handler.  The middleware checks the signature and
\* the expiry, not the blacklist.
Profile(w, i) ==
    \/ ~AccessValid(i) /\ Answer(w, "401")
    \/ /\ AccessValid(i)
       /\ Arrive(w, "profileUser", [email |-> None, username |-> None, password |-> None, pair |-> i, blind |-> FALSE])

\* Mutant of AddToBlackList: a fixed life instead of the token's.
AddToBlackListFixedLife(i) ==
    /\ blacklist' = blacklist \cup {i}
    /\ timers' = timers \cup {[pair |-> i, at |-> now + 1]}

\* Mutant of AddToBlackList: no timer takes the token out again.
AddToBlackListUntimed(i) ==
    /\ blacklist' = blacklist \cup {i}
    /\ UNCHANGED timers

\* The token is stored, and a timer takes it out when it has expired.
AddToBlackList(i) ==
    /\ blacklist' = blacklist \cup {i}
    /\ timers' = timers \cup {[pair |-> i, at |-> AccessExpiry(i)]}

\* Mutant of BlacklistUserToken: the claims of a token that was not accepted are
\* used, and the empty id is blacklisted.
BlacklistUserTokenUnchecked(i) ==
    IF AccessValid(i)
    THEN AddToBlackList(i) /\ loggedOut' = loggedOut \cup {i}
    ELSE blacklist' = blacklist \cup {None} /\ UNCHANGED <<timers, loggedOut>>

\* An expired token is left alone, without an error.
BlacklistUserToken(i) ==
    IF AccessValid(i)
    THEN AddToBlackList(i) /\ loggedOut' = loggedOut \cup {i}
    ELSE UNCHANGED <<blacklist, timers, loggedOut>>

\* LogoutUser makes no query.  Without an access token it only clears the
\* cookie, which is the client's.
LogoutUser(w, i) ==
    /\ Admits(Handlers)
    /\ pc[w] = "idle"
    /\ BlacklistUserToken(i)
    /\ reply' = [reply EXCEPT ![w] = "200"]
    /\ UNCHANGED <<serverVars, users, pairs, now, pc, req, gone>>

-----------------------------------------------------------------------------
(* Queries. *)

SendQuery(w) ==
    /\ pc[w] # "idle" /\ w \notin gone
    /\ Acquire(w)
    /\ UNCHANGED <<users, session, goroutines>>

\* Mutant of QueryFails: a refused query is tried again until it is sent.
QueryFailsRetrying(w) ==
    /\ pc[w] # "idle"
    /\ (w \in gone /\ CancelledBefore(w)) \/ Errs(w)
    /\ FailQuery(w)
    /\ UNCHANGED <<users, session>>

\* The query is refused, or its context is cancelled before it is sent, or Postgres
\* answers with an error.
QueryFails(w) ==
    /\ pc[w] # "idle"
    /\ Refused(w) \/ (w \in gone /\ CancelledBefore(w)) \/ Errs(w)
    /\ FailQuery(w)
    /\ UNCHANGED <<users, session>>

Interrupted(w) ==
    /\ Break(w, w \in gone)
    /\ MayExecute(w)
    /\ FailQuery(w)
    /\ UNCHANGED session

Answered(w, query) == pc[w] = query /\ Release(w) /\ Execute(w)

\* Mutant of EmailRead: the row that was found is dropped with the error.
EmailReadUnchecked(w) ==
    /\ Answered(w, "byEmail")
    /\ HashAndInsert(w, FALSE)
    /\ UNCHANGED session

\* AddUser, lines 43 to 52.
EmailRead(w) ==
    /\ Answered(w, "byEmail")
    /\ IF RowsByEmail(req[w].email) # {} THEN Finish(w, "409") ELSE HashAndInsert(w, FALSE)
    /\ UNCHANGED session

UserCreated(w) ==
    /\ Answered(w, "createUser")
    /\ Finish(w, IF Storable(req[w]) THEN "201" ELSE "500")
    /\ UNCHANGED session

GenerateTokenPair(u) ==
    /\ pairs' = Append(pairs, [user |-> u, at |-> now])
    /\ UNCHANGED <<now, blacklist, timers, loggedOut>>

\* Mutant of CredentialsRead: the error of the lookup is dropped, and the zero
\* user gets tokens.
CredentialsReadUnchecked(w) ==
    LET found == RowsByUsername(req[w].username) IN
    /\ Answered(w, "byUsername")
    /\ \/ found = {} /\ GenerateTokenPair(0) /\ Finish(w, "200")
       \/ \E u \in found :
             IF Matches(u, req[w].password)
             THEN GenerateTokenPair(u) /\ Finish(w, "200")
             ELSE Finish(w, "401") /\ UNCHANGED session

\* ValidateUser and the rest of LoginUser.
CredentialsRead(w) ==
    LET found == RowsByUsername(req[w].username) IN
    /\ Answered(w, "byUsername")
    /\ \/ found = {} /\ Finish(w, "401") /\ UNCHANGED session
       \/ \E u \in found :
             IF Matches(u, req[w].password)
             THEN GenerateTokenPair(u) /\ Finish(w, "200")
             ELSE Finish(w, "401") /\ UNCHANGED session

\* GetUserByID, for RefreshToken and Profile.
UserExists(w) == pairs[req[w].pair].user \in 1..Len(users)

RefreshRead(w) ==
    /\ Answered(w, "refreshUser")
    /\ \/ ~UserExists(w) /\ Finish(w, "401") /\ UNCHANGED session
       \/ UserExists(w) /\ GenerateTokenPair(pairs[req[w].pair].user) /\ Finish(w, "200")

ProfileRead(w) ==
    /\ Answered(w, "profileUser")
    /\ Finish(w, IF UserExists(w) THEN "200" ELSE "404")
    /\ UNCHANGED session

-----------------------------------------------------------------------------
(* The environment and the process. *)

ClientLeaves(w) ==
    /\ "disconnect" \in Events
    /\ pc[w] # "idle"
    /\ gone' = gone \cup {w}
    /\ UNCHANGED <<serverVars, users, session, pc, req, reply>>

Tick ==
    /\ now < MaxTime
    /\ now' = now + 1
    /\ UNCHANGED <<serverVars, users, pairs, blacklist, timers, loggedOut, goroutines>>

\* A timer fires at its time or later.
TimerFires(t) ==
    /\ t \in timers
    /\ now >= t.at
    /\ timers' = timers \ {t}
    /\ blacklist' = blacklist \ {t.pair}
    /\ UNCHANGED <<serverVars, users, pairs, now, loggedOut, goroutines>>

ShutdownBegins == Signal /\ UNCHANGED <<users, session, goroutines>>

ConnectionLost == BreakIdle /\ UNCHANGED <<users, session, goroutines>>

\* The blacklist and its timers end with the process, as the goroutines do.
ProcessEnds ==
    /\ conn \in Workers => MayExecute(conn)
    /\ conn \notin Workers => UNCHANGED users
    /\ blacklist' = {} /\ timers' = {}
    /\ pc' = [w \in Workers |-> "idle"]
    /\ req' = [w \in Workers |-> NoRequest]
    /\ gone' = {}
    /\ UNCHANGED <<pairs, now, loggedOut, reply>>

ShutdownEnds == ShutdownDone(Handlers) /\ ProcessEnds

ShutdownTimesOut == ShutdownTimeout(Handlers) /\ ProcessEnds

ProcessCrash == Crash /\ ProcessEnds

ProcessRestart == Restart /\ UNCHANGED <<users, session, goroutines>>

-----------------------------------------------------------------------------
QueryStep(w) ==
    \/ SendQuery(w)
    \/ QueryFails(w)
    \/ Interrupted(w)
    \/ EmailRead(w)
    \/ UserCreated(w)
    \/ CredentialsRead(w)
    \/ RefreshRead(w)
    \/ ProfileRead(w)

Next ==
    \/ \E w \in Workers : QueryStep(w) \/ Reject(w) \/ ClientLeaves(w)
    \/ \E w \in Workers, e \in Emails, n \in Usernames, k \in Passwords : RegisterUser(w, e, n, k)
    \/ \E w \in Workers, n \in Usernames, k \in Passwords : LoginUser(w, n, k)
    \/ \E w \in Workers, i \in 1..Len(pairs) : RefreshToken(w, i) \/ Profile(w, i) \/ LogoutUser(w, i)
    \/ \E t \in timers : TimerFires(t)
    \/ Tick
    \/ ShutdownBegins
    \/ ConnectionLost
    \/ ShutdownEnds
    \/ ShutdownTimesOut
    \/ ProcessCrash
    \/ ProcessRestart

Spec == Init /\ [][Next]_vars

\* Goroutines run and Postgres answers, as in Auction; the clock advances and
\* the runtime fires the timers that are due.
FairSpec ==
    /\ Spec
    /\ \A w \in Workers : WF_vars(QueryStep(w))
    /\ WF_vars(Tick)
    /\ WF_vars(\E t \in timers : TimerFires(t))

-----------------------------------------------------------------------------
(* Properties. *)

\* No two rows have the same email (service/auth.go:43-47, answered 409).  The
\* table has no UNIQUE constraint, AddUser checks in one query and inserts in
\* another, and it drops the error of the check.  Two registrations at once break
\* this, and so does one whose lookup fails while its insert does not.
EmailsUnique ==
    \A i, j \in 1..Len(users) : users[i].email = users[j].email => i = j

\* When requests come one at a time, a second row with an email is always the work
\* of a registration whose lookup failed and left the connection and the client
\* in place: it found the connection busy, or Postgres answered with an error.
\* Lost connections, clients that leave, crashes and restarts make none, though
\* the error of the lookup is dropped for them too (service/auth.go:43-60).
EmailsChecked ==
    Sequential =>
        \A i, j \in 1..Len(users) :
            i < j /\ users[i].email = users[j].email => users[j].blind

\* Every token names a row of users, across crashes and restarts: the seller_id
\* and user_id that CreateProduct and PlaceBid take from the claims satisfy the
\* foreign keys (service/auth.go:78, handlers/users.go:188).
TokensNameUsers ==
    \A i \in 1..Len(pairs) : pairs[i].user \in 1..Len(users)

\* An access token that was logged out is in the blacklist as long as it has not
\* expired, however often and whenever its owner logs out again
\* (service/auth.go:90-95, jwt.go:127-135).  The blacklist is in memory: this
\* holds in the process that was started first, and a restart forgets.
LogoutRemembered ==
    server # "down" /\ restarts = 0 =>
        \A i \in loggedOut : AccessValid(i) => i \in blacklist

\* Every entry of the blacklist has a pending timer, due exactly when its token
\* expires: no order of logouts, timers, process ends and restarts leaves an entry
\* that nothing takes out, or one that is taken out too early (jwt.go:128-132).
BlacklistTimed ==
    \A i \in blacklist : [pair |-> i, at |-> AccessExpiry(i)] \in timers

\* Nothing stays in the blacklist after its token has expired (jwt.go:130-132);
\* stated of the tokens that expire before the clock's bound.
BlacklistForgets ==
    \A i \in 1..MaxPairs :
        (i \in blacklist /\ AccessExpiry(i) <= MaxTime) ~> (i \notin blacklist)

\* Every request is answered, whatever happens to the connection and to its
\* client, unless the process ends first.
RequestsAnswered ==
    \A w \in Workers : (pc[w] # "idle") ~> (reply[w] # "none" \/ server = "down")

\* While nothing fails around the server, every profile request with a valid
\* token succeeds (tests/users_test.go:268).
ProfilesSucceed ==
    [][\A w \in Workers : pc[w] = "profileUser" /\ pc'[w] = "idle" => reply'[w] = "200"]_vars

\* A login with the username and password of a row succeeds
\* (handlers/users.go:97, "Login a user with username and password").
CredentialsSuffice ==
    [][\A w \in Workers :
          pc[w] = "byUsername" /\ pc'[w] = "idle" /\ reply'[w] = "401" =>
              \A i \in RowsByUsername(req[w].username) : ~Matches(i, req[w].password)]_vars
=============================================================================
