---------------------------- MODULE AccountsProofs ----------------------------
(***************************************************************************)
(* Accounts for every number of users, tokens and goroutines: types, that  *)
(* every token names a user, and that a logout is remembered.  Then, for   *)
(* requests one at a time, where a second row with an email comes from.    *)
(***************************************************************************)
EXTENDS AccountsInvariant, TLAPS

\* The table only grows.
UsersGrow == users' \in Seq(Row) /\ Len(users') >= Len(users)

\* The tokens only grow, by a token of a user of the table.
TokensGrow ==
    \/ pairs' = pairs
    \/ \E u \in 1..Len(users) : pairs' = Append(pairs, [user |-> u, at |-> now])

LEMMA SessionInit == Init => SessionInv
  <1> SUFFICES ASSUME Init PROVE SessionInv
    OBVIOUS
  <1>1. Shape
    BY DEF Init, Shape, ServerInit, ServerTypeOK, SessionType, GoroutinesType, RegistrationShape,
           NoRequest, Request, Statuses, Queries
  <1>2. TokensNameUsers /\ TimersOnTime /\ BlacklistTimed /\ LogoutRemembered
    BY DEF Init, TokensNameUsers, TimersOnTime, BlacklistTimed, LogoutRemembered
  <1> QED
    BY <1>1, <1>2 DEF SessionInv

-----------------------------------------------------------------------------
(* Types. *)

LEMMA FinishType ==
  ASSUME GoroutinesType, NEW w \in Workers, NEW status \in Statuses, Finish(w, status)
  PROVE  GoroutinesType'
  <1>1. NoRequest \in Request
    BY DEF NoRequest, Request
  <1>2. ASSUME NEW x \in Workers
        PROVE  RegistrationShape(x)'
    BY DEF GoroutinesType, Finish, RegistrationShape
  <1> QED
    BY <1>1, <1>2 DEF GoroutinesType, Finish

\* The request goes on to its insert.
Hashed(w, blind) ==
    /\ pc' = [pc EXCEPT ![w] = "createUser"]
    /\ req' = [req EXCEPT ![w].blind = blind]
    /\ UNCHANGED <<reply, gone>>

LEMMA HashedRequest ==
  ASSUME GoroutinesType, NEW w \in Workers, NEW blind \in BOOLEAN, Hashed(w, blind)
  PROVE  /\ req' \in [Workers -> Request]
         /\ \A x \in Workers : x # w => req'[x] = req[x]
         /\ req'[w].blind = blind
         /\ req'[w].email = req[w].email /\ req'[w].username = req[w].username
         /\ req'[w].password = req[w].password
  <1>1. req[w] \in Request
    BY DEF GoroutinesType
  <1>2. /\ [req[w] EXCEPT !.blind = blind] \in Request
        /\ req' = [req EXCEPT ![w] = [req[w] EXCEPT !.blind = blind]]
    BY <1>1 DEF Request, Hashed
  <1> QED
    BY <1>1, <1>2 DEF GoroutinesType, Request

LEMMA HashAndInsertType ==
  ASSUME GoroutinesType, NEW w \in Workers, pc[w] = "byEmail", NEW blind \in BOOLEAN, HashAndInsert(w, blind)
  PROVE  GoroutinesType'
  <1>1. CASE Finish(w, "500")
    BY <1>1, FinishType DEF Statuses
  <1>2. CASE Hashed(w, blind)
    <2>1. ASSUME NEW x \in Workers
          PROVE  RegistrationShape(x)'
      BY <1>2, HashedRequest DEF GoroutinesType, Hashed, RegistrationShape
    <2> QED
      BY <1>2, <2>1, HashedRequest DEF GoroutinesType, Hashed, Queries
  <1> QED
    BY <1>1, <1>2 DEF HashAndInsert, Hashed

LEMMA FailQueryType ==
  ASSUME GoroutinesType, NEW w \in Workers, FailQuery(w)
  PROVE  GoroutinesType'
  BY FinishType, HashAndInsertType DEF FailQuery, Statuses

LEMMA ArriveType ==
  ASSUME GoroutinesType, NEW w \in Workers, NEW query \in Queries, NEW r \in Request,
         query \in {"byEmail", "createUser"} =>
             r.email \in Emails /\ r.username \in Usernames /\ r.password \in Passwords,
         Arrive(w, query, r)
  PROVE  GoroutinesType'
  <1>1. ASSUME NEW x \in Workers
        PROVE  RegistrationShape(x)'
    BY DEF GoroutinesType, Arrive, RegistrationShape
  <1> QED
    BY <1>1 DEF GoroutinesType, Arrive, Statuses

LEMMA ExecuteGrows ==
  ASSUME Shape, NEW w \in Workers, MayExecute(w)
  PROVE  UsersGrow
  <1> USE DEF UsersGrow, Shape
  <1>1. CASE UNCHANGED users
    BY <1>1
  <1>2. CASE pc[w] = "createUser" /\ CreateUser(req[w])
    <2> DEFINE row == [email |-> req[w].email, username |-> req[w].username,
                       password |-> req[w].password, blind |-> req[w].blind]
    <2>1. row \in Row
      BY <1>2 DEF GoroutinesType, RegistrationShape, Row, Request
    <2>2. CASE users' = Append(users, row)
      BY <2>1, <2>2
    <2> QED
      BY <1>2, <2>2, <1>1 DEF CreateUser
  <1> QED
    BY <1>1, <1>2 DEF MayExecute, Execute

-----------------------------------------------------------------------------
(* Tokens and timers. *)

LEMMA TokensNameUsersKept ==
  ASSUME Shape, TokensNameUsers, UsersGrow, TokensGrow
  PROVE  TokensNameUsers' /\ pairs' \in Seq(Pair)
  <1> USE DEF Shape, SessionType, TokensNameUsers, UsersGrow
  <1>1. CASE pairs' = pairs
    BY <1>1
  <1>2. ASSUME NEW u \in 1..Len(users), pairs' = Append(pairs, [user |-> u, at |-> now])
        PROVE  TokensNameUsers' /\ pairs' \in Seq(Pair)
    <2>1. [user |-> u, at |-> now] \in Pair
      BY DEF Pair
    <2> QED
      BY <1>2, <2>1
  <1> QED
    BY <1>1, <1>2 DEF TokensGrow

\* A token keeps its user and its time for good.
LEMMA TokensKept ==
  ASSUME Shape, TokensGrow
  PROVE  /\ pairs' \in Seq(Pair)
         /\ Len(pairs') >= Len(pairs)
         /\ \A i \in 1..Len(pairs) : pairs'[i] = pairs[i]
  <1> USE DEF Shape, SessionType
  <1>1. CASE pairs' = pairs
    BY <1>1
  <1>2. ASSUME NEW u \in 1..Len(users), pairs' = Append(pairs, [user |-> u, at |-> now])
        PROVE  /\ pairs' \in Seq(Pair)
               /\ Len(pairs') >= Len(pairs)
               /\ \A i \in 1..Len(pairs) : pairs'[i] = pairs[i]
    <2>1. [user |-> u, at |-> now] \in Pair
      BY DEF Pair
    <2> QED
      BY <1>2, <2>1
  <1> QED
    BY <1>1, <1>2 DEF TokensGrow

\* Steps that leave the blacklist and its timers alone.
LEMMA SessionsKept ==
  ASSUME Shape, TimersOnTime, BlacklistTimed, LogoutRemembered, TokensGrow,
         now' \in Nat, now' >= now, UNCHANGED <<blacklist, timers, loggedOut>>,
         server' # "down" /\ restarts' = 0 => server # "down" /\ restarts = 0
  PROVE  TimersOnTime' /\ BlacklistTimed' /\ LogoutRemembered'
  <1> USE DEF Shape, SessionType
  <1>1. /\ pairs' \in Seq(Pair) /\ Len(pairs') >= Len(pairs)
        /\ \A i \in 1..Len(pairs) : pairs'[i] = pairs[i]
    BY TokensKept
  <1>2. TimersOnTime'
    BY <1>1 DEF TimersOnTime, AccessExpiry
  <1>3. ASSUME NEW i \in loggedOut, AccessValid(i)'
        PROVE  AccessValid(i)
    <2>1. i \in 1..Len(pairs) /\ pairs'[i] = pairs[i]
      BY <1>1 DEF TimersOnTime
    <2>2. pairs[i] \in Pair
      BY <2>1
    <2>3. pairs[i].at \in Nat
      BY <2>2 DEF Pair
    <2> QED
      BY <1>3, <2>1, <2>3, AccountsAssumption DEF AccountsAssumption, AccessValid, AccessExpiry
  <1>4. LogoutRemembered'
    BY <1>3 DEF LogoutRemembered
  <1>5. BlacklistTimed'
    <2> SUFFICES ASSUME NEW i \in blacklist
                 PROVE  [pair |-> i, at |-> AccessExpiry(i)'] \in timers
      BY DEF BlacklistTimed
    <2>1. [pair |-> i, at |-> AccessExpiry(i)] \in timers
      BY DEF BlacklistTimed
    <2>2. i \in 1..Len(pairs)
      BY <2>1 DEF TimersOnTime
    <2>3. AccessExpiry(i)' = AccessExpiry(i)
      BY <1>1, <2>2 DEF AccessExpiry
    <2> QED
      BY <2>1, <2>3
  <1> QED
    BY <1>2, <1>4, <1>5

LEMMA LogoutSound ==
  ASSUME SessionInv, NEW w \in Workers, NEW i \in 1..Len(pairs), LogoutUser(w, i)
  PROVE  SessionInv'
  <1> USE DEF SessionInv, Shape, SessionType
  <1>1. UNCHANGED <<serverVars, users, pairs, now, pc, req, gone>>
    BY DEF LogoutUser
  <1>2. ServerTypeOK' /\ GoroutinesType' /\ users' \in Seq(Row) /\ TokensNameUsers'
    BY <1>1 DEF ServerTypeOK, serverVars, GoroutinesType, RegistrationShape, LogoutUser, Statuses,
                TokensNameUsers
  <1>3. CASE AccessValid(i)
    <2>1. /\ blacklist' = blacklist \cup {i}
          /\ timers' = timers \cup {[pair |-> i, at |-> AccessExpiry(i)]}
          /\ loggedOut' = loggedOut \cup {i}
      BY <1>3 DEF LogoutUser, BlacklistUserToken, AddToBlackList
    <2>2. AccessExpiry(i) \in Nat
      <3>1. pairs[i] \in Pair
        OBVIOUS
      <3> QED
        BY <3>1, AccountsAssumption DEF AccountsAssumption, AccessExpiry, Pair
    <2>3. SessionType'
      BY <1>1, <2>1, <2>2 DEF Timer
    <2>4. TimersOnTime'
      BY <1>1, <2>1 DEF TimersOnTime, AccessExpiry
    <2>5. LogoutRemembered'
      BY <1>1, <2>1 DEF LogoutRemembered, AccessValid, AccessExpiry, serverVars
    <2>6. BlacklistTimed'
      BY <1>1, <2>1 DEF BlacklistTimed, AccessExpiry
    <2> QED
      BY <1>2, <2>3, <2>4, <2>5, <2>6
  <1>4. CASE ~AccessValid(i)
    <2>1. UNCHANGED <<blacklist, timers, loggedOut>>
      BY <1>4 DEF LogoutUser, BlacklistUserToken
    <2>2. TimersOnTime' /\ BlacklistTimed' /\ LogoutRemembered'
      BY <1>1, <2>1, SessionsKept DEF TokensGrow, serverVars
    <2> QED
      BY <1>1, <1>2, <2>1, <2>2
  <1> QED
    BY <1>3, <1>4

\* A timer takes out a token that has expired.
LEMMA TimerSound ==
  ASSUME SessionInv, NEW t \in timers, TimerFires(t)
  PROVE  SessionInv'
  <1> USE DEF SessionInv, Shape, SessionType
  <1>1. UNCHANGED <<serverVars, users, pairs, now, loggedOut, goroutines>>
    BY DEF TimerFires
  <1>2. ServerTypeOK' /\ GoroutinesType' /\ SessionType' /\ users' \in Seq(Row) /\ TokensNameUsers'
    BY <1>1 DEF TimerFires, ServerTypeOK, serverVars, goroutines, GoroutinesType, RegistrationShape,
                TokensNameUsers
  <1>3. ~AccessValid(t.pair)
    BY AccountsAssumption DEF AccountsAssumption, TimerFires, TimersOnTime, AccessValid, AccessExpiry, Pair, Timer
  <1>4. TimersOnTime'
    BY <1>1 DEF TimerFires, TimersOnTime, AccessExpiry
  <1>5. LogoutRemembered'
    <2>1. \A i : AccessValid(i)' <=> AccessValid(i)
      BY <1>1 DEF AccessValid, AccessExpiry
    <2>2. blacklist' = blacklist \ {t.pair} /\ server' = server /\ restarts' = restarts /\ loggedOut' = loggedOut
      BY <1>1 DEF TimerFires, serverVars
    <2>3. LogoutRemembered
      OBVIOUS
    <2> HIDE DEF SessionInv, Shape, SessionType
    <2> QED
      BY <1>3, <2>1, <2>2, <2>3 DEF LogoutRemembered
  <1>6. BlacklistTimed'
    <2> SUFFICES ASSUME NEW i \in blacklist, i # t.pair
                 PROVE  [pair |-> i, at |-> AccessExpiry(i)] \in timers \ {t}
      BY <1>1 DEF TimerFires, BlacklistTimed, AccessExpiry
    <2> QED
      BY DEF BlacklistTimed
  <1> QED
    BY <1>2, <1>4, <1>5, <1>6

-----------------------------------------------------------------------------
(* The steps. *)

\* Steps that keep to the tables, the tokens and the goroutines.
LEMMA SessionKept ==
  ASSUME SessionInv, ServerTypeOK', GoroutinesType', UsersGrow, TokensGrow,
         now' \in Nat, now' >= now, UNCHANGED <<blacklist, timers, loggedOut>>,
         server' # "down" /\ restarts' = 0 => server # "down" /\ restarts = 0
  PROVE  SessionInv'
  <1>1. TokensNameUsers' /\ pairs' \in Seq(Pair)
    BY TokensNameUsersKept DEF SessionInv
  <1>2. TimersOnTime' /\ BlacklistTimed' /\ LogoutRemembered'
    BY SessionsKept DEF SessionInv
  <1> QED
    BY <1>1, <1>2 DEF SessionInv, Shape, SessionType, UsersGrow

\* Queries begin, fail and are answered while the process lives.
LEMMA ServerKept ==
  ASSUME Shape, NEW w \in Workers,
         Acquire(w) \/ Refused(w) \/ CancelledBefore(w) \/ Release(w) \/ Errs(w) \/ Break(w, w \in gone)
  PROVE  ServerTypeOK' /\ server' = server /\ restarts' = restarts
  BY DEF Shape, ServerTypeOK, Acquire, Refused, CancelledBefore, Release, Errs, Break, serverVars

LEMMA QueryStepSound ==
  ASSUME SessionInv, NEW w \in Workers, QueryStep(w)
  PROVE  SessionInv'
  <1> Shape /\ GoroutinesType /\ SessionType
    BY DEF SessionInv, Shape
  <1> now \in Nat /\ now >= now
    BY DEF SessionType
  <1>1. ServerTypeOK' /\ server' = server /\ restarts' = restarts
    BY ServerKept DEF QueryStep, SendQuery, QueryFails, Interrupted, EmailRead, UserCreated,
                      CredentialsRead, RefreshRead, ProfileRead, Answered
  <1>2. now' = now /\ UNCHANGED <<blacklist, timers, loggedOut>>
    BY DEF QueryStep, SendQuery, QueryFails, Interrupted, EmailRead, UserCreated,
           CredentialsRead, RefreshRead, ProfileRead, session, GenerateTokenPair
  <1>3. UsersGrow
    <2>1. users' = users => UsersGrow
      BY DEF UsersGrow, Shape
    <2> QED
      BY <2>1, ExecuteGrows DEF QueryStep, SendQuery, QueryFails, Interrupted, EmailRead, UserCreated,
         CredentialsRead, RefreshRead, ProfileRead, Answered, MayExecute
  <1>4. TokensGrow
    <2>1. CASE CredentialsRead(w)
      BY <2>1 DEF CredentialsRead, RowsByUsername, GenerateTokenPair, TokensGrow, session
    <2>2. CASE RefreshRead(w)
      BY <2>2 DEF RefreshRead, UserExists, GenerateTokenPair, TokensGrow, session
    <2> QED
      BY <2>1, <2>2 DEF QueryStep, SendQuery, QueryFails, Interrupted, EmailRead, UserCreated,
         ProfileRead, TokensGrow, session
  <1>5. GoroutinesType'
    <2>1. CASE SendQuery(w)
      BY <2>1 DEF SendQuery, goroutines, GoroutinesType, RegistrationShape
    <2>2. CASE QueryFails(w) \/ Interrupted(w)
      BY <2>2, FailQueryType DEF QueryFails, Interrupted
    <2>3. CASE EmailRead(w)
      BY <2>3, FinishType, HashAndInsertType DEF EmailRead, Answered, Statuses
    <2>4. CASE UserCreated(w) \/ ProfileRead(w)
      BY <2>4, FinishType DEF UserCreated, ProfileRead, Statuses
    <2>5. CASE CredentialsRead(w) \/ RefreshRead(w)
      BY <2>5, FinishType DEF CredentialsRead, RefreshRead, Statuses
    <2> QED
      BY <2>1, <2>2, <2>3, <2>4, <2>5 DEF QueryStep
  <1> QED
    BY <1>1, <1>2, <1>3, <1>4, <1>5, SessionKept

LEMMA ArriveSound ==
  ASSUME SessionInv, NEW w \in Workers, NEW query \in Queries, NEW r \in Request,
         query \in {"byEmail", "createUser"} =>
             r.email \in Emails /\ r.username \in Usernames /\ r.password \in Passwords,
         Arrive(w, query, r)
  PROVE  SessionInv'
  <1>1. GoroutinesType'
    BY ArriveType DEF SessionInv, Shape
  <1>2. ServerTypeOK' /\ server' = server /\ restarts' = restarts
    BY DEF Arrive, SessionInv, Shape, ServerTypeOK, serverVars
  <1>3. UsersGrow /\ TokensGrow
    BY DEF Arrive, SessionInv, Shape, UsersGrow, TokensGrow, session
  <1>4. now' \in Nat /\ now' >= now /\ UNCHANGED <<blacklist, timers, loggedOut>>
    BY DEF Arrive, SessionInv, Shape, SessionType, session
  <1> QED
    BY <1>1, <1>2, <1>3, <1>4, SessionKept

\* Steps that change neither the tables nor the tokens and keep to the types of
\* the goroutines.
LEMMA QuietSound ==
  ASSUME SessionInv, ServerTypeOK', GoroutinesType', UNCHANGED <<users, session>>,
         server' # "down" /\ restarts' = 0 => server # "down" /\ restarts = 0
  PROVE  SessionInv'
  <1>1. UsersGrow /\ TokensGrow
    BY DEF SessionInv, Shape, UsersGrow, TokensGrow, session
  <1>2. now' \in Nat /\ now' >= now /\ UNCHANGED <<blacklist, timers, loggedOut>>
    BY DEF SessionInv, Shape, SessionType, session
  <1> QED
    BY <1>1, <1>2, SessionKept

LEMMA ProcessEndsSound ==
  ASSUME SessionInv, ProcessEnds, Exit
  PROVE  SessionInv'
  <1> USE DEF SessionInv, Shape, SessionType
  <1>1. ServerTypeOK'
    BY DEF Exit, ServerTypeOK
  <1>2. GoroutinesType'
    BY DEF ProcessEnds, GoroutinesType, RegistrationShape, NoRequest, Request
  <1>3. UsersGrow
    <2>1. CASE conn \in Workers
      BY <2>1, ExecuteGrows DEF ProcessEnds
    <2>2. CASE conn \notin Workers
      BY <2>2 DEF ProcessEnds, UsersGrow
    <2> QED
      BY <2>1, <2>2
  <1>4. TokensNameUsers'
    BY <1>3, TokensNameUsersKept DEF ProcessEnds, TokensGrow
  <1>5. TimersOnTime' /\ BlacklistTimed' /\ LogoutRemembered'
    BY DEF ProcessEnds, Exit, TimersOnTime, BlacklistTimed, LogoutRemembered
  <1> QED
    BY <1>1, <1>2, <1>3, <1>4, <1>5 DEF ProcessEnds, UsersGrow

LEMMA SessionStep ==
  ASSUME SessionInv, [Next]_vars
  PROVE  SessionInv'
  <1> Shape
    BY DEF SessionInv
  <1> USE DEF Queries
  <1>1. ASSUME NEW w \in Workers, Reject(w) \/ ClientLeaves(w) \/ Answer(w, "401")
        PROVE  SessionInv'
    <2>1. ServerTypeOK' /\ server' = server /\ restarts' = restarts
      BY <1>1 DEF Reject, Answer, ClientLeaves, Shape, ServerTypeOK, serverVars
    <2>2. GoroutinesType'
      BY <1>1 DEF Reject, Answer, ClientLeaves, Shape, GoroutinesType, RegistrationShape, Statuses
    <2>3. UNCHANGED <<users, session>>
      BY <1>1 DEF Reject, Answer, ClientLeaves
    <2> QED
      BY <2>1, <2>2, <2>3, QuietSound
  <1>2. ASSUME NEW w \in Workers, NEW e \in Emails, NEW n \in Usernames, NEW k \in Passwords,
               RegisterUser(w, e, n, k)
        PROVE  SessionInv'
    <2> DEFINE r == [email |-> e, username |-> n, password |-> k, pair |-> None, blind |-> FALSE]
    <2>1. Arrive(w, "byEmail", r) /\ r \in Request
      BY <1>2 DEF RegisterUser, Request
    <2> QED
      BY <2>1, ArriveSound
  <1>3. ASSUME NEW w \in Workers, NEW n \in Usernames, NEW k \in Passwords, LoginUser(w, n, k)
        PROVE  SessionInv'
    <2> DEFINE r == [email |-> None, username |-> n, password |-> k, pair |-> None, blind |-> FALSE]
    <2>1. Arrive(w, "byUsername", r) /\ r \in Request
      BY <1>3 DEF LoginUser, Request
    <2> QED
      BY <2>1, ArriveSound
  <1>4. ASSUME NEW w \in Workers, NEW i \in 1..Len(pairs), RefreshToken(w, i) \/ Profile(w, i)
        PROVE  SessionInv'
    <2> DEFINE r == [email |-> None, username |-> None, password |-> None, pair |-> i, blind |-> FALSE]
    <2>1. r \in Request
      BY DEF Request
    <2>2. Answer(w, "401") \/ Arrive(w, "refreshUser", r) \/ Arrive(w, "profileUser", r)
      BY <1>4 DEF RefreshToken, Profile
    <2> QED
      BY <2>1, <2>2, <1>1, ArriveSound
  <1>5. ASSUME NEW w \in Workers, NEW i \in 1..Len(pairs), LogoutUser(w, i)
        PROVE  SessionInv'
    BY <1>5, LogoutSound
  <1>6. CASE Tick
    <2>1. UsersGrow /\ TokensGrow /\ now' \in Nat /\ now' >= now /\ ServerTypeOK' /\ GoroutinesType'
      BY <1>6 DEF Tick, Shape, SessionType, UsersGrow, TokensGrow, ServerTypeOK, serverVars, goroutines,
                  GoroutinesType, RegistrationShape
    <2> QED
      BY <1>6, <2>1, SessionKept DEF Tick, serverVars
  <1>7. CASE ShutdownBegins \/ ConnectionLost \/ ProcessRestart
    <2>1. ServerTypeOK' /\ (server' # "down" /\ restarts' = 0 => server # "down" /\ restarts = 0)
      BY <1>7 DEF ShutdownBegins, Signal, ConnectionLost, BreakIdle, ProcessRestart, Restart, Shape, ServerTypeOK
    <2>2. GoroutinesType' /\ UNCHANGED <<users, session>>
      BY <1>7 DEF ShutdownBegins, ConnectionLost, ProcessRestart, Shape, goroutines, GoroutinesType,
                  RegistrationShape
    <2> QED
      BY <2>1, <2>2, QuietSound
  <1>8. CASE ShutdownEnds \/ ShutdownTimesOut \/ ProcessCrash
    BY <1>8, ProcessEndsSound DEF ShutdownEnds, ShutdownDone, ShutdownTimesOut, ShutdownTimeout, ProcessCrash, Crash
  <1>9. CASE UNCHANGED vars
    <2>1. ServerTypeOK' /\ GoroutinesType' /\ UNCHANGED <<users, session>> /\ server' = server /\ restarts' = restarts
      BY <1>9 DEF vars, Shape, ServerTypeOK, serverVars, goroutines, GoroutinesType, RegistrationShape
    <2> QED
      BY <2>1, QuietSound
  <1> QED
    BY <1>1, <1>2, <1>3, <1>4, <1>5, <1>6, <1>7, <1>8, <1>9, QueryStepSound, TimerSound DEF Next

-----------------------------------------------------------------------------
(* The theorems. *)

\* SessionInv holds in every reachable state (service/auth.go, jwt.go).
THEOREM SessionInvariant == Spec => []SessionInv
  <1>1. SessionInv /\ [Next]_vars => SessionInv'
    BY SessionStep
  <1> QED
    BY SessionInit, <1>1, PTL DEF Spec

\* TypeOK of Accounts, whatever the constants.
THEOREM AccountsTypeCorrect == Spec => []TypeOK
  <1>1. SessionInv => TypeOK
    BY DEF SessionInv, Shape, SessionType, GoroutinesType, TypeOK
  <1> QED
    BY SessionInvariant, <1>1, PTL

\* Every token ever issued names a row of users.
THEOREM TokensAlwaysNameUsers == Spec => []TokensNameUsers
  <1>1. SessionInv => TokensNameUsers
    BY DEF SessionInv
  <1> QED
    BY SessionInvariant, <1>1, PTL

\* A token that was logged out is in the blacklist until it expires, in the
\* process that was started first.
THEOREM LogoutsAreRemembered == Spec => []LogoutRemembered
  <1>1. SessionInv => LogoutRemembered
    BY DEF SessionInv
  <1> QED
    BY SessionInvariant, <1>1, PTL

\* No entry of the blacklist is without the timer that takes it out when its token
\* expires (jwt.go:128-132).
THEOREM BlacklistStaysTimed == Spec => []BlacklistTimed
  <1>1. SessionInv => BlacklistTimed
    BY DEF SessionInv
  <1> QED
    BY SessionInvariant, <1>1, PTL

-----------------------------------------------------------------------------
(* Requests one at a time. *)

\* A blind row, or a row with a new email, keeps the emails checked.
LEMMA CheckedRow ==
  ASSUME Sequential, users \in Seq(Row), EmailsChecked, NEW r, CreateUser(r),
         r.blind \/ RowsByEmail(r.email) = {}
  PROVE  EmailsChecked'
  <1> DEFINE row == [email |-> r.email, username |-> r.username, password |-> r.password,
                     blind |-> r.blind]
  <1>1. CASE UNCHANGED users
    BY <1>1 DEF EmailsChecked
  <1>2. CASE users' = Append(users, row)
    <2>1. /\ Len(users') = Len(users) + 1 /\ Len(users) \in Nat
          /\ \A i \in 1..Len(users) : users'[i] = users[i]
          /\ users'[Len(users) + 1] = row
      BY <1>2
    <2>2. r.blind \/ \A i \in 1..Len(users) : users[i].email # row.email
      BY DEF RowsByEmail
    <2>3. ASSUME NEW i \in 1..Len(users'), NEW j \in 1..Len(users'), i < j,
                 users'[i].email = users'[j].email
          PROVE  users'[j].blind
      <3>1. CASE j \in 1..Len(users)
        <4>1. i \in 1..Len(users) /\ users'[i] = users[i] /\ users'[j] = users[j]
          BY <2>1, <2>3, <3>1
        <4> QED
          BY <2>3, <3>1, <4>1 DEF EmailsChecked
      <3>2. CASE j = Len(users) + 1
        <4>1. i \in 1..Len(users) /\ users'[i] = users[i] /\ users'[j] = row
          BY <2>1, <2>3, <3>2
        <4> QED
          BY <2>2, <2>3, <4>1
      <3> QED
        BY <2>1, <3>1, <3>2
    <2> QED
      BY <2>3 DEF EmailsChecked
  <1> QED
    BY <1>1, <1>2 DEF CreateUser

\* The statement in flight leaves the emails checked.
LEMMA ExecuteKeepsEmails ==
  ASSUME Sequential, Shape, EmailInv, NEW w \in Workers, conn = w, MayExecute(w)
  PROVE  EmailsChecked'
  <1>1. CASE UNCHANGED users
    BY <1>1 DEF EmailInv, EmailsChecked
  <1>2. CASE pc[w] = "createUser" /\ CreateUser(req[w])
    <2>1. req[w].blind \/ RowsByEmail(req[w].email) = {}
      BY <1>2, ServerAssumption DEF ServerAssumption, EmailInv, InsertsFindEmailFree
    <2> QED
      BY <1>2, <2>1, CheckedRow DEF Shape, EmailInv
  <1> QED
    BY <1>1, <1>2 DEF MayExecute, Execute

\* A step that leaves the table alone, after which there is at most one handler and
\* no insert may be executed unchecked that could not be before.
LEMMA EmailsKept ==
  ASSUME EmailInv, UNCHANGED users, server' = "down" => Handlers' = {}, OneHandler',
         \A w \in Workers :
            pc'[w] = "createUser" =>
               \/ conn' = "closed"
               \/ conn' # w /\ w \in gone'
               \/ req'[w].blind
               \/ RowsByEmail(req'[w].email) = {}
  PROVE  EmailInv'
  BY DEF EmailInv, EmailsChecked, InsertsFindEmailFree, RowsByEmail

LEMMA EmailQueryStep ==
  ASSUME Sequential, Shape, EmailInv, NEW w \in Workers, QueryStep(w)
  PROVE  EmailInv'
  <1> USE DEF Shape
  <1>1. pc[w] # "idle"
    BY DEF QueryStep, SendQuery, QueryFails, Interrupted, FailQuery, EmailRead, UserCreated,
           CredentialsRead, RefreshRead, ProfileRead, Answered
  <1>2. server' = server /\ server # "down"
    BY <1>1, ServerKept DEF EmailInv, Handlers, QueryStep, SendQuery, QueryFails, Interrupted, EmailRead,
           UserCreated, CredentialsRead, RefreshRead, ProfileRead, Answered
  <1>3. \A x \in Workers : x # w => pc[x] = "idle"
    BY <1>1 DEF EmailInv, OneHandler, Handlers
  <1>4. ASSUME NEW status, Finish(w, status), EmailsChecked'
        PROVE  EmailInv'
    <2>1. \A x \in Workers : pc'[x] = "idle"
      BY <1>3, <1>4 DEF Finish, GoroutinesType
    <2> QED
      BY <1>2, <1>4, <2>1 DEF EmailInv, InsertsFindEmailFree, OneHandler, Handlers
  <1>5. ASSUME NEW blind \in BOOLEAN, Hashed(w, blind), UNCHANGED users,
               \/ conn' = "closed" \/ (conn' # w /\ w \in gone)
               \/ blind \/ RowsByEmail(req[w].email) = {}
        PROVE  EmailInv'
    <2>1. /\ \A x \in Workers : x # w => pc'[x] = "idle"
          /\ gone' = gone
      BY <1>3, <1>5 DEF Hashed, GoroutinesType
    <2>2. req'[w].blind = blind /\ req'[w].email = req[w].email
      BY <1>5, HashedRequest
    <2>3. OneHandler'
      BY <2>1 DEF OneHandler, Handlers
    <2> QED
      BY <1>2, <1>5, <2>1, <2>2, <2>3, EmailsKept
  <1>6. CASE SendQuery(w)
    <2>1. pc[w] = "createUser" => req[w].blind \/ RowsByEmail(req[w].email) = {}
      BY <1>6 DEF SendQuery, Acquire, EmailInv, InsertsFindEmailFree
    <2>2. OneHandler'
      BY <1>6 DEF SendQuery, goroutines, EmailInv, OneHandler, Handlers
    <2> QED
      BY <1>2, <1>3, <1>6, <2>1, <2>2, EmailsKept DEF SendQuery, goroutines
  <1>7. CASE QueryFails(w)
    <2>1. UNCHANGED users /\ EmailsChecked'
      BY <1>7 DEF QueryFails, EmailInv, EmailsChecked
    <2>2. conn' # w
      BY <1>7, ServerAssumption DEF ServerAssumption, QueryFails, Refused, CancelledBefore, Errs, serverVars
    <2>3. CASE pc[w] = "byEmail" /\ HashAndInsert(w, conn' # "closed" /\ w \notin gone)
      <3> DEFINE blind == conn' # "closed" /\ w \notin gone
      <3>1. blind \in BOOLEAN
        OBVIOUS
      <3>2. CASE Hashed(w, blind)
        BY <1>5, <2>1, <2>2, <3>1, <3>2
      <3> QED
        BY <1>4, <2>1, <2>3, <3>2 DEF HashAndInsert, Hashed
    <2> QED
      BY <1>4, <1>7, <2>1, <2>3 DEF QueryFails, FailQuery
  <1>8. CASE Interrupted(w)
    <2>1. conn = w /\ conn' = "closed" /\ EmailsChecked'
      BY <1>8, ExecuteKeepsEmails DEF Interrupted, Break
    <2>2. CASE pc[w] = "byEmail" /\ HashAndInsert(w, conn' # "closed" /\ w \notin gone)
      <3> DEFINE blind == conn' # "closed" /\ w \notin gone
      <3>1. UNCHANGED users /\ blind \in BOOLEAN
        BY <1>8, <2>2 DEF Interrupted, MayExecute, Execute
      <3>2. CASE Hashed(w, blind)
        BY <1>5, <2>1, <3>1, <3>2
      <3> QED
        BY <1>4, <2>1, <2>2, <3>2 DEF HashAndInsert, Hashed
    <2> QED
      BY <1>4, <1>8, <2>1, <2>2 DEF Interrupted, FailQuery
  <1>9. CASE EmailRead(w)
    <2>1. UNCHANGED users /\ EmailsChecked'
      BY <1>9 DEF EmailRead, Answered, Execute, EmailInv, EmailsChecked
    <2>2. CASE RowsByEmail(req[w].email) = {} /\ Hashed(w, FALSE)
      BY <1>5, <2>1, <2>2
    <2> QED
      BY <1>4, <1>9, <2>1, <2>2 DEF EmailRead, HashAndInsert, Hashed
  <1>10. CASE UserCreated(w) \/ CredentialsRead(w) \/ RefreshRead(w) \/ ProfileRead(w)
    <2>1. EmailsChecked'
      BY <1>10, ExecuteKeepsEmails DEF UserCreated, CredentialsRead, RefreshRead, ProfileRead, Answered,
                                       Release, MayExecute
    <2> QED
      BY <1>4, <1>10, <2>1 DEF UserCreated, CredentialsRead, RefreshRead, ProfileRead
  <1> QED
    BY <1>6, <1>7, <1>8, <1>9, <1>10 DEF QueryStep

LEMMA EmailProcessEnds ==
  ASSUME Sequential, Shape, EmailInv, ProcessEnds
  PROVE  EmailInv'
  <1>1. \A w \in Workers : pc'[w] = "idle"
    BY DEF ProcessEnds
  <1>2. EmailsChecked'
    <2>1. CASE conn \in Workers
      BY <2>1, ExecuteKeepsEmails DEF ProcessEnds
    <2>2. CASE conn \notin Workers
      BY <2>2 DEF ProcessEnds, EmailInv, EmailsChecked
    <2> QED
      BY <2>1, <2>2
  <1> QED
    BY <1>1, <1>2 DEF EmailInv, InsertsFindEmailFree, OneHandler, Handlers

LEMMA EmailStep ==
  ASSUME Sequential, Shape, EmailInv, [Next]_vars
  PROVE  EmailInv'
  <1> USE DEF Shape
  <1>1. ASSUME NEW w \in Workers, NEW query \in Queries \ {"createUser"}, NEW r, Arrive(w, query, r)
        PROVE  EmailInv'
    <2>1. /\ UNCHANGED users /\ server' # "down"
          /\ pc' = [pc EXCEPT ![w] = query] /\ \A x \in Workers : pc[x] = "idle"
      BY <1>1 DEF Arrive, Admits, Handlers, serverVars
    <2>2. \A x \in Workers : pc'[x] # "createUser" /\ (x # w => pc'[x] = "idle")
      BY <2>1 DEF GoroutinesType
    <2>3. OneHandler'
      BY <2>2 DEF OneHandler, Handlers
    <2> QED
      BY <2>1, <2>2, <2>3, EmailsKept
  <1>2. CASE \/ UNCHANGED vars \/ Tick \/ ShutdownBegins \/ ConnectionLost
             \/ \E t \in timers : TimerFires(t)
             \/ \E w \in Workers : \/ Reject(w) \/ ClientLeaves(w) \/ Answer(w, "401")
                                   \/ \E i \in 1..Len(pairs) : LogoutUser(w, i)
    <2>1. UNCHANGED <<users, pc, req>> /\ gone \subseteq gone'
      BY <1>2 DEF vars, goroutines, Tick, ShutdownBegins, ConnectionLost, TimerFires, Reject, ClientLeaves,
                  Answer, LogoutUser
    <2>2. conn' = conn \/ conn' = "closed"
      BY <1>2 DEF vars, serverVars, Tick, ShutdownBegins, Signal, ConnectionLost, BreakIdle, TimerFires,
                  Reject, ClientLeaves, Answer, LogoutUser
    <2>3. server' = "down" => server = "down"
      BY <1>2 DEF vars, serverVars, Tick, ShutdownBegins, Signal, ConnectionLost, BreakIdle, TimerFires,
                  Reject, ClientLeaves, Answer, LogoutUser
    <2>4. OneHandler'
      BY <2>1 DEF EmailInv, OneHandler, Handlers
    <2> QED
      BY <2>1, <2>2, <2>3, <2>4, EmailsKept DEF EmailInv, InsertsFindEmailFree, Handlers
  <1>3. CASE ProcessRestart
    <2>1. \A w \in Workers : pc'[w] = "idle"
      BY <1>3 DEF ProcessRestart, Restart, goroutines, EmailInv, Handlers
    <2>2. OneHandler'
      BY <2>1 DEF OneHandler, Handlers
    <2> QED
      BY <1>3, <2>1, <2>2, EmailsKept DEF ProcessRestart, Restart
  <1>4. CASE ShutdownEnds \/ ShutdownTimesOut \/ ProcessCrash
    BY <1>4, EmailProcessEnds DEF ShutdownEnds, ShutdownTimesOut, ProcessCrash
  <1> QED
    BY <1>1, <1>2, <1>3, <1>4, EmailQueryStep
       DEF Next, Queries, RegisterUser, LoginUser, RefreshToken, Profile

\* EmailInv is an invariant when requests come one at a time.
LEMMA EmailInvariant ==
  ASSUME Sequential
  PROVE  Spec => []EmailInv
  <1>1. Init => EmailInv
    BY DEF Init, ServerInit, EmailInv, EmailsChecked, InsertsFindEmailFree, OneHandler, Handlers
  <1>2. Shape /\ EmailInv /\ [Next]_vars => EmailInv'
    BY EmailStep
  <1>3. SessionInv => Shape
    BY DEF SessionInv
  <1> QED
    BY <1>1, <1>2, <1>3, SessionInvariant, PTL DEF Spec

\* When requests come one at a time, a second row with an email is the work of a
\* registration whose lookup failed on a connection that survived, for a client
\* that stayed: closed connections, clients that leave, crashes and restarts make
\* none, although AddUser drops the error of the lookup for them too
\* (service/auth.go:43-60).
THEOREM EmailsAlwaysChecked == Spec => []EmailsChecked
  <1>1. CASE Sequential
    <2>1. EmailInv => EmailsChecked
      BY DEF EmailInv
    <2> QED
      BY <1>1, <2>1, EmailInvariant, PTL
  <1>2. CASE ~Sequential
    <2>1. EmailsChecked
      BY <1>2 DEF EmailsChecked
    <2> QED
      BY <2>1, PTL
  <1> QED
    BY <1>1, <1>2

-----------------------------------------------------------------------------
(* No failure around the server. *)

\* The connection stays open, and a token that a request presents was issued.
CalmInv ==
    /\ server = "up" /\ conn # "closed"
    /\ \A w \in Workers : pc[w] \in {"refreshUser", "profileUser"} => req[w].pair \in 1..Len(pairs)

\* A profile request fails only while the query of another goroutine is in flight.
ProfilesAnswered ==
    \A w \in Workers :
        pc[w] = "profileUser" /\ pc'[w] = "idle" => reply'[w] = "200" \/ conn \in Workers \ {w}

\* A step after which the connection is open and every request is as it was or
\* presents a token that was issued.
LEMMA CalmMove ==
  ASSUME Shape, CalmInv, TokensGrow, server' = "up", conn' # "closed",
         \A x \in Workers :
            pc'[x] \in {"refreshUser", "profileUser"} =>
               \/ pc'[x] = pc[x] /\ req'[x] = req[x]
               \/ req'[x].pair \in 1..Len(pairs)
  PROVE  CalmInv'
  <1>1. 1..Len(pairs) \subseteq 1..Len(pairs')
    BY TokensKept DEF Shape, SessionType
  <1> QED
    BY <1>1 DEF CalmInv

\* The goroutine ends or goes on to its insert.
LEMMA CalmEnd ==
  ASSUME Shape, NEW w \in Workers,
         (\E status : Finish(w, status)) \/ (\E blind : HashAndInsert(w, blind))
  PROVE  /\ pc'[w] \in {"idle", "createUser"}
         /\ \A x \in Workers : x # w => pc'[x] = pc[x] /\ req'[x] = req[x]
  BY DEF Shape, GoroutinesType, Finish, HashAndInsert

LEMMA CalmQueryStep ==
  ASSUME Events = {}, SessionInv, CalmInv, NEW w \in Workers, QueryStep(w)
  PROVE  CalmInv' /\ ProfilesAnswered
  <1> Shape
    BY DEF SessionInv
  <1>1. CASE SendQuery(w)
    <2>1. /\ conn' # "closed" /\ server' = "up" /\ pc' = pc /\ req' = req /\ TokensGrow
      BY <1>1, ServerAssumption DEF ServerAssumption, SendQuery, Acquire, goroutines, session, TokensGrow, CalmInv
    <2>2. CalmInv'
      BY <2>1, CalmMove
    <2> QED
      BY <2>1, <2>2 DEF ProfilesAnswered
  <1>2. CASE QueryFails(w)
    <2>1. /\ conn \in Workers \ {w} /\ conn' = conn /\ server' = "up" /\ TokensGrow
      BY <1>2 DEF QueryFails, Refused, CancelledBefore, Errs, serverVars, session, Shape, ServerTypeOK,
                  CalmInv, TokensGrow
    <2>2. /\ pc'[w] \in {"idle", "createUser"}
          /\ \A x \in Workers : x # w => pc'[x] = pc[x] /\ req'[x] = req[x]
      BY <1>2, CalmEnd DEF QueryFails, FailQuery
    <2>3. CalmInv'
      BY <2>1, <2>2, CalmMove DEF CalmInv
    <2> QED
      BY <2>1, <2>2, <2>3 DEF ProfilesAnswered
  <1>3. ~Interrupted(w)
    BY DEF Interrupted, Break
  <1>4. CASE EmailRead(w) \/ UserCreated(w) \/ CredentialsRead(w) \/ RefreshRead(w) \/ ProfileRead(w)
    <2>1. conn' # "closed" /\ server' = "up"
      BY <1>4 DEF EmailRead, UserCreated, CredentialsRead, RefreshRead, ProfileRead, Answered, Release, CalmInv
    <2>2. TokensGrow
      <3>1. CASE CredentialsRead(w)
        BY <3>1 DEF CredentialsRead, RowsByUsername, GenerateTokenPair, TokensGrow, session
      <3>2. CASE RefreshRead(w)
        BY <3>2 DEF RefreshRead, UserExists, GenerateTokenPair, TokensGrow, session
      <3> QED
        BY <1>4, <3>1, <3>2 DEF EmailRead, UserCreated, ProfileRead, TokensGrow, session
    <2>3. (\E status : Finish(w, status)) \/ (\E blind : HashAndInsert(w, blind))
      BY <1>4 DEF EmailRead, UserCreated, CredentialsRead, RefreshRead, ProfileRead
    <2>4. /\ pc'[w] \in {"idle", "createUser"}
          /\ \A x \in Workers : x # w => pc'[x] = pc[x] /\ req'[x] = req[x]
      BY <2>3, CalmEnd
    <2>5. CalmInv'
      BY <2>1, <2>2, <2>4, CalmMove
    <2>6. pc[w] = "profileUser" => reply'[w] = "200"
      <3> SUFFICES ASSUME pc[w] = "profileUser" PROVE reply'[w] = "200"
        OBVIOUS
      <3>1. ProfileRead(w)
        BY <1>4 DEF EmailRead, UserCreated, CredentialsRead, RefreshRead, Answered
      <3>2. UserExists(w)
        BY DEF UserExists, CalmInv, SessionInv, TokensNameUsers
      <3> QED
        BY <3>1, <3>2 DEF ProfileRead, Finish, Shape, GoroutinesType
    <2> QED
      BY <2>4, <2>5, <2>6 DEF ProfilesAnswered
  <1> QED
    BY <1>1, <1>2, <1>3, <1>4 DEF QueryStep

LEMMA CalmStep ==
  ASSUME Events = {}, SessionInv, CalmInv, [Next]_vars
  PROVE  CalmInv' /\ ProfilesAnswered
  <1> Shape
    BY DEF SessionInv
  <1>1. ASSUME UNCHANGED <<server, conn, pairs, pc, req>>
        PROVE  CalmInv' /\ ProfilesAnswered
    BY <1>1 DEF CalmInv, ProfilesAnswered
  <1>2. ASSUME NEW w \in Workers, NEW query \in Queries, NEW r, Arrive(w, query, r),
               query \in {"refreshUser", "profileUser"} => r.pair \in 1..Len(pairs)
        PROVE  CalmInv' /\ ProfilesAnswered
    <2>1. /\ server' = "up" /\ conn' = conn /\ TokensGrow /\ pc[w] = "idle"
          /\ pc'[w] = query /\ req'[w] = r
          /\ \A x \in Workers : x # w => pc'[x] = pc[x] /\ req'[x] = req[x]
      BY <1>2 DEF Arrive, serverVars, session, TokensGrow, CalmInv, Shape, GoroutinesType
    <2>2. CalmInv'
      BY <1>2, <2>1, CalmMove DEF CalmInv
    <2> QED
      BY <2>1, <2>2 DEF ProfilesAnswered
  <1>3. ASSUME NEW w \in Workers, Reject(w) \/ Answer(w, "401") \/ \E i \in 1..Len(pairs) : LogoutUser(w, i)
        PROVE  CalmInv' /\ ProfilesAnswered
    BY <1>1, <1>3 DEF Reject, Answer, LogoutUser, serverVars, session
  <1>4. CASE UNCHANGED vars \/ Tick \/ \E t \in timers : TimerFires(t)
    BY <1>1, <1>4 DEF vars, Tick, TimerFires, serverVars, session, goroutines
  <1>5. /\ \A w \in Workers : ~ClientLeaves(w)
        /\ ~ShutdownBegins /\ ~ConnectionLost /\ ~ShutdownEnds /\ ~ShutdownTimesOut
        /\ ~ProcessCrash /\ ~ProcessRestart
    BY DEF ClientLeaves, ShutdownBegins, Signal, ConnectionLost, BreakIdle, ShutdownEnds, ShutdownDone,
           ShutdownTimesOut, ShutdownTimeout, ProcessCrash, Crash, ProcessRestart, Restart, CalmInv
  <1>6. ASSUME NEW w \in Workers, NEW i \in 1..Len(pairs), RefreshToken(w, i) \/ Profile(w, i)
        PROVE  CalmInv' /\ ProfilesAnswered
    <2> DEFINE r == [email |-> None, username |-> None, password |-> None, pair |-> i, blind |-> FALSE]
    <2>1. Answer(w, "401") \/ Arrive(w, "refreshUser", r) \/ Arrive(w, "profileUser", r)
      BY <1>6 DEF RefreshToken, Profile
    <2> QED
      BY <1>2, <1>3, <2>1 DEF Queries
  <1>7. ASSUME NEW w \in Workers, NEW r, Arrive(w, "byEmail", r) \/ Arrive(w, "byUsername", r)
        PROVE  CalmInv' /\ ProfilesAnswered
    BY <1>2, <1>7 DEF Queries
  <1> QED
    BY <1>3, <1>4, <1>5, <1>6, <1>7, CalmQueryStep DEF Next, RegisterUser, LoginUser

\* While nothing fails around the server, a profile request with a valid token is
\* answered with 200 unless the query of another goroutine is in flight when it
\* issues its own, however many requests there are and whatever was logged out,
\* registered or refreshed before: the user of the token is always there, and so
\* the shared connection is the only cause of its 404 (service/users.go:26-41,
\* tests/users_test.go:268).
THEOREM ProfilesFailOnlyWhenBusy ==
  ASSUME Events = {}
  PROVE  Spec => [][ProfilesAnswered]_vars
  <1>1. Init => CalmInv
    BY DEF Init, ServerInit, CalmInv
  <1>2. SessionInv /\ CalmInv /\ [Next]_vars => CalmInv' /\ ProfilesAnswered
    BY CalmStep
  <1> QED
    BY <1>1, <1>2, SessionInvariant, PTL DEF Spec
=============================================================================
