-------------------------- MODULE AccountsInvariant --------------------------
(***************************************************************************)
(* The inductive invariant from which the properties of Accounts follow.   *)
(* TLC checks it on the small instances, AccountsProofs proves it.         *)
(***************************************************************************)
EXTENDS Accounts

\* A row takes its values from the request that inserts it.
RegistrationShape(w) ==
    pc[w] \in {"byEmail", "createUser"} =>
        req[w].email \in Emails /\ req[w].username \in Usernames /\ req[w].password \in Passwords

GoroutinesType ==
    /\ pc \in [Workers -> Queries \cup {"idle"}]
    /\ req \in [Workers -> Request]
    /\ reply \in [Workers -> Statuses]
    /\ gone \subseteq Workers
    /\ \A w \in Workers : RegistrationShape(w)

SessionType ==
    /\ pairs \in Seq(Pair)
    /\ now \in Nat
    /\ blacklist \subseteq Nat
    /\ timers \subseteq Timer
    /\ loggedOut \subseteq Nat

Shape ==
    /\ ServerTypeOK
    /\ users \in Seq(Row)
    /\ SessionType
    /\ GoroutinesType

\* Whatever was logged out was issued, and a timer is due when its token
\* expires: none of the timers of a token can revive it.
TimersOnTime ==
    /\ loggedOut \subseteq 1..Len(pairs)
    /\ \A t \in timers : t.pair \in 1..Len(pairs) /\ t.at = AccessExpiry(t.pair)

\* What every reachable state satisfies: tokens name users, each timer is due at
\* the expiry of its own token, and so logouts are remembered
\* (service/auth.go:90-95, jwt.go:127-135).
SessionInv ==
    /\ Shape
    /\ TokensNameUsers
    /\ TimersOnTime
    /\ BlacklistTimed
    /\ LogoutRemembered

-----------------------------------------------------------------------------
(* Requests one at a time.                                                 *)

\* The lookup by email and the insert are two queries, and the error of the
\* first is dropped.  An insert that follows a failed lookup is not sent when the
\* connection is closed or the context of the request is cancelled; one that may
\* still be executed is blind, or it has found its email free and it still is.
InsertsFindEmailFree ==
    \A w \in Workers :
        pc[w] = "createUser" =>
            \/ conn = "closed"
            \/ conn # w /\ w \in gone
            \/ req[w].blind
            \/ RowsByEmail(req[w].email) = {}

OneHandler == \A w, x \in Handlers : w = x

\* What every reachable state satisfies when requests come one at a time.
EmailInv ==
    /\ EmailsChecked
    /\ InsertsFindEmailFree
    /\ OneHandler
    /\ server = "down" => Handlers = {}
=============================================================================
