------------------------------- MODULE Server -------------------------------
(***************************************************************************)
(* The server process and the one database connection it holds.           *)
(*                                                                         *)
(* NewDependencies opens a single *pgx.Conn that every service shares      *)
(* (dependencies.go:27,33): there is no pool.  pgx refuses a query while   *)
(* another one is in flight ("conn busy"), and it closes the connection    *)
(* for good when the context of a query in flight is cancelled or when the *)
(* network fails; only a new process dials again.  pgx is not under src/;  *)
(* it is modelled from how the services call it.                           *)
(*                                                                         *)
(* The module has no specification of its own: the components extend it    *)
(* and say what their goroutines do when the connection or the process     *)
(* fails.                                                                  *)
(***************************************************************************)
EXTENDS Naturals

CONSTANTS
    Workers,      \* goroutine slots: the most goroutines alive at a time
    Sequential,   \* do clients send a request only when no other is being handled?
    Events,       \* what the environment does: see EventKinds
    MaxRestarts   \* bound: how many times a stopped process is started again

EventKinds ==
    { "disconnect",   \* a client goes away: its request's context is cancelled
      "loss",         \* the TCP connection to Postgres breaks
      "error",        \* Postgres answers a statement with an error
      "crash",        \* the process dies
      "storage",      \* a call to MinIO, or the reading of an uploaded file, fails
      "cache",        \* a call to Redis fails
      "shutdown" }    \* the process receives SIGINT or SIGTERM

ASSUME ServerAssumption ==
    /\ Sequential \in BOOLEAN
    /\ Events \subseteq EventKinds
    /\ MaxRestarts \in Nat
    /\ {"idle", "closed"} \cap Workers = {}

VARIABLES
    server,     \* "up", "draining" (in http.Server.Shutdown) or "down"
    conn,       \* "idle", "closed" or the goroutine whose query is in flight
    restarts    \* how many times the process has been started again

\* What a request is answered with; "none" until it is.
Statuses == {"none", "200", "201", "400", "401", "403", "404", "409", "500"}

serverVars == <<server, conn, restarts>>

ServerTypeOK ==
    /\ server \in {"up", "draining", "down"}
    /\ conn \in {"idle", "closed"} \cup Workers
    /\ restarts \in Nat

ServerInit == server = "up" /\ conn = "idle" /\ restarts = 0

\* May a request arrive while the requests "handlers" are being handled?  A price
\* update that a bid has left behind is not one of them: its request has been
\* answered.
Admits(handlers) == server = "up" /\ (Sequential => handlers = {})

-----------------------------------------------------------------------------
(* What pgx does with a query of goroutine w. *)

\* The connection is free: the query is sent.
Acquire(w) == conn = "idle" /\ conn' = w /\ UNCHANGED <<server, restarts>>

\* The query fails before anything is sent: the connection is busy or closed.
Refused(w) == conn \notin {"idle", w} /\ UNCHANGED serverVars

\* The context is already cancelled when the query is issued.
CancelledBefore(w) == "disconnect" \in Events /\ conn # w /\ UNCHANGED serverVars

\* The answer of the query in flight arrives.
Release(w) == conn = w /\ conn' = "idle" /\ UNCHANGED <<server, restarts>>

\* Postgres answers the query in flight with an error (a statement timeout, a
\* deadlock, a full disk): nothing has been executed, and the connection survives.
Errs(w) ==
    "error" \in Events /\ conn = w /\ conn' = "idle" /\ UNCHANGED <<server, restarts>>

\* The query in flight is interrupted and the connection is closed.  The
\* context of a handler is its request's; a background context is never
\* cancelled.
Break(w, cancellable) ==
    /\ conn = w
    /\ "loss" \in Events \/ ("disconnect" \in Events /\ cancellable)
    /\ conn' = "closed"
    /\ UNCHANGED <<server, restarts>>

\* The connection breaks while no query is in flight.
BreakIdle ==
    "loss" \in Events /\ conn = "idle" /\ conn' = "closed" /\ UNCHANGED <<server, restarts>>

-----------------------------------------------------------------------------
(* The life of the process (server.go).  "handlers" is the set of requests *)
(* that are being handled: Shutdown waits for them and for nothing else.   *)

\* A signal arrives: Run stops accepting requests.
Signal ==
    "shutdown" \in Events /\ server = "up" /\ server' = "draining" /\ UNCHANGED <<conn, restarts>>

\* Every way to end the process takes the connection with it.
Exit == server' = "down" /\ conn' = "closed" /\ UNCHANGED restarts

\* All handlers have returned: Run closes the cache and the connection.
ShutdownDone(handlers) == server = "draining" /\ handlers = {} /\ Exit

\* Thirty seconds have passed: Run returns the error and main exits with 1.
ShutdownTimeout(handlers) == server = "draining" /\ handlers # {} /\ Exit

Crash == "crash" \in Events /\ server # "down" /\ Exit

\* A new process connects to the database again.
Restart ==
    /\ server = "down"
    /\ restarts < MaxRestarts
    /\ server' = "up"
    /\ conn' = "idle"
    /\ restarts' = restarts + 1
=============================================================================
