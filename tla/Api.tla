--------------------------------- MODULE Api ---------------------------------
(***************************************************************************)
(* The API process (cmd/api): each request passes the rate limiter, then   *)
(* the middlewares and the handler of its route, all of which share one    *)
(* pool of database connections, until the server is shut down.            *)
(*                                                                         *)
(* A transaction (WithTx) keeps its connection from its begin to its end.  *)
(* A statement outside a transaction takes a connection of its own, and so *)
(* does a read inside one that is made through the pool (s.db) and not the *)
(* transaction (ExtractTx): it waits while every connection is in use.     *)
(***************************************************************************)
EXTENDS RateLimiter, Sequences

CONSTANTS
    Routes,       \* routes in use, of those in Uses
    MaxOpenConns  \* size of the connection pool

ASSUME ConnectionsAssumption == MaxOpenConns \in Nat \ {0}

VARIABLES
    request,      \* what each handler serves: its route, and the next use
    inUse,        \* connections that transactions have taken from the pool
    server        \* the life of the process

apiVars == <<request, inUse, server>>
allVars == <<vars, apiVars>>

(***************************************************************************)
(* The uses a route makes of the database when nothing fails; uses of one  *)
(* kind in a row are one.  "read" goes through the pool, "write" through   *)
(* the transaction.  The others are of the middlewares (auth, the look-up  *)
(* of the idempotency key, the role, the store of the key) and of WithTx.  *)
(***************************************************************************)
Uses ==
    [token    |-> <<"read">>,
     wallet   |-> <<"auth", "read">>,
     checkout |-> <<"auth", "role", "read">>,
     register |-> <<"begin", "write", "commit">>,
     webhook  |-> <<"read", "begin", "write", "commit">>,
     refund   |-> <<"auth", "key", "role", "begin", "write", "commit", "store">>,
     transfer |-> <<"auth", "key", "role", "begin", "read", "write", "commit", "store">>]

ASSUME RoutesAssumption == Routes \subseteq DOMAIN Uses

None == [route |-> "none"]

NoRequest(h) == request[h] = None

Served == [route: Routes, at: 1..8]

ApiInit ==
    /\ Init
    /\ request = [h \in Handlers |-> None]
    /\ inUse = 0
    /\ server = "serving"

Running == server \in {"serving", "draining"}

Busy(h) == reading[h] # Idle \/ request[h] # None

-----------------------------------------------------------------------------
(***************************************************************************)
(* RateLimiterMiddleware: what Allow lets through goes on to its route.    *)
(***************************************************************************)
Arrive(h, ip) ==
    /\ server = "serving"
    /\ NoRequest(h)
    /\ Read(h, ip) \/ Refuse(h, ip)
    /\ UNCHANGED apiVars

Enter(h) ==
    /\ Running
    /\ NoRequest(h)
    /\ Count(h)
    /\ \E route \in Routes :
          request' = [request EXCEPT ![h] = [route |-> route, at |-> 1]]
    /\ UNCHANGED <<inUse, server>>

-----------------------------------------------------------------------------
UsesOf(h) == Uses[request[h].route]

Use(h) == UsesOf(h)[request[h].at]

Before(h) == {UsesOf(h)[i] : i \in 1..(request[h].at - 1)}

InTx(h) == ~ NoRequest(h) /\ "begin" \in Before(h) /\ "commit" \notin Before(h)

Stores(h) == UsesOf(h)[Len(UsesOf(h))] = "store"

Answer(h) == request' = [request EXCEPT ![h] = None]

GoOn(h) ==
    \/ request[h].at < Len(UsesOf(h)) /\ request' = [request EXCEPT ![h].at = @ + 1]
    \/ request[h].at = Len(UsesOf(h)) /\ Answer(h)

GoToStore(h) == request' = [request EXCEPT ![h].at = Len(UsesOf(h))]

Takes(h) == Use(h) \notin {"write", "commit"}

Blocked(h) == ~ NoRequest(h) /\ Takes(h) /\ inUse = MaxOpenConns

(***************************************************************************)
(* The next use of the database succeeds.  BeginTx keeps the connection it *)
(* takes, Commit returns it; a statement returns its own when it is done.  *)
(***************************************************************************)
Statement(h) ==
    /\ Use(h) \notin {"begin", "commit"}
    /\ GoOn(h) /\ UNCHANGED inUse

Begin(h) == Use(h) = "begin" /\ GoOn(h) /\ inUse' = inUse + 1

Commit(h) == Use(h) = "commit" /\ GoOn(h) /\ inUse' = inUse - 1

Step(h) ==
    /\ Running
    /\ ~ NoRequest(h)
    /\ ~ Blocked(h)
    /\ Statement(h) \/ Begin(h) \/ Commit(h)
    /\ UNCHANGED <<vars, server>>

(***************************************************************************)
(* A record of the key is found: its response is replayed, or a conflict.  *)
(***************************************************************************)
Replay(h) ==
    /\ Running
    /\ ~ NoRequest(h) /\ Use(h) = "key"
    /\ ~ Blocked(h)
    /\ Answer(h)
    /\ UNCHANGED <<vars, inUse, server>>

(***************************************************************************)
(* A use fails, or is not even tried because the handler has found a       *)
(* reason to refuse.  An open transaction is rolled back, and an error of  *)
(* the handler is an answer like any other, whose key is stored.           *)
(***************************************************************************)
\* Variant: an error return without Rollback.
NotReleased(h) == inUse

Released(h) == IF InTx(h) THEN inUse - 1 ELSE inUse

Fail(h) ==
    /\ Running
    /\ ~ NoRequest(h)
    /\ inUse' = Released(h)
    /\ IF Stores(h) /\ Use(h) \notin {"auth", "key", "store"} THEN GoToStore(h) ELSE Answer(h)
    /\ UNCHANGED <<vars, server>>

(***************************************************************************)
(* Each statement's context ends after five seconds, the wait for a        *)
(* connection included, and BeginTx's with the request's, after sixty.     *)
(***************************************************************************)
\* Variant: the contexts have no deadline.
TimeoutNever(h) == FALSE

Timeout(h) == Blocked(h) /\ Fail(h)

-----------------------------------------------------------------------------
(***************************************************************************)
(* run: after a signal the server accepts nothing more and waits for the   *)
(* requests in progress, but not longer than fifteen seconds.              *)
(***************************************************************************)
Signal ==
    /\ server = "serving"
    /\ server' = "draining"
    /\ UNCHANGED <<vars, request, inUse>>

Shutdown ==
    /\ server = "draining"
    /\ \A h \in Handlers : ~ Busy(h)
    /\ server' = "stopped"
    /\ UNCHANGED <<vars, request, inUse>>

ShutdownExpires ==
    /\ server = "draining"
    /\ \E h \in Handlers : Busy(h)
    /\ server' = "killed"
    /\ UNCHANGED <<vars, request, inUse>>

WindowEnd(ip) == Running /\ ResetCount(ip) /\ UNCHANGED apiVars

Terminating == ~ Running /\ UNCHANGED allVars

ApiNext ==
    \/ \E h \in Handlers :
          \/ \E ip \in Addresses : Arrive(h, ip)
          \/ Enter(h) \/ Step(h) \/ Replay(h) \/ Fail(h)
    \/ \E ip \in Addresses : WindowEnd(ip)
    \/ Signal \/ Shutdown \/ ShutdownExpires \/ Terminating

Fairness ==
    \A h \in Handlers : WF_allVars(Enter(h)) /\ WF_allVars(Step(h) \/ Timeout(h))

ApiSpec == ApiInit /\ [][ApiNext]_allVars /\ Fairness

-----------------------------------------------------------------------------
(***************************************************************************)
(* ConnectionsAreReturned: the connections in use are those of the open    *)
(* transactions: no way out of a handler, of all those its errors and its  *)
(* timeouts take, leaves the pool one smaller.                             *)
(***************************************************************************)
ConnectionsAreReturned == inUse = Cardinality({h \in Handlers : InTx(h)})

(***************************************************************************)
(* RequestsEnd: every request that the limiter let through is answered,    *)
(* although all connections may be held by transactions that wait for one  *)
(* more, unless a shutdown runs out of time.                               *)
(***************************************************************************)
RequestsEnd ==
    \A h \in Handlers : Busy(h) ~> (~ Busy(h) \/ server = "killed")

(***************************************************************************)
(* PoolIsNeverExhausted: some transaction that holds a connection can go   *)
(* on whenever all of them are held (SetMaxOpenConns, database.go:17).     *)
(***************************************************************************)
PoolIsNeverExhausted ==
    inUse = MaxOpenConns => \E h \in Handlers : InTx(h) /\ ~ Blocked(h)
=============================================================================
