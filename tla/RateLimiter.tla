----------------------------- MODULE RateLimiter -----------------------------
(***************************************************************************)
(* The fixed-window rate limiter (internal/ratelimiter): handlers call     *)
(* Allow for their client's address, which reads the count under the read  *)
(* lock, releases it, and counts under the write lock; the first request   *)
(* of a window starts a goroutine that deletes the entry a window later.   *)
(***************************************************************************)
EXTENDS Integers, FiniteSets

CONSTANTS
    Handlers,    \* goroutines serving requests, one request at a time each
    Addresses,   \* client addresses
    Limit,       \* requests per window
    MaxTimers    \* bound: resetCount goroutines asleep when one more is due

ASSUME HandlersAssumption == IsFiniteSet(Handlers)
ASSUME LimitAssumption == Limit \in Nat \ {0}

VARIABLES
    clients,     \* requests counted per address; 0 when there is no entry
    timers,      \* resetCount goroutines asleep, per address
    reading      \* between the two locks: the address and whether it existed

vars == <<clients, timers, reading>>

Idle == [phase |-> "idle"]

Between == [phase: {"between"}, ip: Addresses, exists: BOOLEAN]

TypeOK ==
    /\ clients \in [Addresses -> Nat]
    /\ timers \in [Addresses -> Nat]
    /\ reading \in [Handlers -> {Idle} \cup Between]

Init ==
    /\ clients = [ip \in Addresses |-> 0]
    /\ timers = [ip \in Addresses |-> 0]
    /\ reading = [h \in Handlers |-> Idle]

\* Variant: off by one.
AtMostLimit(count) == count <= Limit

BelowLimit(count) == count < Limit

(***************************************************************************)
(* The first half of Allow, under the read lock: a count below the limit   *)
(* lets the request through, one at the limit refuses it.                  *)
(***************************************************************************)
Read(h, ip) ==
    /\ reading[h] = Idle
    /\ BelowLimit(clients[ip])
    /\ clients[ip] = 0 => timers[ip] < MaxTimers
    /\ reading' = [reading EXCEPT ![h] =
                      [phase |-> "between", ip |-> ip, exists |-> clients[ip] > 0]]
    /\ UNCHANGED <<clients, timers>>

Refuse(h, ip) ==
    /\ reading[h] = Idle
    /\ ~ BelowLimit(clients[ip])
    /\ UNCHANGED vars

(***************************************************************************)
(* The second half, under the write lock, decides by what was read.        *)
(***************************************************************************)
Count(h) ==
    /\ reading[h] # Idle
    /\ clients' = [clients EXCEPT ![reading[h].ip] = @ + 1]
    /\ timers' = IF reading[h].exists THEN timers
                 ELSE [timers EXCEPT ![reading[h].ip] = @ + 1]
    /\ reading' = [reading EXCEPT ![h] = Idle]

(***************************************************************************)
(* A window has passed for one of the goroutines.                          *)
(***************************************************************************)
ResetCount(ip) ==
    /\ timers[ip] > 0
    /\ clients' = [clients EXCEPT ![ip] = 0]
    /\ timers' = [timers EXCEPT ![ip] = @ - 1]
    /\ UNCHANGED reading

Next ==
    \/ \E h \in Handlers : Count(h) \/ \E ip \in Addresses : Read(h, ip) \/ Refuse(h, ip)
    \/ \E ip \in Addresses : ResetCount(ip)

Spec == Init /\ [][Next]_vars

-----------------------------------------------------------------------------
Passed(ip) == {h \in Handlers : reading[h] # Idle /\ reading[h].ip = ip}

(***************************************************************************)
(* BoundedOvershoot: the count is read and raised under two locks, so a    *)
(* window may admit more than Limit requests, but never more than one less *)
(* than the handlers at work: the requests admitted and those about to be. *)
(***************************************************************************)
BoundedOvershoot ==
    \A ip \in Addresses :
        clients[ip] + Cardinality(Passed(ip)) <= Limit - 1 + Cardinality(Handlers)

(***************************************************************************)
(* WithinLimit: a window admits at most Limit requests, the                *)
(* RequestPerTimeFrame of the configuration (ratelimiter.go:10).           *)
(***************************************************************************)
WithinLimit == \A ip \in Addresses : clients[ip] <= Limit

(***************************************************************************)
(* WindowEnds: a counted address has a goroutine that will reset it, or a  *)
(* handler about to start one, so that retrying after the window that a    *)
(* refusal names (errors.go, "retry after") can succeed.                   *)
(***************************************************************************)
WindowEnds ==
    \A ip \in Addresses :
        clients[ip] > 0 => \/ timers[ip] > 0
                           \/ \E h \in Passed(ip) : ~ reading[h].exists
=============================================================================
