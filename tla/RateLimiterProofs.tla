-------------------------- MODULE RateLimiterProofs --------------------------
(***************************************************************************)
(* How far a window can exceed its limit, and that the pool gets all its   *)
(* connections back, for every number of handlers, addresses and           *)
(* connections and every limit.                                            *)
(***************************************************************************)
EXTENDS Api, FiniteSetTheorems, TLAPS

LEMMA TypesAreKept == TypeOK /\ [Next]_vars => TypeOK'
<1> SUFFICES ASSUME TypeOK, [Next]_vars
             PROVE  TypeOK'
  OBVIOUS
<1>1. ASSUME NEW h \in Handlers, NEW ip \in Addresses, Read(h, ip)
      PROVE  TypeOK'
  BY <1>1 DEF TypeOK, Read, Between
<1>2. ASSUME NEW h \in Handlers, Count(h)
      PROVE  TypeOK'
  <2>1. reading[h].ip \in Addresses /\ Idle \in {Idle} \cup Between
    BY <1>2 DEF TypeOK, Count, Between
  <2> QED
    BY <1>2, <2>1 DEF TypeOK, Count
<1>3. ASSUME NEW ip \in Addresses, ResetCount(ip)
      PROVE  TypeOK'
  BY <1>3 DEF TypeOK, ResetCount
<1>4. CASE UNCHANGED vars
  BY <1>4 DEF TypeOK, vars
<1> QED
  BY <1>1, <1>2, <1>3, <1>4 DEF Next, Refuse

LEMMA PassedAreHandlers ==
    ASSUME NEW ip
    PROVE  /\ IsFiniteSet(Passed(ip))
           /\ Cardinality(Passed(ip)) \in Nat
           /\ Cardinality(Handlers) \in Nat
           /\ Cardinality(Passed(ip)) <= Cardinality(Handlers)
BY HandlersAssumption, FS_Subset, FS_CardinalityType DEF Passed

(***************************************************************************)
(* The limit is checked while at least one handler, the one that reads, is *)
(* not about to count; counting only turns a handler into a request.       *)
(***************************************************************************)
LEMMA OvershootIsKept ==
    TypeOK /\ BoundedOvershoot /\ [Next]_vars => BoundedOvershoot'
<1> SUFFICES ASSUME TypeOK, BoundedOvershoot, [Next]_vars, NEW ip \in Addresses
             PROVE  clients'[ip] + Cardinality(Passed(ip)')
                      <= Limit - 1 + Cardinality(Handlers)
  BY DEF BoundedOvershoot
<1>1. clients[ip] + Cardinality(Passed(ip)) <= Limit - 1 + Cardinality(Handlers)
  BY DEF BoundedOvershoot
<1>2. clients[ip] \in Nat /\ Limit \in Nat \ {0}
  BY LimitAssumption DEF TypeOK
<1>3. /\ Cardinality(Passed(ip)) \in Nat /\ Cardinality(Handlers) \in Nat /\ IsFiniteSet(Passed(ip))
      /\ Cardinality(Passed(ip)) <= Cardinality(Handlers)
  BY PassedAreHandlers
<1>4. CASE clients'[ip] = clients[ip] /\ Passed(ip)' = Passed(ip)
  BY <1>1, <1>4
<1>5. ASSUME NEW h \in Handlers, Read(h, ip)
      PROVE  clients'[ip] + Cardinality(Passed(ip)') <= Limit - 1 + Cardinality(Handlers)
  <2>1. clients'[ip] = clients[ip] /\ clients[ip] < Limit
    BY <1>5 DEF Read, BelowLimit
  <2>2. Cardinality(Passed(ip)') <= Cardinality(Handlers) /\ Cardinality(Passed(ip)') \in Nat
    BY HandlersAssumption, FS_Subset, FS_CardinalityType DEF Passed
  <2> QED
    BY <1>2, <1>3, <2>1, <2>2
<1>6. ASSUME NEW h \in Handlers, Count(h), reading[h].ip = ip
      PROVE  clients'[ip] + Cardinality(Passed(ip)') <= Limit - 1 + Cardinality(Handlers)
  <2>1. clients'[ip] = clients[ip] + 1
    BY <1>6 DEF Count, TypeOK
  <2>2. h \in Passed(ip) /\ Passed(ip)' = Passed(ip) \ {h}
    BY <1>6 DEF Count, Passed, TypeOK
  <2>3. Cardinality(Passed(ip) \ {h}) = Cardinality(Passed(ip)) - 1
    BY <1>3, <2>2, FS_RemoveElement
  <2> QED
    BY <1>1, <1>2, <1>3, <2>1, <2>2, <2>3
<1>7. CASE ResetCount(ip)
  <2>1. clients'[ip] = 0 /\ Passed(ip)' = Passed(ip)
    BY <1>7 DEF ResetCount, Passed, TypeOK
  <2> QED
    BY <1>2, <1>3, <2>1
<1>8. ASSUME NEW h \in Handlers, NEW other \in Addresses \ {ip}, Read(h, other)
      PROVE  clients'[ip] = clients[ip] /\ Passed(ip)' = Passed(ip)
  BY <1>8 DEF Read, Passed, TypeOK
<1>9. ASSUME NEW h \in Handlers, Count(h), reading[h].ip # ip
      PROVE  clients'[ip] = clients[ip] /\ Passed(ip)' = Passed(ip)
  BY <1>9 DEF Count, Passed, TypeOK
<1>10. ASSUME NEW other \in Addresses \ {ip}, ResetCount(other)
       PROVE  clients'[ip] = clients[ip] /\ Passed(ip)' = Passed(ip)
  BY <1>10 DEF ResetCount, Passed, TypeOK
<1>11. CASE UNCHANGED vars
  BY <1>4, <1>11 DEF vars, Passed
<1> QED
  BY <1>4, <1>5, <1>6, <1>7, <1>8, <1>9, <1>10, <1>11 DEF Next, Refuse

(***************************************************************************)
(* BoundedOvershoot for every number of handlers and every limit: what the *)
(* gap between the limiter's two critical sections can cost, at most.      *)
(***************************************************************************)
THEOREM Overshoot == Spec => []BoundedOvershoot
<1>1. Init => TypeOK
  BY DEF Init, TypeOK
<1>2. Init => BoundedOvershoot
  <2> SUFFICES ASSUME Init, NEW ip \in Addresses
               PROVE  clients[ip] + Cardinality(Passed(ip))
                        <= Limit - 1 + Cardinality(Handlers)
    BY DEF BoundedOvershoot
  <2>1. clients[ip] = 0
    BY DEF Init
  <2> QED
    BY <2>1, LimitAssumption, PassedAreHandlers
<1> QED
  BY <1>1, <1>2, TypesAreKept, OvershootIsKept, PTL DEF Spec

-----------------------------------------------------------------------------
(***************************************************************************)
(* The API process takes the limiter's steps only.                         *)
(***************************************************************************)
THEOREM ApiOvershoot == ApiSpec => []BoundedOvershoot
<1>1. ApiInit => Init
  BY DEF ApiInit
<1>2. [ApiNext]_allVars => [Next]_vars
  BY DEF ApiNext, Next, allVars, Arrive, Enter, Step, Replay, Fail, WindowEnd, Signal,
         Shutdown, ShutdownExpires, Terminating
<1> QED
  BY <1>1, <1>2, Overshoot, PTL DEF ApiSpec, Spec

-----------------------------------------------------------------------------
(***************************************************************************)
(* The programs of the routes, as far as the proof needs them: which uses  *)
(* lie between a begin and its commit.                                     *)
(***************************************************************************)
Places(route) == 1..Len(Uses[route])

Open(route, n) ==
    LET before == {Uses[route][i] : i \in 1..(n - 1)}
    IN  "begin" \in before /\ "commit" \notin before

LEMMA Programs ==
    ASSUME NEW route \in Routes
    PROVE  /\ Len(Uses[route]) \in 1..8
           /\ ~ Open(route, 1)
           /\ \A n \in Places(route) :
                 /\ Uses[route][n] = "begin" =>
                       ~ Open(route, n) /\ n < Len(Uses[route]) /\ Open(route, n + 1)
                 /\ Uses[route][n] = "commit" => Open(route, n) /\ ~ Open(route, n + 1)
                 /\ Uses[route][n] = "key" => ~ Open(route, n)
                 /\ Uses[route][n] \notin {"begin", "commit"} =>
                       /\ n < Len(Uses[route]) => (Open(route, n) <=> Open(route, n + 1))
                       /\ n = Len(Uses[route]) => ~ Open(route, n)
           /\ Uses[route][Len(Uses[route])] = "store" => ~ Open(route, Len(Uses[route]))
<1> DEFINE Sound(s) ==
        LET O(n) == LET before == {s[i] : i \in 1..(n - 1)}
                    IN  "begin" \in before /\ "commit" \notin before
        IN  /\ Len(s) \in 1..8
            /\ ~ O(1)
            /\ \A n \in 1..Len(s) :
                 /\ s[n] = "begin" => ~ O(n) /\ n < Len(s) /\ O(n + 1)
                 /\ s[n] = "commit" => O(n) /\ ~ O(n + 1)
                 /\ s[n] = "key" => ~ O(n)
                 /\ s[n] \notin {"begin", "commit"} =>
                       /\ n < Len(s) => (O(n) <=> O(n + 1))
                       /\ n = Len(s) => ~ O(n)
            /\ s[Len(s)] = "store" => ~ O(Len(s))
<1>1. Sound(<<"read">>)
  OBVIOUS
<1>2. Sound(<<"auth", "read">>)
  OBVIOUS
<1>3. Sound(<<"auth", "role", "read">>)
  OBVIOUS
<1>4. Sound(<<"begin", "write", "commit">>)
  OBVIOUS
<1>5. Sound(<<"read", "begin", "write", "commit">>)
  OBVIOUS
<1>6. Sound(<<"auth", "key", "role", "begin", "write", "commit", "store">>)
  OBVIOUS
<1>7. Sound(<<"auth", "key", "role", "begin", "read", "write", "commit", "store">>)
  OBVIOUS
<1>8. Sound(Uses[route])
  <2>1. route \in {"token", "wallet", "checkout", "register", "webhook", "refund", "transfer"}
    BY RoutesAssumption DEF Uses
  <2> HIDE DEF Sound
  <2> QED
    BY <1>1, <1>2, <1>3, <1>4, <1>5, <1>6, <1>7, <2>1 DEF Uses
<1> QED
  BY <1>8 DEF Open, Places

(***************************************************************************)
(* A request is at a place of its route's program, and the pool has given  *)
(* out as many connections as there are transactions open.                 *)
(***************************************************************************)
RequestsAreServed ==
    \A h \in Handlers : ~ NoRequest(h) =>
        /\ request[h].route \in Routes
        /\ request[h].at \in Places(request[h].route)

OpenTransactions == {h \in Handlers : InTx(h)}

PoolInv ==
    /\ request \in [Handlers -> {None} \cup Served]
    /\ RequestsAreServed
    /\ ConnectionsAreReturned

LEMMA OpenIsInTx ==
    ASSUME NEW h \in Handlers
    PROVE  InTx(h) <=> ~ NoRequest(h) /\ Open(request[h].route, request[h].at)
BY DEF InTx, Before, UsesOf, Open

(***************************************************************************)
(* What a step of one handler does to the transactions that are open.      *)
(***************************************************************************)
Moves(h) ==
    /\ request' = [request EXCEPT ![h] = request'[h]]
    /\ \/ request'[h] = None
       \/ /\ request'[h] \in Served
          /\ request'[h].at \in Places(request'[h].route)

LEMMA MoveKeepsPoolInv ==
    ASSUME PoolInv, NEW h \in Handlers, Moves(h),
           \/ InTx(h) = InTx(h)' /\ inUse' = inUse
           \/ ~ InTx(h) /\ InTx(h)' /\ inUse' = inUse + 1
           \/ InTx(h) /\ ~ InTx(h)' /\ inUse' = inUse - 1
    PROVE  PoolInv'
<1>1. request' \in [Handlers -> {None} \cup Served] /\ \A o \in Handlers \ {h} : request'[o] = request[o]
  BY DEF PoolInv, Moves
<1>2. RequestsAreServed'
  BY <1>1 DEF PoolInv, RequestsAreServed, Moves, NoRequest, Served, None, Places
<1>3. \A o \in Handlers \ {h} : InTx(o)' = InTx(o)
  BY <1>1 DEF InTx, Before, UsesOf, NoRequest
<1>4. IsFiniteSet(OpenTransactions) /\ inUse = Cardinality(OpenTransactions)
      /\ Cardinality(OpenTransactions) \in Nat
  BY HandlersAssumption, FS_Subset, FS_CardinalityType
     DEF OpenTransactions, PoolInv, ConnectionsAreReturned
<1>5. inUse' = Cardinality(OpenTransactions')
  <2>1. CASE InTx(h) = InTx(h)' /\ inUse' = inUse
    <3>1. OpenTransactions' = OpenTransactions
      BY <1>3, <2>1 DEF OpenTransactions
    <3> QED
      BY <1>4, <2>1, <3>1
  <2>2. CASE ~ InTx(h) /\ InTx(h)' /\ inUse' = inUse + 1
    <3>1. OpenTransactions' = OpenTransactions \cup {h} /\ h \notin OpenTransactions
      BY <1>3, <2>2 DEF OpenTransactions
    <3> QED
      BY <1>4, <2>2, <3>1, FS_AddElement
  <2>3. CASE InTx(h) /\ ~ InTx(h)' /\ inUse' = inUse - 1
    <3>1. OpenTransactions' = OpenTransactions \ {h} /\ h \in OpenTransactions
      BY <1>3, <2>3 DEF OpenTransactions
    <3> QED
      BY <1>4, <2>3, <3>1, FS_RemoveElement
  <2> QED
    BY <2>1, <2>2, <2>3
<1> QED
  BY <1>1, <1>2, <1>5 DEF PoolInv, ConnectionsAreReturned, OpenTransactions

(***************************************************************************)
(* One lemma for each way a request goes on.                               *)
(***************************************************************************)
LEMMA BusyAreServed ==
    ASSUME PoolInv, NEW h \in Handlers, ~ NoRequest(h)
    PROVE  /\ request[h] \in Served /\ request[h].route \in Routes
           /\ request[h].at \in Places(request[h].route)
           /\ request \in [Handlers -> {None} \cup Served]
           /\ Use(h) = Uses[request[h].route][request[h].at]
           /\ UsesOf(h) = Uses[request[h].route]
BY DEF PoolInv, RequestsAreServed, NoRequest, Served, Use, UsesOf

LEMMA ServedIsNotNone ==
    \A c \in Served : c # None /\ c.route \in Routes /\ c.at \in 1..8
<1> TAKE c \in Served
<1>1. c = [route |-> c.route, at |-> c.at] /\ c.route \in Routes /\ c.at \in 1..8
  BY DEF Served
<1>2. c.route # "none"
  BY <1>1, RoutesAssumption DEF Uses
<1> QED
  BY <1>1, <1>2 DEF None

LEMMA PlacesAreServed ==
    ASSUME NEW route \in Routes
    PROVE  /\ 1 \in Places(route) /\ Len(Uses[route]) \in Places(route)
           /\ \A n \in Places(route) : [route |-> route, at |-> n] \in Served
<1>1. Len(Uses[route]) \in 1..8
  BY Programs
<1>2. \A n \in Places(route) : n \in 1..8
  <2> DEFINE len == Len(Uses[route])
  <2>1. len \in 1..8 => \A n \in 1..len : n \in 1..8
    <3> HIDE DEF len
    <3> QED
      OBVIOUS
  <2> QED
    BY <1>1, <2>1 DEF Places
<1> QED
  BY <1>1, <1>2 DEF Places, Served

LEMMA GoingOn ==
    ASSUME PoolInv, NEW h \in Handlers, ~ NoRequest(h), GoOn(h),
           \/ Use(h) \notin {"begin", "commit"} /\ inUse' = inUse
           \/ Use(h) = "begin" /\ inUse' = inUse + 1
           \/ Use(h) = "commit" /\ inUse' = inUse - 1
    PROVE  PoolInv'
<1> DEFINE route == request[h].route
           n == request[h].at
           next == [route |-> route, at |-> n + 1]
<1>1. /\ request[h] \in Served /\ route \in Routes /\ n \in Places(route)
      /\ Len(Uses[route]) \in 1..8
      /\ request \in [Handlers -> {None} \cup Served]
      /\ Use(h) = Uses[route][n] /\ UsesOf(h) = Uses[route]
  BY BusyAreServed, Programs
<1>2. CASE n < Len(Uses[route])
  <2>1. request' = [request EXCEPT ![h] = next] /\ request'[h] = next
    <3>1. [request[h] EXCEPT !.at = @ + 1] = next
      BY <1>1 DEF Served
    <3>2. request' = [request EXCEPT ![h] = [request[h] EXCEPT !.at = @ + 1]]
      BY <1>1, <1>2 DEF GoOn
    <3>3. request' = [request EXCEPT ![h] = next]
      BY <3>1, <3>2
    <3> QED
      BY <1>1, <3>3
  <2>2. next \in Served /\ next.at \in Places(next.route)
    <3>1. n + 1 \in Places(route)
      BY <1>1, <1>2 DEF Places
    <3> QED
      BY <1>1, <3>1, PlacesAreServed
  <2>3. Moves(h)
    BY <2>1, <2>2 DEF Moves
  <2>4. (InTx(h) <=> Open(route, n)) /\ (InTx(h)' <=> Open(route, n + 1))
    <3>1. ~ NoRequest(h)'
      BY <2>1, <2>2, ServedIsNotNone DEF NoRequest
    <3>2. request'[h].route = route /\ request'[h].at = n + 1
      BY <2>1
    <3> QED
      BY <3>1, <3>2, OpenIsInTx DEF InTx, Before, UsesOf, Open
  <2>5. /\ Use(h) = "begin" => ~ Open(route, n) /\ Open(route, n + 1)
        /\ Use(h) = "commit" => Open(route, n) /\ ~ Open(route, n + 1)
        /\ Use(h) \notin {"begin", "commit"} => (Open(route, n) <=> Open(route, n + 1))
    BY <1>1, <1>2, Programs
  <2>6. InTx(h) \in BOOLEAN /\ InTx(h)' \in BOOLEAN
    BY DEF InTx
  <2> HIDE DEF route, n, next
  <2> QED
    BY <2>3, <2>4, <2>5, <2>6, MoveKeepsPoolInv
<1>3. CASE ~ (n < Len(Uses[route]))
  <2>1. n = Len(Uses[route])
    BY <1>1, <1>3 DEF Places
  <2>2. request' = [request EXCEPT ![h] = None] /\ request'[h] = None
    BY <1>1, <1>3, <2>1 DEF GoOn, Answer
  <2>3. Moves(h) /\ ~ InTx(h)'
    BY <2>2 DEF Moves, InTx, NoRequest
  <2>4. InTx(h) <=> Open(route, n)
    BY OpenIsInTx
  <2>5. /\ Use(h) # "begin"
        /\ Use(h) = "commit" => Open(route, n)
        /\ Use(h) \notin {"begin", "commit"} => ~ Open(route, n)
    BY <1>1, <2>1, Programs
  <2>6. InTx(h) \in BOOLEAN /\ InTx(h)' \in BOOLEAN
    BY DEF InTx
  <2> HIDE DEF route, n, next
  <2> QED
    BY <2>3, <2>4, <2>5, <2>6, MoveKeepsPoolInv
<1> QED
  BY <1>2, <1>3

LEMMA Answering ==
    ASSUME PoolInv, NEW h \in Handlers, ~ NoRequest(h), Answer(h), inUse' = Released(h)
    PROVE  PoolInv'
<1>1. request' = [request EXCEPT ![h] = None] /\ request'[h] = None
  BY DEF Answer, PoolInv
<1>2. Moves(h) /\ ~ InTx(h)'
  BY <1>1 DEF Moves, InTx, NoRequest
<1>3. InTx(h) \in BOOLEAN /\ InTx(h)' \in BOOLEAN
  BY DEF InTx
<1> QED
  BY <1>2, <1>3, MoveKeepsPoolInv DEF Released

LEMMA Storing ==
    ASSUME PoolInv, NEW h \in Handlers, ~ NoRequest(h), Stores(h), GoToStore(h),
           inUse' = Released(h)
    PROVE  PoolInv'
<1> DEFINE route == request[h].route
           next == [route |-> route, at |-> Len(Uses[route])]
<1>1. /\ request[h] \in Served /\ route \in Routes
      /\ request \in [Handlers -> {None} \cup Served]
      /\ Len(Uses[route]) \in 1..8 /\ UsesOf(h) = Uses[route]
  BY BusyAreServed, Programs
<1>2. request' = [request EXCEPT ![h] = next] /\ request'[h] = next
  <2>1. [request[h] EXCEPT !.at = Len(Uses[route])] = next
    BY <1>1 DEF Served
  <2>2. request' = [request EXCEPT ![h] = [request[h] EXCEPT !.at = Len(Uses[route])]]
    BY <1>1 DEF GoToStore
  <2>3. request' = [request EXCEPT ![h] = next]
    BY <2>1, <2>2
  <2> QED
    BY <1>1, <2>3
<1>3. next \in Served /\ next.at \in Places(next.route)
  BY <1>1, PlacesAreServed
<1>4. Moves(h)
  BY <1>2, <1>3 DEF Moves
<1>5. ~ InTx(h)'
  <2>1. ~ Open(route, Len(Uses[route]))
    BY <1>1, Programs DEF Stores
  <2> QED
    BY <1>2, <2>1 DEF InTx, Before, UsesOf, Open
<1>6. InTx(h) \in BOOLEAN /\ InTx(h)' \in BOOLEAN
  BY DEF InTx
<1> QED
  BY <1>4, <1>5, <1>6, MoveKeepsPoolInv DEF Released

LEMMA PoolInvIsKept == PoolInv /\ [ApiNext]_allVars => PoolInv'
<1> SUFFICES ASSUME PoolInv, [ApiNext]_allVars
             PROVE  PoolInv'
  OBVIOUS
<1>1. CASE UNCHANGED <<request, inUse>>
  BY <1>1 DEF PoolInv, RequestsAreServed, NoRequest, ConnectionsAreReturned, InTx, Before,
              UsesOf
<1>2. ASSUME NEW h \in Handlers, Enter(h)
      PROVE  PoolInv'
  <2>1. PICK route \in Routes :
             request' = [request EXCEPT ![h] = [route |-> route, at |-> 1]]
    BY <1>2 DEF Enter
  <2> DEFINE first == [route |-> route, at |-> 1]
  <2>2. request'[h] = first /\ first \in Served /\ first.at \in Places(first.route)
    BY <2>1, PlacesAreServed DEF PoolInv
  <2>3. Moves(h)
    BY <2>1, <2>2 DEF Moves
  <2>4. ~ InTx(h) /\ ~ InTx(h)' /\ inUse' = inUse
    <3>1. ~ Open(route, 1)
      BY Programs
    <3> QED
      BY <1>2, <2>2, <3>1 DEF Enter, InTx, Before, UsesOf, Open
  <2>5. InTx(h) \in BOOLEAN /\ InTx(h)' \in BOOLEAN
    BY DEF InTx
  <2> QED
    BY <2>3, <2>4, <2>5, MoveKeepsPoolInv
<1>3. ASSUME NEW h \in Handlers, Step(h)
      PROVE  PoolInv'
  BY <1>3, GoingOn DEF Step, Statement, Begin, Commit
<1>4. ASSUME NEW h \in Handlers, Replay(h)
      PROVE  PoolInv'
  <2>1. ~ InTx(h)
    BY <1>4, BusyAreServed, Programs, OpenIsInTx DEF Replay
  <2> QED
    BY <1>4, <2>1, Answering DEF Replay, Released
<1>5. ASSUME NEW h \in Handlers, Fail(h)
      PROVE  PoolInv'
  BY <1>5, Answering, Storing DEF Fail
<1> QED
  BY <1>1, <1>2, <1>3, <1>4, <1>5
     DEF ApiNext, allVars, apiVars, Arrive, WindowEnd, Signal, Shutdown, ShutdownExpires,
         Terminating

(***************************************************************************)
(* Whatever fails, the pool gets every connection back: those in use are   *)
(* those of the open transactions.                                         *)
(***************************************************************************)
THEOREM NoConnectionLeaks == ApiSpec => []ConnectionsAreReturned
<1>1. ApiInit => PoolInv
  <2> SUFFICES ASSUME ApiInit
               PROVE  PoolInv
    OBVIOUS
  <2>1. {h \in Handlers : InTx(h)} = {}
    BY DEF ApiInit, InTx, NoRequest
  <2> QED
    BY <2>1, FS_EmptySet
       DEF ApiInit, PoolInv, RequestsAreServed, NoRequest, ConnectionsAreReturned
<1>2. PoolInv => ConnectionsAreReturned
  BY DEF PoolInv
<1> QED
  BY <1>1, <1>2, PoolInvIsKept, PTL DEF ApiSpec
=============================================================================
