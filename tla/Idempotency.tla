---------------------------- MODULE Idempotency ----------------------------
(***************************************************************************)
(* The idempotency middleware (internal/middlewares) and its table of      *)
(* keys: a request is looked up, its handler runs, its response is stored  *)
(* and then sent, in four steps that no lock or transaction holds          *)
(* together.  A retry of a client is another request with the same user,   *)
(* key, route and body.                                                    *)
(***************************************************************************)
CONSTANTS
    Requests,     \* requests that carry an Idempotency-Key
    Users,
    Keys,
    Routes,       \* methods and paths, the token in a path included
    Bodies,       \* request bodies, told apart by their hashes
    Unreliable    \* requests whose statements, process or client may fail

ASSUME UnreliableAssumption == Unreliable \subseteq Requests
ASSUME AnswersAssumption == {"none", "conflict"} \cap Requests = {}

VARIABLES
    pc,           \* where Wrap is in each request
    call,         \* user, key, route and body of each request
    keys,         \* table idempotency_keys
    executed,     \* requests whose handler took effect
    answer,       \* what each client was sent
    before        \* history: the requests that had ended when each began

vars == <<pc, call, keys, executed, answer, before>>

Call == [user: Users, key: Keys, route: Routes, body: Bodies]

NoCall == [user |-> "none"]

(***************************************************************************)
(* The response of a handler is known by the request it was written for.   *)
(* A row holds the user, the key and the hash of the body; its route is    *)
(* there to speak about, no query or comparison sees it.                   *)
(***************************************************************************)
IdempotencyKey == [call: Call, response: Requests]

Ended == {r \in Requests : pc[r] \in {"done", "lost"}}

Init ==
    /\ pc = [r \in Requests |-> "idle"]
    /\ call = [r \in Requests |-> NoCall]
    /\ keys = {}
    /\ executed = {}
    /\ answer = [r \in Requests |-> "none"]
    /\ before = [r \in Requests |-> {}]

-----------------------------------------------------------------------------
(***************************************************************************)
(* Get: the row of this key and user.  Any error but "no rows" leaves an   *)
(* empty record, whose hash equals none, and no error.                     *)
(***************************************************************************)
\* Variant: the body belongs to the look-up.
MatchesBody(k, c) == k.call = c

Matches(k, c) == k.call.key = c.key /\ k.call.user = c.user

\* Variant: the hashes are not compared.
AnyHash(k, c) == TRUE

SameHash(k, c) == k.call.body = c.body

Existing(c) == {k \in keys : Matches(k, c)}

Begin(r, c, phase) ==
    /\ pc[r] = "idle"
    /\ pc' = [pc EXCEPT ![r] = phase]
    /\ call' = [call EXCEPT ![r] = c]
    /\ before' = [before EXCEPT ![r] = Ended]
    /\ UNCHANGED <<keys, executed>>

Replay(r, c) ==
    /\ Begin(r, c, "done")
    /\ \E k \in Existing(c) :
          /\ SameHash(k, c)
          /\ answer' = [answer EXCEPT ![r] = k.response]

Conflict(r, c) ==
    /\ Begin(r, c, "done")
    /\ \/ \E k \in Existing(c) : ~ SameHash(k, c)
       \/ r \in Unreliable
    /\ answer' = [answer EXCEPT ![r] = "conflict"]

Miss(r, c) ==
    /\ Begin(r, c, "handling")
    /\ Existing(c) = {}
    /\ UNCHANGED answer

(***************************************************************************)
(* next.ServeHTTP: the handler takes effect or refuses.  Either response   *)
(* is captured.                                                            *)
(***************************************************************************)
Handle(r) ==
    /\ pc[r] = "handling"
    /\ executed' \in {executed, executed \cup {r}}
    /\ pc' = [pc EXCEPT ![r] = "storing"]
    /\ UNCHANGED <<call, keys, answer, before>>

(***************************************************************************)
(* Create: the primary key of the table is the key without the user, and   *)
(* its error is dropped.                                                   *)
(***************************************************************************)
KeyTaken(c) == \E k \in keys : k.call.key = c.key

Store(r) ==
    /\ pc[r] = "storing"
    /\ \/ /\ ~ KeyTaken(call[r])
          /\ keys' = keys \cup {[call |-> call[r], response |-> r]}
       \/ /\ KeyTaken(call[r]) \/ r \in Unreliable
          /\ UNCHANGED keys
    /\ pc' = [pc EXCEPT ![r] = "stored"]
    /\ UNCHANGED <<call, executed, answer, before>>

(***************************************************************************)
(* The server sends the buffered response once Wrap has returned, whether  *)
(* it was stored or not.                                                   *)
(***************************************************************************)
Respond(r) ==
    /\ pc[r] = "stored"
    /\ pc' = [pc EXCEPT ![r] = "done"]
    /\ answer' = [answer EXCEPT ![r] = r]
    /\ UNCHANGED <<call, keys, executed, before>>

(***************************************************************************)
(* The process or the connection ends before the response is sent.         *)
(***************************************************************************)
Crash(r) ==
    /\ r \in Unreliable
    /\ pc[r] \in {"handling", "storing", "stored"}
    /\ pc' = [pc EXCEPT ![r] = "lost"]
    /\ UNCHANGED <<call, keys, executed, answer, before>>

Terminating == Ended = Requests /\ UNCHANGED vars

Next ==
    \/ \E r \in Requests, c \in Call : Replay(r, c) \/ Conflict(r, c) \/ Miss(r, c)
    \/ \E r \in Requests : Handle(r) \/ Store(r) \/ Respond(r) \/ Crash(r)
    \/ Terminating

Spec == Init /\ [][Next]_vars

-----------------------------------------------------------------------------
(***************************************************************************)
(* The type invariant of the keys and of the requests in the middleware.   *)
(***************************************************************************)
Begun(r) == pc[r] # "idle"

TypeOK ==
    /\ pc \in [Requests -> {"idle", "handling", "storing", "stored", "done", "lost"}]
    /\ call \in [Requests -> Call \cup {NoCall}]
    /\ keys \subseteq IdempotencyKey
    /\ executed \subseteq Requests
    /\ answer \in [Requests -> Requests \cup {"none", "conflict"}]
    /\ before \in [Requests -> SUBSET Requests]

SameKey(q, r) == call[q].key = call[r].key /\ call[q].user = call[r].user

(***************************************************************************)
(* ReplaysAreFaithful: a replayed response was written by the handler of a *)
(* request of the same user with the same key and body, whose client was   *)
(* sent that response or none; all replays of a key are of one response,   *)
(* and none of the requests they answer has executed anything.             *)
(***************************************************************************)
Replayed(q, r) == answer[r] = q /\ q # r

ReplaysAreFaithful ==
    \A q, r \in Requests : Replayed(q, r) =>
        /\ SameKey(q, r) /\ call[q].body = call[r].body
        /\ pc[q] \in {"stored", "done", "lost"}
        /\ answer[q] \in {q, "none"}
        /\ r \notin executed
        /\ \A p, o \in Requests : Replayed(p, o) /\ SameKey(o, r) => p = q

(***************************************************************************)
(* RepeatsOverlap: one key executes twice for a user only if the requests  *)
(* overlap, the first one's store or process failed, or another user has   *)
(* the key.  An answered request is safe to repeat otherwise.              *)
(***************************************************************************)
KeyOfAnother(q) ==
    \E s \in Requests :
        Begun(s) /\ call[s].key = call[q].key /\ call[s].user # call[q].user

RepeatsOverlap ==
    \A q, r \in executed : SameKey(q, r) /\ q \in before[r] =>
        q \in Unreliable \/ KeyOfAnother(q)

(***************************************************************************)
(* ExecutedOnce: "Idempotent payment operations" (README.md:16): requests  *)
(* of one user with one key, route and body take effect once.              *)
(***************************************************************************)
ExecutedOnce == \A q, r \in executed : call[q] = call[r] => q = r

(***************************************************************************)
(* ReusedKeysConflict: "idempotency conflict"                              *)
(* (idempotency_middleware.go:84) answers a key that comes again with      *)
(* another request, so a response is replayed to its own request only.     *)
(***************************************************************************)
ReusedKeysConflict == \A q, r \in Requests : Replayed(q, r) => call[q] = call[r]

(***************************************************************************)
(* RetriesExecute: a retry is answered from the store only if the request  *)
(* took effect.                                                            *)
(***************************************************************************)
RetriesExecute ==
    \A q, r \in Requests : answer[r] = q /\ q # r => q \in executed
=============================================================================
