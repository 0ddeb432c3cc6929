------------------------- MODULE IdempotencyProofs --------------------------
(***************************************************************************)
(* Proofs of what the idempotency middleware guarantees, for every number  *)
(* of requests, users, keys, routes and bodies.                            *)
(***************************************************************************)
EXTENDS Idempotency, TLAPS

(***************************************************************************)
(* A stored key belongs to the request that stored it, whose client has    *)
(* been or will be sent the stored response or none; and there is one row  *)
(* of a key.                                                               *)
(***************************************************************************)
KeysAreAnswers ==
    /\ \A k \in keys :
          /\ pc[k.response] \in {"stored", "done", "lost"}
          /\ call[k.response] = k.call
          /\ answer[k.response] \in {k.response, "none"}
    /\ \A k, l \in keys : k.call.key = l.call.key => k = l

(***************************************************************************)
(* What each phase says of the other variables.                            *)
(***************************************************************************)
PhasesAgree ==
    \A r \in Requests :
        /\ pc[r] # "idle" => call[r] \in Call
        /\ r \in executed => pc[r] \in {"storing", "stored", "done", "lost"}
        /\ r \in executed /\ pc[r] = "done" => answer[r] = r
        /\ pc[r] = "lost" => r \in Unreliable
        /\ answer[r] # "none" => pc[r] = "done"
        /\ before[r] \subseteq Ended

(***************************************************************************)
(* A replayed response is still in the table.                              *)
(***************************************************************************)
RowOf(k, r) == Matches(k, call[r]) /\ SameHash(k, call[r])

ReplaysAreStored ==
    \A q, r \in Requests : Replayed(q, r) =>
        \E k \in keys : k.response = q /\ RowOf(k, r)

(***************************************************************************)
(* The key of a request that was answered without a failure is stored for  *)
(* its user, if no other user has it.                                      *)
(***************************************************************************)
AnsweredAreStored ==
    \A q \in executed :
        pc[q] \in {"stored", "done"} => \/ Existing(call[q]) # {}
                                       \/ q \in Unreliable
                                       \/ KeyOfAnother(q)

(***************************************************************************)
(* A request that found no key was not preceded by a safe one.             *)
(***************************************************************************)
Missed(r) == pc[r] \in {"handling", "storing", "stored"} \/ r \in executed

MissedHadNoKey ==
    \A r \in Requests : \A q \in executed :
        Missed(r) /\ q \in before[r] /\ SameKey(q, r) =>
            q \in Unreliable \/ KeyOfAnother(q)

IInv ==
    /\ TypeOK
    /\ KeysAreAnswers
    /\ PhasesAgree
    /\ AnsweredAreStored
    /\ MissedHadNoKey
    /\ ReplaysAreStored

-----------------------------------------------------------------------------
LEMMA Initially == Init => IInv
BY AnswersAssumption
   DEF Init, IInv, TypeOK, KeysAreAnswers, PhasesAgree, AnsweredAreStored, MissedHadNoKey,
       ReplaysAreStored, Replayed, Missed, Ended

(***************************************************************************)
(* A call is never changed once made, an end never undone and a key never  *)
(* deleted, so another user's key stays one.                               *)
(***************************************************************************)
LEMMA Stability ==
    ASSUME IInv, [Next]_vars
    PROVE  /\ \A s \in Requests : pc[s] # "idle" => pc'[s] # "idle" /\ call'[s] = call[s]
           /\ Ended \subseteq Ended'
           /\ keys \subseteq keys'
           /\ \A q \in Requests :
                 pc[q] # "idle" /\ KeyOfAnother(q) => KeyOfAnother(q)'
BY DEF IInv, TypeOK, Next, vars, Replay, Conflict, Miss, Begin, Handle, Store, Respond, Crash,
       Terminating, KeyOfAnother, Begun, Ended

LEMMA TypeStep ==
    ASSUME IInv, [Next]_vars
    PROVE  TypeOK'
<1>1. CASE UNCHANGED vars
  BY <1>1 DEF IInv, TypeOK, vars
<1>2. ASSUME NEW r \in Requests, NEW c \in Call, Replay(r, c) \/ Conflict(r, c) \/ Miss(r, c)
      PROVE  TypeOK'
  BY <1>2 DEF IInv, TypeOK, Replay, Conflict, Miss, Begin, Existing, IdempotencyKey, Ended
<1>3. ASSUME NEW r \in Requests, Handle(r) \/ Crash(r)
      PROVE  TypeOK'
  BY <1>3 DEF IInv, TypeOK, Handle, Crash
<1>4. ASSUME NEW r \in Requests, Store(r) \/ Respond(r)
      PROVE  TypeOK'
  BY <1>4 DEF IInv, TypeOK, PhasesAgree, Store, Respond, IdempotencyKey
<1> QED
  BY <1>1, <1>2, <1>3, <1>4 DEF Next, Terminating

LEMMA KeysStep ==
    ASSUME IInv, [Next]_vars
    PROVE  KeysAreAnswers'
<1> USE DEF IInv, TypeOK, KeysAreAnswers, IdempotencyKey
<1>1. CASE UNCHANGED vars
  BY <1>1 DEF vars
<1>2. ASSUME NEW r \in Requests, NEW c \in Call, Replay(r, c) \/ Conflict(r, c) \/ Miss(r, c)
      PROVE  KeysAreAnswers'
  BY <1>2 DEF Replay, Conflict, Miss, Begin
<1>3. ASSUME NEW r \in Requests, Handle(r) \/ Crash(r)
      PROVE  KeysAreAnswers'
  BY <1>3 DEF Handle, Crash
<1>4. ASSUME NEW r \in Requests, Store(r)
      PROVE  KeysAreAnswers'
  <2>1. call[r] \in Call /\ answer[r] = "none"
    BY <1>4 DEF PhasesAgree, Store
  <2>2. CASE keys' = keys
    BY <1>4, <2>2 DEF Store
  <2>3. CASE ~ KeyTaken(call[r]) /\ keys' = keys \cup {[call |-> call[r], response |-> r]}
    BY <1>4, <2>1, <2>3 DEF Store, KeyTaken
  <2> QED
    BY <1>4, <2>2, <2>3 DEF Store
<1>5. ASSUME NEW r \in Requests, Respond(r)
      PROVE  KeysAreAnswers'
  BY <1>5 DEF Respond
<1> QED
  BY <1>1, <1>2, <1>3, <1>4, <1>5 DEF Next, Terminating

LEMMA PhasesStep ==
    ASSUME IInv, [Next]_vars
    PROVE  PhasesAgree'
<1> USE DEF IInv, TypeOK, PhasesAgree
<1>1. CASE UNCHANGED vars
  BY <1>1 DEF vars, Ended
<1>2. ASSUME NEW r \in Requests, NEW c \in Call, Replay(r, c) \/ Conflict(r, c) \/ Miss(r, c)
      PROVE  PhasesAgree'
  BY <1>2 DEF Replay, Conflict, Miss, Begin, Ended
<1>3. ASSUME NEW r \in Requests, Handle(r) \/ Crash(r)
      PROVE  PhasesAgree'
  BY <1>3 DEF Handle, Crash, Ended
<1>4. ASSUME NEW r \in Requests, Store(r) \/ Respond(r)
      PROVE  PhasesAgree'
  BY <1>4 DEF Store, Respond, Ended
<1> QED
  BY <1>1, <1>2, <1>3, <1>4 DEF Next, Terminating

LEMMA ReplayStep ==
    ASSUME IInv, [Next]_vars
    PROVE  ReplaysAreStored'
<1> SUFFICES ASSUME NEW q \in Requests, NEW r \in Requests, Replayed(q, r)'
             PROVE  \E k \in keys' : k.response = q /\ RowOf(k, r)'
  BY DEF ReplaysAreStored
<1>1. CASE Replayed(q, r)
  <2>1. PICK k \in keys : k.response = q /\ RowOf(k, r)
    BY <1>1 DEF IInv, ReplaysAreStored
  <2>2. pc[r] # "idle"
    BY <1>1, AnswersAssumption DEF IInv, PhasesAgree, Replayed
  <2>3. call'[r] = call[r] /\ k \in keys'
    BY <2>1, <2>2, Stability
  <2> QED
    BY <2>1, <2>3 DEF RowOf, Matches, SameHash
<1>2. CASE ~ Replayed(q, r)
  <2>1. PICK c \in Call : Replay(r, c)
    BY <1>2, AnswersAssumption
       DEF IInv, TypeOK, Replayed, Next, vars, Replay, Conflict, Miss, Begin, Handle,
           Store, Respond, Crash, Terminating
  <2>2. PICK k \in keys : /\ Matches(k, c) /\ SameHash(k, c)
                          /\ answer' = [answer EXCEPT ![r] = k.response]
    BY <2>1 DEF Replay, Existing
  <2>3. k.response = q /\ call'[r] = c /\ keys' = keys
    BY <1>2, <2>1, <2>2 DEF IInv, TypeOK, Replayed, Replay, Begin
  <2> QED
    BY <2>2, <2>3 DEF RowOf, Matches, SameHash
<1> QED
  BY <1>1, <1>2

(***************************************************************************)
(* Store either inserts the key or meets it: its own user's or another's.  *)
(***************************************************************************)
LEMMA AnsweredStep ==
    ASSUME IInv, [Next]_vars
    PROVE  AnsweredAreStored'
<1> SUFFICES ASSUME NEW q \in executed', pc'[q] \in {"stored", "done"}
             PROVE  (Existing(call[q]) # {})' \/ q \in Unreliable \/ KeyOfAnother(q)'
  BY DEF AnsweredAreStored
<1>q. q \in Requests
  BY TypeStep DEF TypeOK
<1>1. CASE q \in executed /\ pc[q] \in {"stored", "done"}
  <2>1. call'[q] = call[q] /\ keys \subseteq keys' /\ (KeyOfAnother(q) => KeyOfAnother(q)')
    BY <1>1, <1>q, Stability
  <2> QED
    BY <1>1, <2>1 DEF IInv, AnsweredAreStored, Existing
<1>2. CASE q \in executed /\ pc[q] \notin {"stored", "done"}
  <2>1. Store(q)
    BY <1>2, <1>q DEF IInv, TypeOK, PhasesAgree, Next, vars, Replay, Conflict, Miss, Begin,
                      Handle, Store, Respond, Crash, Terminating
  <2>2. CASE ~ KeyTaken(call[q])
    <3>1. CASE q \in Unreliable
      BY <3>1
    <3>2. CASE q \notin Unreliable
      <4>1. [call |-> call[q], response |-> q] \in keys' /\ call'[q] = call[q]
        BY <2>1, <2>2, <3>2 DEF Store
      <4> QED
        BY <4>1 DEF Existing, Matches
    <3> QED
      BY <3>1, <3>2
  <2>3. CASE KeyTaken(call[q])
    <3>1. PICK k \in keys : k.call.key = call[q].key
      BY <2>3 DEF KeyTaken
    <3>2. k.response \in Requests /\ call[k.response] = k.call /\ Begun(k.response)
      BY DEF IInv, TypeOK, IdempotencyKey, KeysAreAnswers, Begun
    <3>3. call'[q] = call[q] /\ k \in keys'
      BY <1>2, <1>q, <2>1, Stability DEF Store
    <3>4. CASE k.call.user = call[q].user
      BY <3>1, <3>3, <3>4 DEF Existing, Matches
    <3>5. CASE k.call.user # call[q].user
      <4>1. KeyOfAnother(q)
        BY <3>1, <3>2, <3>5 DEF KeyOfAnother
      <4> QED
        BY <4>1, <1>q, <2>1, Stability DEF Store
    <3> QED
      BY <3>4, <3>5
  <2> QED
    BY <2>2, <2>3
<1>3. CASE q \notin executed
  BY <1>3, <1>q DEF IInv, TypeOK, Next, vars, Replay, Conflict, Miss, Begin,
                    Handle, Store, Respond, Crash, Terminating
<1> QED
  BY <1>1, <1>2, <1>3

(***************************************************************************)
(* Only Miss begins a request that may execute, and it finds no key; a     *)
(* request that executes later had not ended when another one began.       *)
(***************************************************************************)
LEMMA MissedStep ==
    ASSUME IInv, [Next]_vars
    PROVE  MissedHadNoKey'
<1> SUFFICES ASSUME NEW r \in Requests, NEW q \in executed',
                    Missed(r)', q \in before'[r], SameKey(q, r)'
             PROVE  q \in Unreliable \/ KeyOfAnother(q)'
  BY DEF MissedHadNoKey
<1>q. q \in Requests
  BY TypeStep DEF TypeOK
<1>1. CASE pc[r] # "idle"
  <2>1. before'[r] = before[r] /\ Missed(r)
    BY <1>1 DEF IInv, TypeOK, PhasesAgree, Missed, Next, vars, Replay, Conflict, Miss, Begin,
                Handle, Store, Respond, Crash, Terminating
  <2>2. q \in Ended /\ pc[q] # "idle"
    BY <2>1 DEF IInv, PhasesAgree, Ended
  <2>3. q \in executed
    BY <1>q, <2>2 DEF IInv, TypeOK, Ended, Next, vars, Replay, Conflict, Miss, Begin,
                      Handle, Store, Respond, Crash, Terminating
  <2>4. SameKey(q, r) /\ (KeyOfAnother(q) => KeyOfAnother(q)')
    BY <1>1, <1>q, <2>2, Stability DEF SameKey
  <2> QED
    BY <2>1, <2>3, <2>4 DEF IInv, MissedHadNoKey
<1>2. CASE pc[r] = "idle"
  <2>a. pc'[r] \notin {"idle", "stored", "done", "lost"}
    BY <1>2 DEF IInv, TypeOK, PhasesAgree, Missed, Next, vars, Replay, Conflict, Miss, Begin,
                Handle, Store, Respond, Crash, Terminating
  <2>1. PICK c \in Call : Miss(r, c)
    <3>1. ASSUME NEW s \in Requests, Handle(s) \/ Store(s) \/ Respond(s) \/ Crash(s)
          PROVE  FALSE
      BY <1>2, <2>a, <3>1 DEF IInv, TypeOK, Handle, Store, Respond, Crash
    <3>2. ASSUME NEW s \in Requests, NEW c \in Call, Replay(s, c) \/ Conflict(s, c)
          PROVE  FALSE
      BY <1>2, <2>a, <3>2 DEF IInv, TypeOK, Replay, Conflict, Begin
    <3>3. ASSUME NEW s \in Requests, s # r, NEW c \in Call, Miss(s, c)
          PROVE  FALSE
      BY <1>2, <2>a, <3>3 DEF IInv, TypeOK, Miss, Begin
    <3> QED
      BY <1>2, <2>a, <3>1, <3>2, <3>3 DEF Next, Terminating, vars
  <2>2. q \in Ended /\ q \in executed /\ q # r /\ call'[r] = c
    BY <1>2, <1>q, <2>1 DEF IInv, TypeOK, Miss, Begin, Ended
  <2>3. call'[q] = call[q] /\ (KeyOfAnother(q) => KeyOfAnother(q)')
    BY <1>q, <2>2, Stability DEF Ended
  <2>4. Existing(call[q]) = {}
    BY <2>1, <2>2, <2>3 DEF Miss, SameKey, Existing, Matches
  <2> QED
    BY <2>2, <2>3, <2>4 DEF IInv, AnsweredAreStored, PhasesAgree, Ended
<1> QED
  BY <1>1, <1>2

LEMMA Preservation == IInv /\ [Next]_vars => IInv'
BY TypeStep, KeysStep, PhasesStep, ReplayStep, AnsweredStep, MissedStep DEF IInv

LEMMA Inductive == Spec => []IInv
BY Initially, Preservation, PTL DEF Spec

-----------------------------------------------------------------------------
(***************************************************************************)
(* A replay is the response of the same user's request with the same key   *)
(* and body, the only one of its key, and replaces an execution; that the  *)
(* other request was sent another response is impossible, that it was sent *)
(* none is not.                                                            *)
(***************************************************************************)
THEOREM Faithful == Spec => []ReplaysAreFaithful
<1>1. IInv => ReplaysAreFaithful
  <2> SUFFICES ASSUME IInv, NEW q \in Requests, NEW r \in Requests, Replayed(q, r)
               PROVE  /\ SameKey(q, r) /\ call[q].body = call[r].body
                      /\ pc[q] \in {"stored", "done", "lost"}
                      /\ answer[q] \in {q, "none"}
                      /\ r \notin executed
                      /\ \A p, o \in Requests :
                            Replayed(p, o) /\ SameKey(o, r) => p = q
    BY DEF ReplaysAreFaithful
  <2>1. PICK k \in keys : k.response = q /\ RowOf(k, r)
    BY DEF IInv, ReplaysAreStored
  <2>2. SameKey(q, r) /\ call[q].body = call[r].body
    BY <2>1 DEF IInv, KeysAreAnswers, RowOf, Matches, SameHash, SameKey
  <2>3. pc[q] \in {"stored", "done", "lost"} /\ answer[q] \in {q, "none"}
    BY <2>1 DEF IInv, KeysAreAnswers
  <2>4. r \notin executed
    BY AnswersAssumption DEF IInv, PhasesAgree, Replayed
  <2>5. ASSUME NEW p \in Requests, NEW o \in Requests, Replayed(p, o), SameKey(o, r)
        PROVE  p = q
    <3>1. PICK l \in keys : l.response = p /\ RowOf(l, o)
      BY <2>5 DEF IInv, ReplaysAreStored
    <3>2. l = k
      BY <2>1, <2>5, <3>1 DEF IInv, KeysAreAnswers, RowOf, Matches, SameKey
    <3> QED
      BY <2>1, <3>1, <3>2
  <2> QED
    BY <2>2, <2>3, <2>4, <2>5
<1> QED
  BY <1>1, Inductive, PTL

(***************************************************************************)
(* Only an overlap, a failure or another user's key executes a request     *)
(* twice.                                                                  *)
(***************************************************************************)
THEOREM Repeats == Spec => []RepeatsOverlap
<1>1. IInv => RepeatsOverlap
  BY DEF IInv, TypeOK, MissedHadNoKey, Missed, RepeatsOverlap
<1> QED
  BY <1>1, Inductive, PTL
=============================================================================
