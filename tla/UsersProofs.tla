---------------------------- MODULE UsersProofs -----------------------------
(***************************************************************************)
(* Proofs of what registrations, their compensations and activations keep, *)
(* and of what logins and requests with a token rely on, for every number  *)
(* of requests, visits, addresses and business names.                      *)
(***************************************************************************)
EXTENDS Access, TLAPS

(***************************************************************************)
(* A user is the one of its registration, which has begun, and a           *)
(* registration between its two transactions has its user.                 *)
(***************************************************************************)
UsersAreRegistered ==
    /\ \A u, v \in users : u.id = v.id => u = v
    /\ \A u \in users : pc[u.id] # "idle" /\ call[u.id].op = "register"
    /\ \A r \in Requests : pc[r] \in {"mailing", "undoing"} => r \in Ids

(***************************************************************************)
(* Only an ended request has been answered, and one that activates was     *)
(* asked to.                                                               *)
(***************************************************************************)
PhasesAgree ==
    /\ \A r \in Requests : pc[r] # "done" => told[r] = "nothing"
    /\ \A r \in Requests : pc[r] = "activating" => call[r] \in ActivateCall

(***************************************************************************)
(* The foreign key that stops the compensation of a merchant stops no      *)
(* customer's.                                                             *)
(***************************************************************************)
MerchantsHaveTheirRole ==
    \A m \in merchants, u \in users : m.user = u.id => u.role = "merchant"

IInv ==
    /\ TypeOK
    /\ UsersAreRegistered
    /\ PhasesAgree
    /\ MerchantsHaveTheirRole
    /\ NoOrphans
    /\ ActiveUsersHaveWallets
    /\ InvitedUsersAreInactive
    /\ FailedCustomersAreGone

-----------------------------------------------------------------------------
LEMMA Initially == Init => IInv
BY DEF Init, IInv, TypeOK, UsersAreRegistered, PhasesAgree, MerchantsHaveTheirRole,
       NoOrphans, ActiveUsersHaveWallets, InvitedUsersAreInactive, FailedCustomersAreGone,
       Ids, Wallets

(***************************************************************************)
(* An inactive user of a new id, with its identity and its invitation.     *)
(***************************************************************************)
LEMMA RegisterKeepsIInv ==
    ASSUME IInv, NEW r \in Requests, NEW c \in CustomerCall \cup MerchantCall, Register(r, c)
    PROVE  IInv'
<1> DEFINE n == NewUser(r, c)
<1>1. /\ c.role \in Roles /\ c.email \in Emails /\ c.op = "register"
      /\ c.role = "merchant" => c.name \in BusinessNames
  BY DEF CustomerCall, MerchantCall, Roles
<1>2. /\ users' = users \cup {n} /\ n \in User
      /\ n.id = r /\ n.active = FALSE /\ n.role = c.role
  BY <1>1 DEF Register, NewUser, User
<1>3. r \notin Ids /\ Ids' = Ids \cup {r}
  BY <1>2 DEF IInv, UsersAreRegistered, Register, Ids
<1>4. /\ identities' = identities \cup {r} /\ invitations' = invitations \cup {r}
      /\ balances' = balances /\ told' = told /\ delivered' = delivered
      /\ pc'[r] = "mailing" /\ call'[r] = c /\ pc[r] = "idle"
      /\ \A o \in Requests \ {r} : pc'[o] = pc[o] /\ call'[o] = call[o]
  BY DEF Register, IInv, TypeOK
<1>5. /\ r \notin identities /\ r \notin invitations
      /\ \A m \in merchants : m.user # r
      /\ \A b \in balances : b.identity # r
  BY <1>3 DEF IInv, NoOrphans
<1>6. \/ merchants' = merchants
      \/ c.role = "merchant" /\ merchants' = merchants \cup {[user |-> r, name |-> c.name]}
  BY DEF Register
<1> HIDE DEF n
<1>7. TypeOK'
  <2>1. merchants' \subseteq Merchant
    <3>1. c.role = "merchant" => [user |-> r, name |-> c.name] \in Merchant
      BY <1>1 DEF Merchant
    <3>2. merchants \subseteq Merchant
      BY DEF IInv, TypeOK
    <3> QED
      BY <1>6, <3>1, <3>2
  <2>2. /\ pc' \in [Requests -> {"idle", "mailing", "undoing", "activating", "done", "lost"}]
        /\ call' \in [Requests -> {NoCall} \cup CustomerCall \cup MerchantCall \cup ActivateCall]
    BY DEF IInv, TypeOK, Register
  <2> QED
    BY <1>2, <1>4, <2>1, <2>2 DEF IInv, TypeOK
<1>8. UsersAreRegistered'
  <2>1. \A u, v \in users' : u.id = v.id => u = v
    BY <1>2, <1>3 DEF IInv, UsersAreRegistered, Ids
  <2>2. \A u \in users : u.id \in Requests /\ u.id # r
    BY <1>3 DEF IInv, TypeOK, User, Ids
  <2>3. \A u \in users' : pc'[u.id] # "idle" /\ call'[u.id].op = "register"
    BY <1>1, <1>2, <1>4, <2>2 DEF IInv, UsersAreRegistered
  <2>4. \A o \in Requests : pc'[o] \in {"mailing", "undoing"} => o \in Ids'
    BY <1>3, <1>4 DEF IInv, UsersAreRegistered
  <2> QED
    BY <2>1, <2>3, <2>4 DEF UsersAreRegistered
<1>9. PhasesAgree'
  BY <1>4 DEF IInv, PhasesAgree
<1>10. MerchantsHaveTheirRole'
  <2> SUFFICES ASSUME NEW m \in merchants', NEW u \in users', m.user = u.id
               PROVE  u.role = "merchant"
    BY DEF MerchantsHaveTheirRole
  <2>1. CASE m \in merchants
    BY <1>2, <1>5, <2>1 DEF IInv, MerchantsHaveTheirRole
  <2>2. CASE m \notin merchants
    <3>1. c.role = "merchant" /\ m.user = r
      BY <1>6, <2>2
    <3>2. u = n
      BY <1>2, <1>3, <3>1 DEF Ids
    <3> QED
      BY <1>2, <3>1, <3>2
  <2> QED
    BY <2>1, <2>2
<1>11. NoOrphans'
  BY <1>3, <1>4, <1>6 DEF IInv, NoOrphans
<1>12. ActiveUsersHaveWallets'
  BY <1>2, <1>4, <1>5 DEF IInv, ActiveUsersHaveWallets, Wallets
<1>13. InvitedUsersAreInactive'
  BY <1>2, <1>3, <1>4 DEF IInv, InvitedUsersAreInactive, Ids
<1>14. FailedCustomersAreGone'
  BY <1>2, <1>4 DEF IInv, PhasesAgree, FailedCustomersAreGone
<1> QED
  BY <1>7, <1>8, <1>9, <1>10, <1>11, <1>12, <1>13, <1>14 DEF IInv

(***************************************************************************)
(* The steps that leave the tables alone.                                  *)
(***************************************************************************)
LEMMA TablesUnchanged ==
    ASSUME IInv, UNCHANGED tables
    PROVE  /\ MerchantsHaveTheirRole' /\ NoOrphans'
           /\ ActiveUsersHaveWallets' /\ InvitedUsersAreInactive'
           /\ Ids' = Ids
BY DEF IInv, tables, MerchantsHaveTheirRole, NoOrphans, ActiveUsersHaveWallets,
       InvitedUsersAreInactive, Ids, Wallets

LEMMA AnswerKeepsIInv ==
    ASSUME IInv, UNCHANGED tables, NEW r \in Requests,
           NEW what \in {"token", "error"},
           NEW c \in {NoCall} \cup CustomerCall \cup MerchantCall \cup ActivateCall,
           Answer(r, what), call' = [call EXCEPT ![r] = c], UNCHANGED delivered,
           r \in Ids => c = call[r],
           what = "error" => \A u \in users :
               u.id = r /\ u.role = "customer" => u.active \/ r \in Unreliable
    PROVE  IInv'
<1>1. /\ pc'[r] = "done" /\ told'[r] = what /\ call'[r] = c
      /\ \A o \in Requests \ {r} :
            pc'[o] = pc[o] /\ told'[o] = told[o] /\ call'[o] = call[o]
  BY DEF Answer, IInv, TypeOK
<1>2. TypeOK'
  BY DEF IInv, TypeOK, Answer, tables
<1>3. users' = users /\ Ids' = Ids /\ \A u \in users : u.id \in Ids /\ u.id \in Requests
  BY TablesUnchanged DEF tables, Ids, IInv, TypeOK, User
<1>4. UsersAreRegistered'
  BY <1>1, <1>3 DEF IInv, UsersAreRegistered
<1>5. PhasesAgree'
  BY <1>1 DEF IInv, PhasesAgree
<1>6. FailedCustomersAreGone'
  BY <1>1, <1>3 DEF IInv, FailedCustomersAreGone
<1> QED
  BY <1>2, <1>4, <1>5, <1>6, TablesUnchanged DEF IInv

LEMMA ContinueKeepsIInv ==
    ASSUME IInv, UNCHANGED tables, NEW r \in Requests,
           pc[r] \in {"mailing", "undoing"},
           NEW phase \in {"mailing", "undoing", "lost"}, Continue(r, phase),
           delivered' \subseteq Requests
    PROVE  IInv'
<1>1. /\ pc'[r] = phase /\ told' = told /\ call' = call
      /\ \A o \in Requests \ {r} : pc'[o] = pc[o]
  BY DEF Continue, IInv, TypeOK
<1>2. TypeOK'
  BY DEF IInv, TypeOK, Continue, tables
<1>3. users' = users /\ Ids' = Ids
  BY TablesUnchanged DEF tables
<1>4. UsersAreRegistered' /\ PhasesAgree' /\ FailedCustomersAreGone'
  BY <1>1, <1>3 DEF IInv, TypeOK, User, UsersAreRegistered, PhasesAgree, FailedCustomersAreGone
<1> QED
  BY <1>2, <1>4, TablesUnchanged DEF IInv

(***************************************************************************)
(* The compensation: it fails for a customer only after an activation.     *)
(***************************************************************************)
LEMMA UndoKeepsIInv ==
    ASSUME IInv, NEW r \in Requests, Undo(r)
    PROVE  IInv'
<1>1. /\ users' = {u \in users : u.id # r}
      /\ invitations' = invitations \ {r} /\ identities' = identities \ {r}
      /\ merchants' = merchants /\ balances' = balances
      /\ delivered' = delivered /\ call' = call
      /\ \A m \in merchants : m.user # r
      /\ Wallets(r) = {}
  BY DEF Undo, Undoable, UsersWithout, InvitationsWithout, IdentitiesWithout
<1>2. /\ pc'[r] = "done" /\ told'[r] = "no token"
      /\ \A o \in Requests \ {r} : pc'[o] = pc[o] /\ told'[o] = told[o]
  BY DEF Undo, Answer, IInv, TypeOK
<1>3. Ids' = Ids \ {r}
  BY <1>1 DEF Ids
<1>4. TypeOK'
  BY <1>1 DEF IInv, TypeOK, Undo, Answer
<1>5. UsersAreRegistered' /\ PhasesAgree'
  BY <1>1, <1>2, <1>3 DEF IInv, TypeOK, User, UsersAreRegistered, PhasesAgree
<1>6. MerchantsHaveTheirRole'
  BY <1>1 DEF IInv, MerchantsHaveTheirRole
<1>7. NoOrphans'
  BY <1>1, <1>3 DEF IInv, NoOrphans, Wallets
<1>8. ActiveUsersHaveWallets' /\ InvitedUsersAreInactive'
  BY <1>1 DEF IInv, ActiveUsersHaveWallets, InvitedUsersAreInactive, Wallets
<1>9. FailedCustomersAreGone'
  BY <1>1, <1>2 DEF IInv, TypeOK, User, FailedCustomersAreGone
<1> QED
  BY <1>4, <1>5, <1>6, <1>7, <1>8, <1>9 DEF IInv

LEMMA UndoFailsKeepsIInv ==
    ASSUME IInv, NEW r \in Requests, UndoFails(r)
    PROVE  IInv'
<1>1. \A u \in users : u.id = r /\ u.role = "customer" => u.active \/ r \in Unreliable
  <2> SUFFICES ASSUME NEW u \in users, u.id = r, u.role = "customer", ~ Undoable(r)
               PROVE  u.active
    BY DEF UndoFails
  <2>1. \A m \in merchants : m.user # r
    BY DEF IInv, MerchantsHaveTheirRole
  <2>2. Wallets(u.id) # {}
    BY <2>1 DEF Undoable
  <2> QED
    BY <2>2 DEF IInv, ActiveUsersHaveWallets
<1>2. /\ call' = [call EXCEPT ![r] = call[r]]
      /\ call[r] \in {NoCall} \cup CustomerCall \cup MerchantCall \cup ActivateCall
      /\ UNCHANGED tables /\ UNCHANGED delivered /\ Answer(r, "error")
  BY DEF UndoFails, IInv, TypeOK
<1> QED
  BY <1>1, <1>2, AnswerKeepsIInv

(***************************************************************************)
(* Activations.                                                            *)
(***************************************************************************)
LEMMA ActivateKeepsIInv ==
    ASSUME IInv, NEW r \in Requests, NEW i \in delivered, NEW ledger \in Roles,
           Activate(r, i, ledger)
    PROVE  IInv'
<1> DEFINE c == [op |-> "activate", user |-> i, ledger |-> ledger]
<1>1. c \in ActivateCall
  BY DEF ActivateCall, IInv, TypeOK
<1>2. /\ pc[r] = "idle" /\ pc'[r] = "activating" /\ call'[r] = c
      /\ told' = told /\ delivered' = delivered /\ UNCHANGED tables
      /\ \A o \in Requests \ {r} : pc'[o] = pc[o] /\ call'[o] = call[o]
  BY DEF Activate, IInv, TypeOK
<1>3. /\ pc' = [pc EXCEPT ![r] = "activating"] /\ call' = [call EXCEPT ![r] = c]
  BY DEF Activate
<1> HIDE DEF c
<1>4. TypeOK'
  BY <1>1, <1>2, <1>3 DEF IInv, TypeOK, tables
<1>5. users' = users /\ Ids' = Ids /\ r \notin Ids
  BY <1>2, TablesUnchanged DEF tables, Ids, IInv, UsersAreRegistered
<1>6. UsersAreRegistered' /\ PhasesAgree' /\ FailedCustomersAreGone'
  BY <1>1, <1>2, <1>5 DEF IInv, TypeOK, User, UsersAreRegistered, PhasesAgree,
                          FailedCustomersAreGone, Ids
<1> QED
  BY <1>2, <1>4, <1>6, TablesUnchanged DEF IInv

LEMMA ActivatedKeepsIInv ==
    ASSUME IInv, NEW r \in Requests, Activated(r)
    PROVE  IInv'
<1> DEFINE i == call[r].user
           b == [id |-> r, identity |-> i, ledger |-> call[r].ledger]
<1>1. /\ call[r] \in ActivateCall /\ i \in Requests /\ i \in Ids /\ call[r].op = "activate"
  BY DEF Activated, IInv, PhasesAgree, ActivateCall, NoOrphans
<1>2. /\ users' = {IF u.id = i THEN [u EXCEPT !.active = TRUE] ELSE u : u \in users}
      /\ balances' = balances \cup {b} /\ invitations' = invitations \ {i}
      /\ UNCHANGED <<identities, merchants, delivered, call>>
  BY DEF Activated, Update, NewBalance, UsedUp
<1>3. /\ pc'[r] = "done" /\ told'[r] = "activated"
      /\ \A o \in Requests \ {r} : pc'[o] = pc[o] /\ told'[o] = told[o]
  BY DEF Activated, Answer, IInv, TypeOK
<1>4. b \in Balance /\ b.identity = i
  BY <1>1 DEF ActivateCall, Balance
<1>5. \A v \in users' : \E u \in users :
          /\ v \in User /\ v.id = u.id /\ v.role = u.role
          /\ u.id = i => v.active
          /\ u.id # i => v = u
          /\ v = IF u.id = i THEN [u EXCEPT !.active = TRUE] ELSE u
  BY <1>2 DEF IInv, TypeOK, User
<1>6. \A u \in users : \E v \in users' : v.id = u.id
  <2> TAKE u \in users
  <2> DEFINE v == IF u.id = i THEN [u EXCEPT !.active = TRUE] ELSE u
  <2>1. v \in users' /\ v.id = u.id
    BY <1>2 DEF IInv, TypeOK, User
  <2> QED
    BY <2>1
<1>7. Ids' = Ids
  BY <1>5, <1>6 DEF Ids
<1> HIDE DEF i, b
<1>8. TypeOK'
  <2>1. /\ pc' \in [Requests -> {"idle", "mailing", "undoing", "activating", "done", "lost"}]
        /\ told' \in [Requests -> {"nothing", "token", "no token", "activated", "error"}]
    BY DEF IInv, TypeOK, Activated, Answer
  <2>2. users' \subseteq User /\ balances' \subseteq Balance /\ invitations' \subseteq Requests
    BY <1>2, <1>4, <1>5 DEF IInv, TypeOK
  <2> QED
    BY <1>2, <2>1, <2>2 DEF IInv, TypeOK
<1>9. UsersAreRegistered'
  <2>1. ASSUME NEW v \in users', NEW w \in users', v.id = w.id
        PROVE  v = w
    <3>1. PICK u \in users : /\ v.id = u.id
                             /\ v = IF u.id = i THEN [u EXCEPT !.active = TRUE] ELSE u
      BY <1>5
    <3>2. PICK x \in users : /\ w.id = x.id
                             /\ w = IF x.id = i THEN [x EXCEPT !.active = TRUE] ELSE x
      BY <1>5
    <3>3. u = x
      BY <2>1, <3>1, <3>2 DEF IInv, UsersAreRegistered
    <3> QED
      BY <3>1, <3>2, <3>3
  <2>2. ASSUME NEW v \in users'
        PROVE  pc'[v.id] # "idle" /\ call'[v.id].op = "register"
    <3>1. PICK u \in users : v.id = u.id
      BY <1>5
    <3>2. u.id \in Requests /\ pc[u.id] # "idle" /\ call[u.id].op = "register"
      BY DEF IInv, TypeOK, User, UsersAreRegistered
    <3> QED
      BY <1>2, <1>3, <3>1, <3>2
  <2> QED
    BY <1>3, <1>7, <2>1, <2>2 DEF IInv, UsersAreRegistered
<1>10. PhasesAgree'
  BY <1>2, <1>3 DEF IInv, PhasesAgree
<1>11. MerchantsHaveTheirRole'
  BY <1>2, <1>5 DEF IInv, MerchantsHaveTheirRole
<1>12. NoOrphans'
  BY <1>1, <1>2, <1>4, <1>7 DEF IInv, NoOrphans, i
<1>13. ActiveUsersHaveWallets'
  <2> SUFFICES ASSUME NEW v \in users'
               PROVE  v.active <=> \E w \in balances' : w.identity = v.id
    BY DEF ActiveUsersHaveWallets, Wallets
  <2>1. PICK u \in users : /\ v.id = u.id
                           /\ u.id = i => v.active
                           /\ u.id # i => v = u
    BY <1>5
  <2>2. CASE u.id = i
    BY <1>2, <1>4, <2>1, <2>2
  <2>3. CASE u.id # i
    BY <1>2, <1>4, <2>1, <2>3 DEF IInv, ActiveUsersHaveWallets, Wallets
  <2> QED
    BY <2>2, <2>3
<1>14. InvitedUsersAreInactive'
  BY <1>2, <1>5 DEF IInv, InvitedUsersAreInactive
<1>15. FailedCustomersAreGone'
  BY <1>1, <1>3, <1>5 DEF IInv, TypeOK, User, FailedCustomersAreGone
<1> QED
  BY <1>8, <1>9, <1>10, <1>11, <1>12, <1>13, <1>14, <1>15 DEF IInv

-----------------------------------------------------------------------------
LEMMA NextKeepsIInv == IInv /\ [Next]_vars => IInv'
<1> SUFFICES ASSUME IInv, [Next]_vars
             PROVE  IInv'
  OBVIOUS
<1>1. ASSUME NEW r \in Requests, NEW c \in CustomerCall \cup MerchantCall,
             Register(r, c) \/ RegisterDuplicate(r, c)
      PROVE  IInv'
  <2>1. CASE RegisterDuplicate(r, c)
    <3>1. \A u \in users : u.id # r
      BY <2>1 DEF RegisterDuplicate, IInv, UsersAreRegistered
    <3> QED
      BY <2>1, <3>1, AnswerKeepsIInv DEF RegisterDuplicate, Ids
  <2> QED
    BY <1>1, <2>1, RegisterKeepsIInv
<1>2. ASSUME NEW r \in Requests, NEW i \in delivered, NEW ledger \in Roles,
             Activate(r, i, ledger)
      PROVE  IInv'
  BY <1>2, ActivateKeepsIInv
<1>3. ASSUME NEW r \in Requests, Deliver(r)
      PROVE  IInv'
  <2>1. /\ UNCHANGED <<pc, call, told>> /\ UNCHANGED tables
        /\ delivered' \subseteq Requests
    BY <1>3 DEF Deliver, IInv, TypeOK, tables
  <2>2. TypeOK'
    BY <2>1 DEF IInv, TypeOK, tables
  <2>3. users' = users /\ Ids' = Ids
    BY <2>1, TablesUnchanged DEF tables
  <2>4. UsersAreRegistered' /\ PhasesAgree' /\ FailedCustomersAreGone'
    BY <2>1, <2>3 DEF IInv, UsersAreRegistered, PhasesAgree, FailedCustomersAreGone
  <2> QED
    BY <2>1, <2>2, <2>4, TablesUnchanged DEF IInv
<1>4. ASSUME NEW r \in Requests, Sent(r)
      PROVE  IInv'
  <2>1. /\ call' = [call EXCEPT ![r] = call[r]] /\ UNCHANGED tables
        /\ UNCHANGED delivered /\ Answer(r, "token")
        /\ call[r] \in {NoCall} \cup CustomerCall \cup MerchantCall \cup ActivateCall
    BY <1>4 DEF Sent, IInv, TypeOK
  <2> QED
    BY <2>1, AnswerKeepsIInv
<1>5. ASSUME NEW r \in Requests, NotSent(r) \/ Crash(r)
      PROVE  IInv'
  BY <1>5, ContinueKeepsIInv DEF NotSent, Crash, IInv, TypeOK
<1>6. ASSUME NEW r \in Requests, NotActivated(r)
      PROVE  IInv'
  <2>1. /\ call' = [call EXCEPT ![r] = call[r]] /\ UNCHANGED tables
        /\ UNCHANGED delivered /\ Answer(r, "error")
        /\ call[r] \in ActivateCall /\ call[r].op = "activate"
    BY <1>6 DEF NotActivated, IInv, TypeOK, PhasesAgree, ActivateCall
  <2>2. \A u \in users : u.id # r
    BY <2>1 DEF IInv, UsersAreRegistered
  <2> QED
    BY <2>1, <2>2, AnswerKeepsIInv
<1>7. CASE UNCHANGED vars
  BY <1>7 DEF vars, tables, IInv, TypeOK, UsersAreRegistered, PhasesAgree,
     MerchantsHaveTheirRole, NoOrphans, ActiveUsersHaveWallets, InvitedUsersAreInactive,
     FailedCustomersAreGone, Ids, Wallets
<1> QED
  BY <1>1, <1>2, <1>3, <1>4, <1>5, <1>6, <1>7, UndoKeepsIInv, UndoFailsKeepsIInv,
     ActivatedKeepsIInv DEF Next, Terminating

THEOREM Invariance == Spec => []IInv
<1>1. Init => IInv
  BY Initially
<1>2. IInv /\ [Next]_vars => IInv'
  BY NextKeepsIInv
<1> QED
  BY <1>1, <1>2, PTL DEF Spec

(***************************************************************************)
(* Type correctness of the tables of users.                                *)
(***************************************************************************)
THEOREM TypeCorrect == Spec => []TypeOK
<1>1. IInv => TypeOK
  BY DEF IInv
<1> QED
  BY <1>1, Invariance, PTL

(***************************************************************************)
(* An active user has a wallet and nobody else has, however activations    *)
(* and the compensation of a registration meet.                            *)
(***************************************************************************)
THEOREM WalletsOfTheActive == Spec => []ActiveUsersHaveWallets
<1>1. IInv => ActiveUsersHaveWallets
  BY DEF IInv
<1> QED
  BY <1>1, Invariance, PTL

(***************************************************************************)
(* No identity, invitation, merchant or balance is left without its user.  *)
(***************************************************************************)
THEOREM NothingIsOrphaned == Spec => []NoOrphans
<1>1. IInv => NoOrphans
  BY DEF IInv
<1> QED
  BY <1>1, Invariance, PTL

(***************************************************************************)
(* A registration answered with an error leaves no inactive customer,      *)
(* unless its process or its compensation failed.                          *)
(***************************************************************************)
THEOREM FailuresLeaveNothing == Spec => []FailedCustomersAreGone
<1>1. IInv => FailedCustomersAreGone
  BY DEF IInv
<1> QED
  BY <1>1, Invariance, PTL

(***************************************************************************)
(* An invitation that can still be used is an inactive user's, and every   *)
(* inactive user has one.                                                  *)
(***************************************************************************)
THEOREM InvitationsOfTheInactive == Spec => []InvitedUsersAreInactive
<1>1. IInv => InvitedUsersAreInactive
  BY DEF IInv
<1> QED
  BY <1>1, Invariance, PTL

-----------------------------------------------------------------------------
(***************************************************************************)
(* Access.  Visits change no table, so what is proved of Spec holds of     *)
(* AccessSpec.                                                             *)
(***************************************************************************)
LEMMA AccessKeepsTables == AccessSpec => Spec
<1>1. AccessInit => Init
  BY DEF AccessInit
<1>2. [AccessNext]_allVars => [Next]_vars
  BY DEF AccessNext, allVars, GetByEmail, CreateToken, WrongPassword, AuthToken,
         CheckRequiredRole, Handle
<1> QED
  BY <1>1, <1>2, PTL DEF AccessSpec, Spec

(***************************************************************************)
(* What a visit relies on: no step takes a merchant or a balance away, nor *)
(* an active user, whose balance stops the compensation.                   *)
(***************************************************************************)
LEMMA ActiveUsersStay ==
    ASSUME IInv, [Next]_vars
    PROVE  /\ ActiveUsers \subseteq ActiveUsers'
           /\ merchants \subseteq merchants' /\ balances \subseteq balances'
<1>1. ASSUME NEW r \in Requests, NEW c \in CustomerCall \cup MerchantCall,
             Register(r, c) \/ RegisterDuplicate(r, c)
      PROVE  users \subseteq users' /\ merchants \subseteq merchants' /\ balances' = balances
  BY <1>1 DEF Register, RegisterDuplicate, tables
<1>2. ASSUME NEW r \in Requests, Undo(r)
      PROVE  /\ \A u \in ActiveUsers : u \in users'
             /\ merchants' = merchants /\ balances' = balances
  <2>1. \A u \in ActiveUsers : u.id # r
    BY <1>2 DEF Undo, Undoable, IInv, ActiveUsersHaveWallets, ActiveUsers
  <2> QED
    BY <1>2, <2>1 DEF Undo, UsersWithout, ActiveUsers
<1>3. ASSUME NEW r \in Requests, Activated(r)
      PROVE  /\ \A u \in ActiveUsers : u \in users'
             /\ merchants' = merchants /\ balances \subseteq balances'
  <2>1. \A u \in ActiveUsers : u = [u EXCEPT !.active = TRUE]
    BY DEF ActiveUsers, IInv, TypeOK, User
  <2> QED
    BY <1>3, <2>1 DEF Activated, Update, NewBalance, ActiveUsers
<1>4. CASE UNCHANGED tables
  BY <1>4, TablesUnchanged DEF tables, ActiveUsers
<1>5. CASE UNCHANGED vars
  BY <1>4, <1>5 DEF vars
<1>6. ASSUME NEW r \in Requests, Deliver(r) \/ Sent(r) \/ NotSent(r) \/ UndoFails(r)
                                  \/ NotActivated(r) \/ Crash(r)
      PROVE  UNCHANGED tables
  BY <1>6 DEF Deliver, Sent, NotSent, UndoFails, NotActivated, Crash
<1>7. ASSUME NEW r \in Requests, NEW i \in delivered, NEW ledger \in Roles,
             Activate(r, i, ledger)
      PROVE  UNCHANGED tables
  BY <1>7 DEF Activate
<1> QED
  <2>1. ActiveUsers = {u \in users : u.active} /\ ActiveUsers' = {u \in users' : u.active}
    BY DEF ActiveUsers
  <2> QED
    BY <1>1, <1>2, <1>3, <1>4, <1>5, <1>6, <1>7, <2>1 DEF Next, Terminating

(***************************************************************************)
(* A merchant's user is inserted with its merchant, which nothing deletes. *)
(***************************************************************************)
ShopsExist == \A u \in users : u.role = "merchant" => ShopOf(u) # {}

LEMMA ShopsAreKept ==
    ASSUME IInv, ShopsExist, [Next]_vars
    PROVE  ShopsExist'
<1>1. merchants \subseteq merchants'
  BY ActiveUsersStay
<1>2. ASSUME NEW v \in users', v.role = "merchant",
             NEW u \in users, v.id = u.id, v.role = u.role
      PROVE  ShopOf(v)' # {}
  BY <1>1, <1>2 DEF ShopsExist, ShopOf
<1>3. ASSUME NEW r \in Requests, NEW c \in CustomerCall \cup MerchantCall, Register(r, c),
             NEW v \in users', v.role = "merchant"
      PROVE  ShopOf(v)' # {}
  <2>1. CASE v \in users
    BY <1>2, <1>3, <2>1
  <2>2. CASE v = NewUser(r, c)
    <3>1. v.id = r /\ c.role = "merchant"
      BY <1>3, <2>2 DEF NewUser
    <3>2. [user |-> r, name |-> c.name] \in merchants'
      BY <1>3, <3>1 DEF Register
    <3> QED
      BY <3>1, <3>2 DEF ShopOf
  <2> QED
    BY <1>3, <2>1, <2>2 DEF Register
<1>4. ASSUME NEW r \in Requests, Activated(r), NEW v \in users', v.role = "merchant"
      PROVE  ShopOf(v)' # {}
  <2>1. PICK u \in users :
             v = IF u.id = call[r].user THEN [u EXCEPT !.active = TRUE] ELSE u
    BY <1>4 DEF Activated, Update
  <2>2. v.id = u.id /\ v.role = u.role
    BY <2>1 DEF IInv, TypeOK, User
  <2> QED
    BY <1>2, <1>4, <2>2
<1>5. CASE users' \subseteq users
  BY <1>2, <1>5 DEF ShopsExist
<1> QED
  BY <1>3, <1>4, <1>5
     DEF ShopsExist, Next, vars, tables, RegisterDuplicate, Activate, Deliver, Sent,
         NotSent, Undo, UsersWithout, UndoFails, NotActivated, Crash, Terminating

(***************************************************************************)
(* The user in a request's context is active and stays the row that was    *)
(* read, so that a token's subject and a handler's rows are there.         *)
(***************************************************************************)
VisitorsAreActive ==
    \A v \in Visits : visit[v] \in Login \cup Request => visit[v].user \in ActiveUsers

HandledHaveTheirRole ==
    \A v \in Visits : visit[v].phase = "handling" => HasRequiredRole(visit[v])

AccessInv ==
    /\ IInv
    /\ AccessTypeOK
    /\ ShopsExist
    /\ VisitorsAreActive
    /\ HandledHaveTheirRole
    /\ TokensNameUsers
    /\ AdmittedAreServed

(***************************************************************************)
(* The phase of a visit tells what it carries.                             *)
(***************************************************************************)
LEMMA PhasesOfVisits ==
    ASSUME NEW w \in {Away, NotFound} \cup Login \cup Request
    PROVE  /\ w.phase = "logging in" => w \in Login
           /\ w.phase \in {"authenticated", "handling"} => w \in Request
           /\ w.phase \in {"away", "not found"} <=> w \in {Away, NotFound}
           /\ w.phase = "away" <=> w = Away
<1>1. Away.phase = "away" /\ NotFound.phase = "not found"
  BY DEF Away, NotFound
<1>2. CASE w \in Login
  <2>1. w.phase = "logging in"
    BY <1>2 DEF Login
  <2> QED
    BY <1>1, <1>2, <2>1
<1>3. CASE w \in Request
  <2>1. w.phase \in {"authenticated", "handling"}
    BY <1>3 DEF Request
  <2> QED
    BY <1>1, <1>3, <2>1
<1>4. CASE w \in {Away, NotFound}
  BY <1>1, <1>4
<1> QED
  BY <1>2, <1>3, <1>4

(***************************************************************************)
(* A handler that is reached finds its row.                                *)
(***************************************************************************)
LEMMA RowsAreFound ==
    ASSUME AccessInv, NEW v \in Visits, visit[v].phase = "handling"
    PROVE  RowsOf(visit[v]) # {}
<1>1. visit[v] \in Request
  BY PhasesOfVisits DEF AccessInv, AccessTypeOK
<1>2. visit[v].user \in users /\ visit[v].user.active
  BY <1>1 DEF AccessInv, VisitorsAreActive, ActiveUsers
<1>3. CASE visit[v].route = "checkout-sessions"
  <2>1. visit[v].user.role = "merchant"
    BY <1>3 DEF AccessInv, HandledHaveTheirRole, HasRequiredRole, RolesOf
  <2> QED
    BY <1>2, <1>3, <2>1 DEF RowsOf, AccessInv, ShopsExist
<1>4. CASE visit[v].route # "checkout-sessions"
  BY <1>2, <1>4 DEF RowsOf, AccessInv, IInv, ActiveUsersHaveWallets
<1> QED
  BY <1>3, <1>4

(***************************************************************************)
(* A visit's own step, to a place that is as good.                         *)
(***************************************************************************)
Good(where) ==
    /\ where \in {Away} \cup Login \cup Request
    /\ where \in Login \cup Request => where.user \in ActiveUsers
    /\ where.phase = "handling" => HasRequiredRole(where)

LEMMA VisitKeepsAccessInv ==
    ASSUME AccessInv, UNCHANGED vars, NEW v \in Visits, NEW where, Good(where),
           Visit(v, where), tokens' \subseteq {u.id : u \in ActiveUsers}
    PROVE  AccessInv'
<1>1. IInv' /\ TypeOK' /\ ShopsExist' /\ ActiveUsers' = ActiveUsers
  <2>1. UNCHANGED tables /\ IInv' /\ TypeOK'
    BY NextKeepsIInv DEF AccessInv, IInv, vars
  <2> QED
    BY <2>1 DEF tables, ShopsExist, ShopOf, ActiveUsers, AccessInv
<1>2. /\ visit'[v] = where
      /\ \A o \in Visits \ {v} : visit'[o] = visit[o]
      /\ visit' \in [Visits -> {Away, NotFound} \cup Login \cup Request]
  BY DEF AccessInv, AccessTypeOK, Visit, Good
<1>3. tokens' \subseteq Requests
  <2>1. \A u \in ActiveUsers : u.id \in Requests
    BY DEF ActiveUsers, AccessInv, IInv, TypeOK, User
  <2> QED
    BY <2>1
<1>4. where # NotFound
  <2>1. NotFound.phase = "not found" /\ Away.phase = "away"
    BY DEF NotFound, Away
  <2>2. \A w \in Login \cup Request : w.phase # "not found"
    BY DEF Login, Request
  <2> QED
    BY <2>1, <2>2 DEF Good
<1>5. VisitorsAreActive'
  BY <1>1, <1>2 DEF AccessInv, VisitorsAreActive, Good
<1>6. HandledHaveTheirRole' /\ AdmittedAreServed'
  BY <1>2, <1>4 DEF AccessInv, HandledHaveTheirRole, AdmittedAreServed, Good,
                    HasRequiredRole
<1> QED
  BY <1>1, <1>2, <1>3, <1>5, <1>6 DEF AccessInv, AccessTypeOK, TokensNameUsers

LEMMA AccessNextKeepsAccessInv == AccessInv /\ [AccessNext]_allVars => AccessInv'
<1> SUFFICES ASSUME AccessInv, [AccessNext]_allVars
             PROVE  AccessInv'
  OBVIOUS
<1> DEFINE Subjects == {u.id : u \in ActiveUsers}
<1>1. TokensNameUsers /\ \A v \in Visits : visit[v].phase = "logging in" =>
                             visit[v] \in Login /\ visit[v].user \in ActiveUsers
  BY PhasesOfVisits DEF AccessInv, AccessTypeOK, VisitorsAreActive
<1>2. Good(Away)
  <2>1. Away.phase = "away"
    BY DEF Away
  <2>2. Away \notin Login \cup Request
    BY <2>1 DEF Login, Request
  <2> QED
    BY <2>1, <2>2 DEF Good
<1>3. CASE [Next]_vars /\ UNCHANGED accessVars
  <2>1. IInv' /\ ShopsExist' /\ ActiveUsers \subseteq ActiveUsers'
    BY <1>3, NextKeepsIInv, ShopsAreKept, ActiveUsersStay DEF AccessInv
  <2>2. visit' = visit /\ tokens' = tokens
    BY <1>3 DEF accessVars
  <2>3. AccessTypeOK' /\ VisitorsAreActive'
    BY <2>1, <2>2 DEF AccessInv, IInv, AccessTypeOK, VisitorsAreActive
  <2>4. HandledHaveTheirRole' /\ AdmittedAreServed'
    BY <2>2 DEF AccessInv, HandledHaveTheirRole, AdmittedAreServed, HasRequiredRole
  <2>5. TokensNameUsers'
    BY <2>1, <2>2 DEF AccessInv, TokensNameUsers
  <2> QED
    BY <2>1, <2>3, <2>4, <2>5 DEF AccessInv
<1>4. ASSUME NEW v \in Visits, NEW email \in Emails, GetByEmail(v, email)
      PROVE  AccessInv'
  <2>1. PICK u \in ActiveUsers : Visit(v, [phase |-> "logging in", user |-> u])
    BY <1>4 DEF GetByEmail
  <2>2. Good([phase |-> "logging in", user |-> u])
    BY DEF Good, Login, Request, ActiveUsers, AccessInv, IInv, TypeOK
  <2> QED
    BY <1>1, <1>4, <2>1, <2>2, VisitKeepsAccessInv DEF GetByEmail, TokensNameUsers
<1>5. ASSUME NEW v \in Visits, CreateToken(v) \/ WrongPassword(v)
      PROVE  AccessInv'
  <2>1. UNCHANGED vars /\ Visit(v, Away) /\ tokens' \subseteq Subjects
    BY <1>1, <1>5 DEF CreateToken, WrongPassword, TokensNameUsers
  <2> QED
    BY <1>2, <2>1, VisitKeepsAccessInv
<1>6. ASSUME NEW v \in Visits, NEW id \in tokens, NEW route \in Routes,
             AuthToken(v, id, route)
      PROVE  AccessInv'
  <2> DEFINE Read(u) == [phase |-> "authenticated", user |-> u, route |-> route]
  <2>1. PICK u \in GetByID(id) : Visit(v, Read(u))
    BY <1>6 DEF AuthToken
  <2>2. u \in ActiveUsers /\ u \in User
    BY DEF GetByID, ActiveUsers, AccessInv, IInv, TypeOK
  <2>3. Good(Read(u))
    BY <2>2 DEF Good, Login, Request
  <2>4. UNCHANGED vars /\ tokens' \subseteq Subjects
    BY <1>1, <1>6 DEF AuthToken, TokensNameUsers
  <2> HIDE DEF Read
  <2> QED
    BY <2>1, <2>3, <2>4, VisitKeepsAccessInv
<1>7. ASSUME NEW v \in Visits, CheckRequiredRole(v)
      PROVE  AccessInv'
  <2>1. visit[v] \in Request /\ visit[v].user \in ActiveUsers
    BY <1>7, PhasesOfVisits DEF CheckRequiredRole, AccessInv, AccessTypeOK, VisitorsAreActive
  <2> DEFINE c == [visit[v] EXCEPT !.phase = "handling"]
  <2>2. c \in Request /\ c.user = visit[v].user /\ c.route = visit[v].route
    BY <2>1 DEF Request
  <2>3. HasRequiredRole(visit[v]) => Good(c)
    BY <2>1, <2>2 DEF Good, HasRequiredRole
  <2>4. UNCHANGED vars /\ tokens' \subseteq Subjects
    BY <1>1, <1>7 DEF CheckRequiredRole, TokensNameUsers
  <2>5. Visit(v, Away) \/ (HasRequiredRole(visit[v]) /\ Visit(v, c))
    BY <1>7 DEF CheckRequiredRole
  <2> HIDE DEF c
  <2> QED
    BY <1>2, <2>3, <2>4, <2>5, VisitKeepsAccessInv
<1>8. ASSUME NEW v \in Visits, Handle(v)
      PROVE  AccessInv'
  <2>1. UNCHANGED vars /\ Visit(v, Away) /\ tokens' \subseteq Subjects
    BY <1>1, <1>8, RowsAreFound DEF Handle, TokensNameUsers
  <2> QED
    BY <1>2, <2>1, VisitKeepsAccessInv
<1> QED
  BY <1>3, <1>4, <1>5, <1>6, <1>7, <1>8 DEF AccessNext, allVars, accessVars

LEMMA AccessInvariance == AccessSpec => []AccessInv
<1>1. AccessInit => AccessInv
  <2> SUFFICES ASSUME AccessInit
               PROVE  AccessInv
    OBVIOUS
  <2>1. IInv /\ users = {} /\ tokens = {} /\ \A v \in Visits : visit[v] = Away
    BY Initially DEF AccessInit, Init
  <2>2. AccessTypeOK /\ ShopsExist /\ TokensNameUsers
    BY <2>1 DEF AccessTypeOK, AccessInit, IInv, ShopsExist, TokensNameUsers
  <2>3. Away.phase = "away" /\ NotFound.phase = "not found" /\ Away \notin Login \cup Request
    BY DEF Away, NotFound, Login, Request
  <2>4. VisitorsAreActive /\ HandledHaveTheirRole /\ AdmittedAreServed
    BY <2>1, <2>3 DEF VisitorsAreActive, HandledHaveTheirRole, AdmittedAreServed
  <2> QED
    BY <2>1, <2>2, <2>4 DEF AccessInv
<1> QED
  BY <1>1, AccessNextKeepsAccessInv, PTL DEF AccessSpec

(***************************************************************************)
(* Type correctness of logins and requests with a token.                   *)
(***************************************************************************)
THEOREM AccessTypeCorrect == AccessSpec => []AccessTypeOK
<1>1. AccessInv => AccessTypeOK
  BY DEF AccessInv
<1> QED
  BY <1>1, AccessInvariance, PTL

(***************************************************************************)
(* A token's subject is a user who exists and is active, for ever.         *)
(***************************************************************************)
THEOREM SubjectsExist == AccessSpec => []TokensNameUsers
<1>1. AccessInv => TokensNameUsers
  BY DEF AccessInv
<1> QED
  BY <1>1, AccessInvariance, PTL

(***************************************************************************)
(* Whoever passes authentication and the role check is served.             *)
(***************************************************************************)
THEOREM Service == AccessSpec => []AdmittedAreServed
<1>1. AccessInv => AdmittedAreServed
  BY DEF AccessInv
<1> QED
  BY <1>1, AccessInvariance, PTL
=============================================================================
