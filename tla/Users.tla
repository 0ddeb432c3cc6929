------------------------------- MODULE Users --------------------------------
(***************************************************************************)
(* Registration and activation (internal/users).  A registration commits   *)
(* its rows, then sends the invitation, and takes the rows back in a       *)
(* second transaction when the mailer reports an error.  Whoever has       *)
(* received the invitation may activate the user meanwhile, several times  *)
(* at once.                                                                *)
(*                                                                         *)
(* A registration inserts rows of its own that nobody sees before its      *)
(* commit; the writes of an activation and of a compensation begin with    *)
(* the user's row and exclude each other from there on.  So the writes of  *)
(* each transaction are one step.                                          *)
(***************************************************************************)
CONSTANTS
    Requests,        \* registrations and activations
    Emails,
    BusinessNames,
    Unreliable       \* requests whose statements or process may fail

ASSUME UnreliableAssumption == Unreliable \subseteq Requests

VARIABLES
    pc,              \* where each request is
    call,            \* what it was asked for
    told,            \* what it has answered
    users,           \* table users; a user's id is the request that made it,
    identities,      \* table identities, and so is its identity's,
    invitations,     \* table user_invitations, and its invitation's token
    merchants,       \* table merchants
    balances,        \* table balances, by the activations that made them
    delivered        \* invitations that have reached their users

tables == <<users, identities, invitations, merchants, balances>>
vars == <<pc, call, told, tables, delivered>>

Roles == {"customer", "merchant"}

NoCall == [op |-> "none"]

\* Variant: customerRoleID is another role's.
CustomerCallAsAdmin == [op: {"register"}, role: {"admin"}, email: Emails]

CustomerCall == [op: {"register"}, role: {"customer"}, email: Emails]

MerchantCall ==
    [op: {"register"}, role: {"merchant"}, email: Emails, name: BusinessNames]
ActivateCall == [op: {"activate"}, user: Requests, ledger: Roles]

User == [id: Requests, email: Emails, role: Roles, active: BOOLEAN]
Merchant == [user: Requests, name: BusinessNames]
Balance == [id: Requests, identity: Requests, ledger: Roles]

Ids == {u.id : u \in users}
Wallets(i) == {b \in balances : b.identity = i}

Init ==
    /\ pc = [r \in Requests |-> "idle"]
    /\ call = [r \in Requests |-> NoCall]
    /\ told = [r \in Requests |-> "nothing"]
    /\ users = {} /\ identities = {} /\ invitations = {}
    /\ merchants = {} /\ balances = {} /\ delivered = {}

Continue(r, phase) ==
    /\ pc' = [pc EXCEPT ![r] = phase]
    /\ UNCHANGED <<call, told>>

Answer(r, what) ==
    /\ pc' = [pc EXCEPT ![r] = "done"]
    /\ told' = [told EXCEPT ![r] = what]

-----------------------------------------------------------------------------
(***************************************************************************)
(* RegisterCustomer and RegisterMerchant: e-mail addresses and business    *)
(* names are unique.                                                       *)
(***************************************************************************)
Unused(c) ==
    /\ \A u \in users : u.email # c.email
    /\ c.role = "merchant" => \A m \in merchants : m.name # c.name

NewUser(r, c) == [id |-> r, email |-> c.email, role |-> c.role, active |-> FALSE]

Register(r, c) ==
    /\ pc[r] = "idle"
    /\ Unused(c)
    /\ pc' = [pc EXCEPT ![r] = "mailing"]
    /\ call' = [call EXCEPT ![r] = c]
    /\ identities' = identities \cup {r}
    /\ users' = users \cup {NewUser(r, c)}
    /\ invitations' = invitations \cup {r}
    /\ merchants' = IF c.role = "merchant"
                    THEN merchants \cup {[user |-> r, name |-> c.name]} ELSE merchants
    /\ UNCHANGED <<told, balances, delivered>>

RegisterDuplicate(r, c) ==
    /\ pc[r] = "idle"
    /\ ~ Unused(c)
    /\ Answer(r, "error")
    /\ call' = [call EXCEPT ![r] = c]
    /\ UNCHANGED <<tables, delivered>>

(***************************************************************************)
(* mailer.Send: the mail may arrive although an error is reported.         *)
(***************************************************************************)
Deliver(r) ==
    /\ pc[r] = "mailing"
    /\ r \notin delivered
    /\ delivered' = delivered \cup {r}
    /\ UNCHANGED <<pc, call, told, tables>>

Sent(r) ==
    /\ pc[r] = "mailing"
    /\ r \in delivered
    /\ Answer(r, "token")
    /\ UNCHANGED <<call, tables, delivered>>

NotSent(r) ==
    /\ pc[r] = "mailing"
    /\ Continue(r, "undoing")
    /\ UNCHANGED <<tables, delivered>>

(***************************************************************************)
(* The compensation deletes the user, its invitation, its identity and at  *)
(* last the merchant: the first fails while a merchant refers to the user, *)
(* the third while a balance refers to the identity.                       *)
(***************************************************************************)
\* Variant: the identity is deleted before the user that refers to it.
UndoableIdentityFirst(r) == r \notin Ids /\ Wallets(r) = {}

Undoable(r) == (\A m \in merchants : m.user # r) /\ Wallets(r) = {}

\* Variant: the invitation is forgotten, which no foreign key notices.
InvitationsKept(r) == invitations

InvitationsWithout(r) == invitations \ {r}

UsersWithout(r) == {u \in users : u.id # r}

IdentitiesWithout(r) == identities \ {r}

(***************************************************************************)
(* The error returned after a compensation that succeeds is the one of the *)
(* compensation, so nil: the answer is a success with an empty token.      *)
(***************************************************************************)
Undo(r) ==
    /\ pc[r] = "undoing"
    /\ Undoable(r)
    /\ users' = UsersWithout(r)
    /\ invitations' = InvitationsWithout(r)
    /\ identities' = IdentitiesWithout(r)
    /\ Answer(r, "no token")
    /\ UNCHANGED <<call, merchants, balances, delivered>>

UndoFails(r) ==
    /\ pc[r] = "undoing"
    /\ ~ Undoable(r) \/ r \in Unreliable
    /\ Answer(r, "error")
    /\ UNCHANGED <<call, tables, delivered>>

-----------------------------------------------------------------------------
(***************************************************************************)
(* activate: the user is read by its invitation, made active and given a   *)
(* balance in the ledger of the route, and the invitation deleted.  The    *)
(* UPDATE of a user that is gone changes no row and is no error; the       *)
(* balance of an identity that is gone is one.                             *)
(***************************************************************************)
Activate(r, i, ledger) ==
    /\ pc[r] = "idle"
    /\ i \in delivered \cap invitations \cap Ids
    /\ pc' = [pc EXCEPT ![r] = "activating"]
    /\ call' = [call EXCEPT ![r] = [op |-> "activate", user |-> i, ledger |-> ledger]]
    /\ UNCHANGED <<told, tables, delivered>>

Update(i) == {IF u.id = i THEN [u EXCEPT !.active = TRUE] ELSE u : u \in users}

\* Variant: no balance is created.
NoNewBalance(r, c) == balances

NewBalance(r, c) ==
    balances \cup {[id |-> r, identity |-> c.user, ledger |-> c.ledger]}

\* Variant: the invitation stays.
NotUsedUp(i) == invitations

UsedUp(i) == invitations \ {i}

Activated(r) ==
    LET c == call[r]
    IN  /\ pc[r] = "activating"
        /\ c.user \in identities
        /\ users' = Update(c.user)
        /\ balances' = NewBalance(r, c)
        /\ invitations' = UsedUp(c.user)
        /\ Answer(r, "activated")
        /\ UNCHANGED <<call, identities, merchants, delivered>>

NotActivated(r) ==
    /\ pc[r] = "activating"
    /\ call[r].user \notin identities \/ r \in Unreliable
    /\ Answer(r, "error")
    /\ UNCHANGED <<call, tables, delivered>>

(***************************************************************************)
(* The process stops between the transactions of a registration.           *)
(***************************************************************************)
Crash(r) ==
    /\ r \in Unreliable
    /\ pc[r] \in {"mailing", "undoing"}
    /\ Continue(r, "lost")
    /\ UNCHANGED <<tables, delivered>>

Terminating ==
    /\ \A r \in Requests : pc[r] \in {"idle", "done", "lost"}
    /\ UNCHANGED vars

Next ==
    \/ \E r \in Requests, c \in CustomerCall \cup MerchantCall :
          Register(r, c) \/ RegisterDuplicate(r, c)
    \/ \E r \in Requests, i \in delivered, ledger \in Roles : Activate(r, i, ledger)
    \/ \E r \in Requests :
          \/ Deliver(r) \/ Sent(r) \/ NotSent(r) \/ Undo(r) \/ UndoFails(r)
          \/ Activated(r) \/ NotActivated(r) \/ Crash(r)
    \/ Terminating

Spec == Init /\ [][Next]_vars

-----------------------------------------------------------------------------
(***************************************************************************)
(* The type invariant of the tables of users and of the requests on them.  *)
(***************************************************************************)
TypeOK ==
    /\ pc \in [Requests -> {"idle", "mailing", "undoing", "activating", "done", "lost"}]
    /\ call \in [Requests -> {NoCall} \cup CustomerCall \cup MerchantCall \cup ActivateCall]
    /\ told \in [Requests -> {"nothing", "token", "no token", "activated", "error"}]
    /\ users \subseteq User
    /\ identities \subseteq Requests
    /\ invitations \subseteq Requests
    /\ merchants \subseteq Merchant
    /\ balances \subseteq Balance
    /\ delivered \subseteq Requests

(***************************************************************************)
(* ActiveUsersHaveWallets: a user who can log in has a balance, even when  *)
(* an activation meets the compensation of the user's registration.        *)
(***************************************************************************)
ActiveUsersHaveWallets == \A u \in users : u.active <=> Wallets(u.id) # {}

(***************************************************************************)
(* NoOrphans: identities, invitations, merchants and balances belong to    *)
(* users, although no foreign key leads from an identity, an invitation or *)
(* a balance to its user, and a compensation deletes the user first.       *)
(***************************************************************************)
NoOrphans ==
    /\ identities = Ids
    /\ invitations \subseteq Ids
    /\ {m.user : m \in merchants} \subseteq Ids
    /\ {b.identity : b \in balances} \subseteq Ids

(***************************************************************************)
(* InvitedUsersAreInactive: no active user's invitation can be used by an  *)
(* activation that begins now, however many are under way.                 *)
(***************************************************************************)
InvitedUsersAreInactive == \A u \in users : u.id \in invitations <=> ~ u.active

(***************************************************************************)
(* FailedCustomersAreGone: a customer's registration answered with an      *)
(* error leaves nothing that keeps the address from being registered       *)
(* again, unless somebody has activated it or the compensation failed.     *)
(***************************************************************************)
FailedCustomersAreGone ==
    \A u \in users : u.role = "customer" /\ told[u.id] = "error" =>
        u.active \/ u.id \in Unreliable

(***************************************************************************)
(* RegisteredExists: "Customer registered" (users/handler.go:42) is said   *)
(* of a user that exists.                                                  *)
(***************************************************************************)
RegisteredExists ==
    \A r \in Requests : told[r] \in {"token", "no token"} => r \in Ids

(***************************************************************************)
(* FailedMerchantsAreGone: the "// delete user" of RegisterMerchant        *)
(* (users/service.go:251) leaves no merchant behind.                       *)
(***************************************************************************)
FailedMerchantsAreGone ==
    \A u \in users : u.role = "merchant" /\ told[u.id] = "error" => u.active

(***************************************************************************)
(* InvitationsAreUsedOnce: "user invitation not found or expired"          *)
(* (users.go:19) is what a second activation of a user is told.            *)
(***************************************************************************)
InvitationsAreUsedOnce ==
    \A a, b \in balances : a.identity = b.identity => a = b
=============================================================================
