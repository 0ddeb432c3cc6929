------------------------------- MODULE Access --------------------------------
(***************************************************************************)
(* Login, authentication and roles (internal/users, internal/middlewares)  *)
(* over the tables of Users, whose registrations, compensations and        *)
(* activations go on meanwhile.  A visit is a login or a request that      *)
(* bears a token, and reads the database once per step: the user, then, in *)
(* the handler, the row that the user's wallet or shop is kept in.         *)
(***************************************************************************)
EXTENDS Users

CONSTANTS Visits   \* logins and requests with a token, one at a time each

VARIABLES
    visit,         \* where each visit is, with the user its context carries
    tokens         \* subjects of the tokens issued, which nothing revokes

accessVars == <<visit, tokens>>
allVars == <<vars, accessVars>>

(***************************************************************************)
(* The routes that look something up for the user of the token, and the    *)
(* role each asks for; GET /wallet and /wallet/transactions ask for none.  *)
(***************************************************************************)
Routes == {"wallet", "transactions", "payments", "checkout-sessions"}

RolesOf(route) ==
    CASE route = "payments" -> {"customer"}
      [] route = "checkout-sessions" -> {"merchant"}
      [] OTHER -> Roles

Away == [phase |-> "away"]
NotFound == [phase |-> "not found"]

Login == [phase: {"logging in"}, user: User]
Request == [phase: {"authenticated", "handling"}, user: User, route: Routes]

AccessInit ==
    /\ Init
    /\ visit = [v \in Visits |-> Away]
    /\ tokens = {}

Visit(v, where) == visit' = [visit EXCEPT ![v] = where]

-----------------------------------------------------------------------------
(***************************************************************************)
(* CreateToken: the user is read by its address, then the password is      *)
(* compared and the token signed.                                          *)
(***************************************************************************)
\* Variant: whoever has registered can log in.
RegisteredUsers == users

ActiveUsers == {u \in users : u.active}

GetByEmail(v, email) ==
    /\ visit[v] = Away
    /\ \E u \in ActiveUsers :
          u.email = email /\ Visit(v, [phase |-> "logging in", user |-> u])
    /\ UNCHANGED <<vars, tokens>>

CreateToken(v) ==
    /\ visit[v].phase = "logging in"
    /\ tokens' = tokens \cup {visit[v].user.id}
    /\ Visit(v, Away)
    /\ UNCHANGED vars

WrongPassword(v) ==
    /\ visit[v].phase = "logging in"
    /\ Visit(v, Away)
    /\ UNCHANGED <<vars, tokens>>

-----------------------------------------------------------------------------
(***************************************************************************)
(* AuthTokenMiddleware: the subject of the token is read with its role and *)
(* put into the request's context.                                         *)
(***************************************************************************)
GetByID(id) == {u \in users : u.id = id /\ u.active}

AuthToken(v, id, route) ==
    /\ visit[v] = Away
    /\ id \in tokens
    /\ \E u \in GetByID(id) :
          Visit(v, [phase |-> "authenticated", user |-> u, route |-> route])
    /\ UNCHANGED <<vars, tokens>>

\* Variant: the role is not compared.
AnyRole(c) == TRUE

HasRequiredRole(c) == c.user.role \in RolesOf(c.route)

CheckRequiredRole(v) ==
    /\ visit[v].phase = "authenticated"
    /\ Visit(v, IF HasRequiredRole(visit[v])
                THEN [visit[v] EXCEPT !.phase = "handling"] ELSE Away)
    /\ UNCHANGED <<vars, tokens>>

(***************************************************************************)
(* The handlers look for the balance of the user's identity or, to create  *)
(* a checkout session, for the merchant of the user; a handler that finds  *)
(* none answers 404, or 500 to a merchant.                                 *)
(***************************************************************************)
ShopOf(u) == {m \in merchants : m.user = u.id}

RowsOf(c) ==
    IF c.route = "checkout-sessions" THEN ShopOf(c.user) ELSE Wallets(c.user.id)

Handle(v) ==
    /\ visit[v].phase = "handling"
    /\ Visit(v, IF RowsOf(visit[v]) # {} THEN Away ELSE NotFound)
    /\ UNCHANGED <<vars, tokens>>

-----------------------------------------------------------------------------
AccessNext ==
    \/ Next /\ UNCHANGED accessVars
    \/ \E v \in Visits :
          \/ \E email \in Emails : GetByEmail(v, email)
          \/ CreateToken(v) \/ WrongPassword(v)
          \/ \E id \in tokens, route \in Routes : AuthToken(v, id, route)
          \/ CheckRequiredRole(v) \/ Handle(v)

AccessSpec == AccessInit /\ [][AccessNext]_allVars

-----------------------------------------------------------------------------
(***************************************************************************)
(* The type invariant of the tables of users, the requests on them and the *)
(* visits.                                                                 *)
(***************************************************************************)
AccessTypeOK ==
    /\ TypeOK
    /\ visit \in [Visits -> {Away, NotFound} \cup Login \cup Request]
    /\ tokens \subseteq Requests

(***************************************************************************)
(* TokensNameUsers: a token, which stays valid for three days whatever     *)
(* happens, names a user that exists and is active for as long, although   *)
(* compensations delete users, and may begin before an activation.         *)
(***************************************************************************)
TokensNameUsers == tokens \subseteq {u.id : u \in ActiveUsers}

(***************************************************************************)
(* AdmittedAreServed: no request that authentication and the role check    *)
(* have let through fails to find its user's balance or merchant: none is  *)
(* answered 404 balance not found, or 500 to a merchant.                   *)
(***************************************************************************)
AdmittedAreServed == \A v \in Visits : visit[v] # NotFound

(***************************************************************************)
(* LedgersFollowRoles: a merchant's balance is in the merchants' ledger,   *)
(* as /merchants/activate and /customers/activate are to see to.           *)
(***************************************************************************)
LedgersFollowRoles ==
    \A b \in balances, u \in users : b.identity = u.id => b.ledger = u.role
=============================================================================
