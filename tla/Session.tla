------------------------------ MODULE Session -------------------------------
(***************************************************************************)
(* Accounts and tokens: the authentication service                         *)
(* (backend/security/auth_service.py) on the token service                 *)
(* (backend/security/jwt_service.py), behind the auth routes and the       *)
(* dependencies every other route has (backend/api/deps.py).               *)
(*                                                                         *)
(* Users live in one process and are lost with it; a token is a signed     *)
(* text its holder keeps, and any token ever issued may be shown again.    *)
(* Every account has the role "user", as the register route gives it; an   *)
(* administrator changes the scopes of that role.                          *)
(***************************************************************************)
EXTENDS Naturals, FiniteSets

CONSTANTS Email, Password,
          Scope,       \* scopes the role may be granted
          AccessTtl,   \* access_token_expire_minutes, in ticks
          RefreshTtl,  \* AuthService._refresh_ttl, in ticks
          MaxClock,    \* bound: ticks
          MaxUsers,    \* bound: accounts made, restarts included
          MaxTokens    \* bound: tokens in circulation

ASSUME SessionAssumption ==
    AccessTtl \in Nat /\ RefreshTtl \in Nat /\ MaxClock \in Nat /\ MaxUsers \in Nat

VARIABLES clock,      \* time.time()
          users,      \* _users, 0 where there is none: id and password of an email
          registered, \* accounts made, to number them
          roleScopes, \* what the role "user" is granted
          tokens,     \* tokens issued, with the time and scopes of their login
          admitted    \* history: who was just admitted to a route, and by which token

sessionVars == <<clock, users, registered, roleScopes, tokens, admitted>>

NoUser == [id |-> 0]

SessionInit ==
    /\ clock = 0 /\ registered = 0
    /\ users = [e \in Email |-> NoUser]
    /\ roleScopes = {} /\ tokens = {} /\ admitted = {}

-----------------------------------------------------------------------------
Register(e, pw) ==
    /\ users[e] = NoUser /\ registered < MaxUsers
    /\ registered' = registered + 1
    /\ users' = [users EXCEPT ![e] = [id |-> registered', password |-> pw]]
    /\ admitted' = {}
    /\ UNCHANGED <<clock, roleScopes, tokens>>

Circulate(T) == Cardinality(T) <= MaxTokens /\ tokens' = T

\* JwtService.issue; login is the history of the password it goes back to.
Token(typ, sub, scopes, ttl, login) ==
    [typ |-> typ, sub |-> sub, scopes |-> scopes, exp |-> clock + ttl, login |-> login]

\* PasswordHasher: only the password that was hashed verifies.
Verifies(pw, stored) == pw = stored

Login(e, pw) ==
    /\ users[e] # NoUser /\ Verifies(pw, users[e].password)
    /\ LET login == [at |-> clock, sub |-> users[e].id, scopes |-> roleScopes]
       IN Circulate(tokens \cup {Token("access", login.sub, login.scopes, AccessTtl, login),
                                 Token("refresh", login.sub, login.scopes, RefreshTtl, login)})
    /\ admitted' = {}
    /\ UNCHANGED <<clock, users, registered, roleScopes>>

\* JwtService.verify: a token is good up to its last tick.
Valid(t) == t.exp >= clock

\* The type of the token is not looked at.
RefreshAny(t) ==
    /\ Valid(t)
    /\ Circulate(tokens \cup {Token("access", t.sub, t.scopes, AccessTtl, t.login)})
    /\ admitted' = {}
    /\ UNCHANGED <<clock, users, registered, roleScopes>>

\* The account and its scopes are not looked up again.
Refresh(t) ==
    /\ Valid(t) /\ t.typ = "refresh"
    /\ Circulate(tokens \cup {Token("access", t.sub, t.scopes, AccessTtl, t.login)})
    /\ admitted' = {}
    /\ UNCHANGED <<clock, users, registered, roleScopes>>

VerifyAccess(t) == Valid(t) /\ t.typ = "access"

\* get_principal, the guard of every route, and the same call of the WebSocket;
\* every other request is refused.  The scopes come with the principal and close
\* no route: require_scope guards none.
Admit(t) ==
    /\ VerifyAccess(t)
    /\ admitted' = {[token |-> t, principal |-> [id |-> t.sub, scopes |-> t.scopes]]}
    /\ UNCHANGED <<clock, users, registered, roleScopes, tokens>>

SetScopes(S) ==
    /\ roleScopes' = S
    /\ admitted' = {}
    /\ UNCHANGED <<clock, users, registered, tokens>>

\* The process is replaced: its users and grants are gone, the secret is not.
Replaced ==
    /\ users' = [e \in Email |-> NoUser]
    /\ roleScopes' = {}
    /\ admitted' = {}
    /\ UNCHANGED <<clock, registered, tokens>>

\* Expired tokens are as good as none.
Later ==
    /\ clock < MaxClock
    /\ clock' = clock + 1
    /\ tokens' = {t \in tokens : t.exp >= clock'}
    /\ admitted' = {}
    /\ UNCHANGED <<users, registered, roleScopes>>

SessionNext ==
    \/ \E e \in Email, pw \in Password : Register(e, pw) \/ Login(e, pw)
    \/ \E t \in tokens : Refresh(t) \/ Admit(t)
    \/ \E S \in SUBSET Scope : SetScopes(S)
    \/ Replaced \/ Later

SessionSpec == SessionInit /\ [][SessionNext]_sessionVars

-----------------------------------------------------------------------------
SessionTypeOK ==
    /\ clock \in 0 .. MaxClock
    /\ registered \in 0 .. MaxUsers
    /\ \A e \in Email : users[e] # NoUser =>
          users[e] \in [id : 1 .. registered, password : Password]
    /\ roleScopes \subseteq Scope
    /\ \A t \in tokens : t.typ \in {"access", "refresh"} /\ t.sub \in 1 .. registered

\* How far a password reaches: whoever is admitted has logged in with it, at
\* most a refresh and an access lifetime ago, and is admitted as that user with
\* the scopes granted at that moment, all of them and no other, whatever has been
\* granted or revoked since, through refreshes and restarts.
SessionBound ==
    \A a \in admitted :
        /\ clock - a.token.login.at <= RefreshTtl + AccessTtl
        /\ a.principal.id = a.token.login.sub
        /\ a.principal.scopes = a.token.login.scopes

=============================================================================
