-------------------------------- MODULE Login --------------------------------
(***************************************************************************)
(* Signing in to the portal (auth.py, identity_access.py): the account, the *)
(* JWT it is given, and the limit on attempts.  A token says who its holder *)
(* is until it expires; portal_user.is_active is read when it is issued and *)
(* when the page is opened, and by no other request.                       *)
(*                                                                         *)
(* Abstracted: of a user's tokens the one that lives longest is kept, a    *)
(* password is right or wrong, and everybody comes from one address, whose *)
(* attempts leave the limiter's window one by one at any time.             *)
(***************************************************************************)
EXTENDS Integers

CONSTANTS
    Users,
    Life,          \* token_expire_minutes, in periods
    MaxAttempts    \* attempts the limiter lets through in its window

ASSUME LoginAssumption == Life \in Nat \ {0} /\ MaxAttempts \in Nat \ {0}

VARIABLES
    active,     \* portal_user.is_active
    token,      \* what is left of each user's longest token
    attempts,   \* attempts in the limiter's window
    inactive    \* history: how long an account has been disabled, up to Life

loginVars == <<active, token, attempts, inactive>>

LoginTypeOK ==
    /\ active \in [Users -> BOOLEAN]
    /\ token \in [Users -> 0..Life]
    /\ attempts \in 0..MaxAttempts
    /\ inactive \in [Users -> 0..Life]

LoginInit ==
    /\ active = [u \in Users |-> TRUE]
    /\ token = [u \in Users |-> 0]
    /\ attempts = 0
    /\ inactive = [u \in Users |-> 0]

\* get_current_user: what every request of a user asks.
SignedIn(u) == token[u] > 0

\* resolve_session_context, which the page asks when it is opened.
PageOpens(u) == SignedIn(u) /\ active[u]

-----------------------------------------------------------------------------
(* POST /auth/login                                                         *)

\* _RateLimiter.check
Attempt ==
    /\ attempts < MaxAttempts
    /\ attempts' = attempts + 1

\* Seeded fault of Account: disabled accounts are found as well.
AnyAccount(u) == TRUE

\* SELECT ... WHERE username = u AND is_active = 1
Account(u) == active[u]

NewToken(u) == token' = [token EXCEPT ![u] = Life]

LogIn(u) ==
    /\ Attempt
    /\ Account(u)
    /\ NewToken(u)
    /\ UNCHANGED <<active, inactive>>

\* No such account, or not its password.
LogInFails ==
    /\ Attempt
    /\ UNCHANGED <<active, token, inactive>>

AttemptAges ==
    /\ attempts > 0
    /\ attempts' = attempts - 1
    /\ UNCHANGED <<active, token, inactive>>

-----------------------------------------------------------------------------
\* DELETE /users/{id}, or PUT with is_active: no token is withdrawn.
SetAccount(u) ==
    /\ active' = [active EXCEPT ![u] = ~@]
    /\ inactive' = [inactive EXCEPT ![u] = 0]
    /\ UNCHANGED <<token, attempts>>

TokensAge ==
    /\ \E u \in Users : token[u] > 0 \/ (~active[u] /\ inactive[u] < Life)
    /\ token' = [u \in Users |-> IF token[u] > 0 THEN token[u] - 1 ELSE 0]
    /\ inactive' = [u \in Users |->
            IF ~active[u] /\ inactive[u] < Life THEN inactive[u] + 1 ELSE inactive[u]]
    /\ UNCHANGED <<active, attempts>>

LoginStep ==
    \/ \E u \in Users : LogIn(u) \/ SetAccount(u)
    \/ LogInFails \/ AttemptAges \/ TokensAge
=============================================================================
