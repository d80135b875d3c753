------------------------------ MODULE Sessions ------------------------------
(***************************************************************************)
(* The session of one browser (app/auth, core/security.py): a refresh token*)
(* in a cookie, whose life and whose cookie's life are computed in two     *)
(* places.  Tokens are not stored on the server: what ends a session early *)
(* is the row of its user.                                                 *)
(***************************************************************************)
EXTENDS Naturals

CONSTANTS
    ExpireDays,    \* refresh_token_expire_days, 14 in the code
    RememberDays,  \* refresh_token_remember_days, 30 in the code
    MaxDay         \* bound: last day

VARIABLES
    today,
    is_active,     \* of the row in users
    cookie,        \* [exp, until]: end of the refresh token, and of its cookie
    lastSeen       \* history: day of the last token, Never after a sign-out

vars == <<today, is_active, cookie, lastSeen>>

Nothing == [exp |-> 0, until |-> 0]
Never == MaxDay + 1

Init ==
    /\ today = 1
    /\ is_active = TRUE
    /\ cookie = Nothing
    /\ lastSeen = Never

\* _issue_tokens, and the router's max_age of the cookie.
Issue(days, max_age) ==
    /\ cookie' = [exp |-> today + days, until |-> today + max_age]
    /\ lastSeen' = today
    /\ UNCHANGED <<today, is_active>>

RefreshDays(remember) == IF remember THEN RememberDays ELSE ExpireDays

SignIn(remember) ==
    is_active /\ Issue(RefreshDays(remember), RefreshDays(remember))

\* social_callback of a user there is; sign_up and social_sign_up do the same.
SocialCallback == is_active /\ Issue(ExpireDays, ExpireDays)

\* The browser sends the cookie while it lives, decode_token wants a live token.
Presented == today < cookie.until /\ today < cookie.exp

\* Variant: no rotation: the refresh token stays, only the access token is new.
Refresh_KeepsToken ==
    /\ Presented /\ is_active
    /\ lastSeen' = today
    /\ UNCHANGED <<today, is_active, cookie>>

Refresh == Presented /\ is_active /\ Issue(ExpireDays, ExpireDays)

\* The cookie is deleted.
SignOut ==
    /\ cookie' = Nothing
    /\ lastSeen' = Never
    /\ UNCHANGED <<today, is_active>>

Midnight ==
    /\ today < MaxDay
    /\ today' = today + 1
    /\ UNCHANGED <<is_active, cookie, lastSeen>>

\* Module Accounts: an admin sets the status, the user withdraws.
RowChanges ==
    /\ is_active' = ~is_active
    /\ UNCHANGED <<today, cookie, lastSeen>>

Next ==
    \/ \E remember \in BOOLEAN : SignIn(remember)
    \/ SocialCallback \/ Refresh \/ SignOut
    \/ Midnight \/ RowChanges

Spec == Init /\ [][Next]_vars

-----------------------------------------------------------------------------
\* A user who comes back within ExpireDays of the last time is still signed in,
\* as often as he does, unless he signed out or his account is closed
\* (auth_service.py:276).
StaysSignedIn ==
    lastSeen # Never /\ today < lastSeen + ExpireDays /\ is_active => Presented
=============================================================================
