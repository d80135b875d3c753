------------------------------ MODULE Identity ------------------------------
(***************************************************************************)
(* Who somebody is: the accounts (this module's own), the verification     *)
(* codes in Redis and the session of a browser.  They meet only in what a  *)
(* person carries from one to the other: the token for a verified e-mail,  *)
(* the status of the own account.  So none reads another's state, and their*)
(* steps interleave.                                                       *)
(***************************************************************************)
EXTENDS Accounts

CONSTANTS
    Visitors, Mobiles,          \* who asks for a code, for which phone
    MaxCode,                    \* bound: codes ever drawn
    ExpireDays, RememberDays,   \* lives of a refresh token
    MaxDay                      \* bound: last day

\* No mailbox is spelled like the address that a withdrawal leaves (an address that
\* people have has a dot in its domain); new accounts are active; "" stands for no
\* social account.
ASSUME IdentityAssumption ==
    /\ "withdrawn" \notin Boxes
    /\ "ACTIVE" \in Statuses
    /\ "" \notin Socials

\* Remembering is for longer (core/config.py:31).
ASSUME DaysAssumption ==
    /\ ExpireDays \in Nat /\ RememberDays \in Nat /\ MaxDay \in Nat \ {0}
    /\ ExpireDays <= RememberDays

VARIABLES
    rate, code, drawn, lastCode, shown, sent, accepted, orphaned, verified, codeRequest,
    today, is_active, cookie, lastSeen

People == vars
Redis  == <<rate, code, drawn, lastCode, shown, sent, accepted, orphaned, verified,
            codeRequest>>
Browser == <<today, is_active, cookie, lastSeen>>
identityVars == <<People, Redis, Browser>>

C == INSTANCE Codes WITH Users <- Visitors, Emails <- Boxes, Phones <- Mobiles,
         request <- codeRequest
S == INSTANCE Sessions

IdentityInit == Init /\ C!Init /\ S!Init

AccountStep == Next /\ UNCHANGED <<Redis, Browser>>
CodeStep    == C!Next /\ UNCHANGED <<People, Browser>>
SessionStep == S!Next /\ UNCHANGED <<People, Redis>>

IdentityNext == AccountStep \/ CodeStep \/ SessionStep

IdentitySpec == IdentityInit /\ [][IdentityNext]_identityVars

-----------------------------------------------------------------------------
\* Rows are well formed: no two users share a login id or an address as spelled,
\* and every social account belongs to a user.  However many tabs ask at once, one
\* code per address is on its way (auth_service.py:130), and the phone that a user has
\* verified is one from which a message with an accepted code came (octomo.py:53).
AccountsTypeOK == TypeOK /\ C!OneCodePerWindow /\ C!VerifiedWasProved

\* A phone is locked only while a QR is being made, after its newest code was
\* shown, or because a worker died over it: a customer who is told to wait has
\* something to scan, however sending and verifying fail (user_service.py:114).
LockMeansShown == C!LockMeansShown

\* A code that was accepted is dead for every request that begins later
\* (auth_service.py:145); requests that had read it before can still use it.
AcceptedIsDead == C!AcceptedIsDead

\* A user who comes back within ExpireDays of the last time is still signed in,
\* as often as he does, unless he signed out or his account is closed
\* (auth_service.py:276).
StaysSignedIn == S!StaysSignedIn
=============================================================================
