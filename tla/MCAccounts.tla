----------------------------- MODULE MCAccounts -----------------------------
(***************************************************************************)
(* Instances of Identity for TLC.  Each behaviour exercises one part, with *)
(* two requests at a time: one user, and everything that can be done to    *)
(* him; users who compete; codes; the session of a browser.                *)
(***************************************************************************)
EXTENDS Identity, TLC

CONSTANTS h1, h2, l1, b1, p1, s1, t1, u1, n1, n2

VARIABLES part

\* Two users with one login id, one mailbox and one social account between them.
D == INSTANCE Accounts WITH Statuses <- {}, Phones <- {}, MaxId <- 2

AllInit ==
    /\ part \in {"account", "accounts", "codes", "session"}
    /\ IdentityInit

AllNext ==
    /\ UNCHANGED part
    /\ \/ part = "account" /\ AccountStep
       \/ part = "accounts" /\ D!Next /\ UNCHANGED <<Redis, Browser>>
       \/ part = "codes" /\ CodeStep
       \/ part = "session" /\ SessionStep

AllSpec == AllInit /\ [][AllNext]_<<part, identityVars>>

\* Handlers, and the phones that are verified, are interchangeable.
Symmetry == Permutations(Handlers) \cup Permutations(Mobiles)
=============================================================================
