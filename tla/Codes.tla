------------------------------- MODULE Codes --------------------------------
(***************************************************************************)
(* Verification codes in Redis (auth_service.py, user_service.py and       *)
(* adapters/octomo.py).  E-mail: the server mails a code and the customer  *)
(* types it in.  Phone: the server shows a code as a QR, the customer      *)
(* sends it in a text message, and the server asks Octomo whether it came. *)
(* A rate key locks an address for a minute; every Redis and HTTP call is a*)
(* step of its own, and a worker may die between any two of them.          *)
(***************************************************************************)
EXTENDS Naturals, Requests

CONSTANTS
    Users, Emails, Phones,
    MaxCode       \* bound: codes ever drawn; two codes are never equal

VARIABLES
    rate,         \* addresses with a rate key
    code,         \* address -> its code, 0 when there is none
    drawn,        \* history: address -> the last code drawn for it
    lastCode,
    shown,        \* codes that were mailed, or shown as a QR
    sent,         \* messages that Octomo has got: <<phone it came from, code>>
    accepted,     \* codes that were accepted
    orphaned,     \* history: addresses whose rate key a dead request has left
    verified,     \* user -> phone of his phone_verified_at, or "none"
    request

vars == <<rate, code, drawn, lastCode, shown, sent, accepted, orphaned, verified,
          request>>

Addresses == Emails \cup Phones
Active(h) == h \in Busy(request)
Issuing(a) == {h \in Busy(request) : request[h].user = a /\ request[h].op \in {"send", "qr"}}

Init ==
    /\ rate = {} /\ code = [a \in Addresses |-> 0] /\ lastCode = 0
    /\ drawn = [a \in Addresses |-> 0]
    /\ shown = {} /\ sent = {} /\ accepted = {} /\ orphaned = {}
    /\ verified = [u \in Users |-> "none"]
    /\ request = [h \in Handlers |-> Idle]

\* user: the address the request is about; who: the user who asks.
Received(op, a, who, c) == [op |-> op, user |-> a, who |-> who, code |-> c, alone |-> TRUE]

Start(h, r) == ~Active(h) /\ request' = Begun(request, h, r)

\* send_email_verification_code and send_phone_verification: SET NX of the rate key.
Send(h, a) ==
    /\ a \notin rate
    /\ rate' = rate \cup {a}
    /\ Start(h, Received("send", a, "none", 0))
    /\ UNCHANGED <<code, drawn, lastCode, shown, sent, accepted, orphaned, verified>>

\* SET of the code; the mail is a background task, the QR an HTTP call.
StoreCode(h) ==
    LET a == request[h].user IN
    /\ Active(h) /\ request[h].op = "send" /\ lastCode < MaxCode
    /\ lastCode' = lastCode + 1
    /\ code' = [code EXCEPT ![a] = lastCode']
    /\ drawn' = [drawn EXCEPT ![a] = lastCode']
    /\ request' = [request EXCEPT ![h].op = "qr", ![h].code = lastCode']
    /\ UNCHANGED <<rate, shown, sent, accepted, orphaned, verified>>

\* The customer gets the code.
Show(h) ==
    /\ Active(h) /\ request[h].op = "qr"
    /\ shown' = shown \cup {request[h].code}
    /\ request' = Ended(request, h)
    /\ UNCHANGED <<rate, code, drawn, lastCode, sent, accepted, orphaned, verified>>

\* Variant: the rate key is left until it expires.
SendFails_KeepsLock(h) ==
    /\ Active(h) /\ request[h].op \in {"send", "qr"}
    /\ request' = Ended(request, h)
    /\ UNCHANGED <<rate, code, drawn, lastCode, shown, sent, accepted, orphaned, verified>>

\* The SET, the mail or the QR fails; send_phone_verification deletes its rate key.
SendFails(h) ==
    /\ Active(h) /\ request[h].op \in {"send", "qr"}
    /\ rate' = rate \ ({request[h].user} \cap Phones)
    /\ request' = Ended(request, h)
    /\ UNCHANGED <<code, drawn, lastCode, shown, sent, accepted, orphaned, verified>>

\* The worker dies, or the call is cancelled, which is no Exception: nothing is
\* cleaned up.
Die(h) ==
    /\ Active(h)
    /\ orphaned' = orphaned \cup {a \in Addresses : h \in Issuing(a)}
    /\ request' = Ended(request, h)
    /\ UNCHANGED <<rate, code, drawn, lastCode, shown, sent, accepted, verified>>

\* Somebody sends a code that was shown, from whatever phone.
SendMessage ==
    /\ \E p \in Phones : \E c \in shown : sent' = sent \cup {<<p, c>>}
    /\ UNCHANGED <<rate, code, drawn, lastCode, shown, accepted, orphaned, verified, request>>

\* verify_email_code and OctomoPhoneVerifier.verify: GET of the code.  c is what
\* was typed in; for a phone the code that is there.
Check(h, a, who, c) ==
    /\ c # 0 /\ c = code[a]
    /\ a \in Emails => c \in shown
    /\ Start(h, Received("check", a, who, c))
    /\ UNCHANGED <<rate, code, drawn, lastCode, shown, sent, accepted, orphaned, verified>>

\* Variant: the code is left to expire.
Accept_KeepsCode(h) ==
    LET r == request[h] IN
    /\ Active(h) /\ r.op = "check"
    /\ r.user \in Phones => <<r.user, r.code>> \in sent
    /\ accepted' = accepted \cup {r.code}
    /\ request' = IF r.user \in Phones THEN [request EXCEPT ![h].op = "verified"]
                  ELSE Ended(request, h)
    /\ UNCHANGED <<rate, code, drawn, lastCode, shown, sent, orphaned, verified>>

\* DELETE of the code, by its address, for a phone once Octomo confirms that it has
\* a message with this code from this number.  An e-mail's request ends with its token.
Accept(h) ==
    LET r == request[h] IN
    /\ Active(h) /\ r.op = "check"
    /\ r.user \in Phones => <<r.user, r.code>> \in sent
    /\ code' = [code EXCEPT ![r.user] = 0]
    /\ accepted' = accepted \cup {r.code}
    /\ request' = IF r.user \in Phones THEN [request EXCEPT ![h].op = "verified"]
                  ELSE Ended(request, h)
    /\ UNCHANGED <<rate, drawn, lastCode, shown, sent, orphaned, verified>>

\* Octomo fails, or has no such message.
Refuse(h) ==
    /\ Active(h) /\ request[h].op = "check" /\ request[h].user \in Phones
    /\ request' = Ended(request, h)
    /\ UNCHANGED <<rate, code, drawn, lastCode, shown, sent, accepted, orphaned, verified>>

\* The commit of verify_phone.
CommitPhone(h) ==
    /\ Active(h) /\ request[h].op = "verified"
    /\ verified' = [verified EXCEPT ![request[h].who] = request[h].user]
    /\ request' = Ended(request, h)
    /\ UNCHANGED <<rate, code, drawn, lastCode, shown, sent, accepted, orphaned>>

\* A minute is longer than the calls of one request, and a code outlives the
\* rate key set just before it.
ExpireRate ==
    /\ \E a \in rate : /\ Issuing(a) = {}
                        /\ rate' = rate \ {a} /\ orphaned' = orphaned \ {a}
    /\ UNCHANGED <<code, drawn, lastCode, shown, sent, accepted, verified, request>>

ExpireCode ==
    /\ \E a \in Addresses \ rate : code[a] # 0 /\ Issuing(a) = {}
                                    /\ code' = [code EXCEPT ![a] = 0]
    /\ UNCHANGED <<rate, drawn, lastCode, shown, sent, accepted, orphaned, verified, request>>

Next ==
    \/ \E h \in Handlers :
          \/ \E a \in Addresses :
                \/ Send(h, a)
                \/ \E who \in Users : Check(h, a, who, code[a])
          \/ StoreCode(h) \/ Show(h) \/ SendFails(h) \/ Die(h)
          \/ Accept(h) \/ Refuse(h) \/ CommitPhone(h)
    \/ SendMessage \/ ExpireRate \/ ExpireCode

Spec == Init /\ [][Next]_vars

-----------------------------------------------------------------------------
\* However many tabs ask at once, one code per address is on its way
\* (auth_service.py:130, user_service.py:110).
OneCodePerWindow == \A a \in Addresses : \A g, h \in Issuing(a) : g = h

\* A phone is locked only while a QR is being made, after its newest code was
\* shown, or because a worker died over it: a customer who is told to wait has
\* something to scan, however sending and verifying fail (user_service.py:114).
LockMeansShown ==
    \A p \in Phones \cap rate :
        Issuing(p) # {} \/ drawn[p] \in shown \/ p \in orphaned

\* The phone that a user has verified, or is about to, is one from which a message
\* with an accepted code came, whoever asked about which phone meanwhile
\* (octomo.py:53, user_service.py:134).
VerifiedWasProved ==
    /\ \A h \in Busy(request) : request[h].op = "verified" =>
           request[h].code \in accepted /\ <<request[h].user, request[h].code>> \in sent
    /\ \A u \in Users : verified[u] # "none" =>
           \E c \in accepted : <<verified[u], c>> \in sent

\* A code that was accepted is dead for every request that begins later
\* (auth_service.py:145); requests that had read it before can still use it.
AcceptedIsDead ==
    [][\A h \in Handlers :
          ~Active(h) /\ request'[h] # Idle /\ request'[h].op = "check" =>
              request'[h].code \notin accepted]_vars
=============================================================================
