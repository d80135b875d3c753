------------------------------ MODULE HelpDesk ------------------------------
(***************************************************************************)
(* Inquiries (app/help): a customer submits one, admins answer it or set   *)
(* its status.  Mails go out inside the transaction, before the commit, and*)
(* an error of the mail server rolls everything back but the mails already *)
(* sent.  The commit writes the columns whose value differs from what the  *)
(* request has read, so that two admins may each write a part of a row.    *)
(***************************************************************************)
EXTENDS Naturals, Requests

CONSTANTS
    Contacts,   \* inquiries that can be submitted
    Answers,    \* texts an admin can answer with
    AdminEmail  \* does effective_admin_email give an address to notify

ASSUME AdminEmailAssumption == AdminEmail \in BOOLEAN

VARIABLES
    contact,    \* the stored inquiries, "none" while not stored
    mails,      \* history: the mails that left, [kind, to, text]
    request

vars == <<contact, mails, request>>

Active(h) == h \in Busy(request)

Nobody == "none"     \* no answer stored
Missing == [status |-> "none", answered_at |-> FALSE, answer |-> Nobody]
New     == [status |-> "PENDING", answered_at |-> FALSE, answer |-> Nobody]
Stored(c) == contact[c] # Missing

Mail(kind, c, text) == [kind |-> kind, to |-> c, text |-> text]

Init ==
    /\ contact = [c \in Contacts |-> Missing]
    /\ mails = {}
    /\ request = [h \in Handlers |-> Idle]

\* user: requests about the same inquiry overlap.
Received(op, c, row, due) ==
    [op |-> op, user |-> c, read |-> contact[c], row |-> row, due |-> due, alone |-> TRUE]

Start(h, r) ==
    /\ ~Active(h)
    /\ request' = Begun(request, h, r)
    /\ UNCHANGED <<contact, mails>>

\* What is mailed about a new inquiry: the receipt, and the notice if the shop
\* has configured where to.
Announcement(c) ==
    {Mail("receipt", c, Nobody)} \cup {m \in {Mail("notice", c, Nobody)} : AdminEmail}

\* submit_contact: the inquiry is inserted and is to be announced.
Submit(h, c) ==
    /\ ~Stored(c) /\ \A g \in Busy(request) : request[g].user # c
    /\ Start(h, Received("submit", c, New, Announcement(c)))

\* Variant: answered_at is set, and never cleared.
Applied_KeepsTime(row, status) ==
    [row EXCEPT !.status = status, !.answered_at = @ \/ status = "ANSWERED"]

\* _apply_status
Applied(row, status) ==
    [row EXCEPT !.status = status, !.answered_at = (status = "ANSWERED")]

\* Variant: the answer is stored without waiting for the mail.
AnswerContact_NoMail(h, c) ==
    /\ Stored(c)
    /\ \E a \in Answers :
           Start(h, Received("answer", c, Applied([contact[c] EXCEPT !.answer = a], "ANSWERED"), {}))

AnswerContact(h, c) ==
    /\ Stored(c)
    /\ \E a \in Answers :
           Start(h, Received("answer", c, Applied([contact[c] EXCEPT !.answer = a], "ANSWERED"),
                             {Mail("answer", c, a)}))

UpdateContactStatus(h, c) ==
    /\ Stored(c)
    /\ \E s \in {"PENDING", "ANSWERED"} :
           Start(h, Received("status", c, Applied(contact[c], s), {}))

\* The mail server takes one mail; the others wait (asyncio.gather).
Send(h) ==
    /\ Active(h)
    /\ \E m \in request[h].due :
           /\ mails' = mails \cup {m}
           /\ request' = [request EXCEPT ![h].due = @ \ {m}]
    /\ UNCHANGED contact

\* An error of the mail server, or a crash: the transaction is rolled back.
Fail(h) ==
    /\ Active(h)
    /\ request' = Ended(request, h)
    /\ UNCHANGED <<contact, mails>>

\* The UPDATE of the unit of work.  A new answered_at always differs from the old.
Merged(c, r) ==
    [status      |-> IF r.row.status # r.read.status THEN r.row.status ELSE contact[c].status,
     answered_at |-> IF r.row.answered_at \/ r.read.answered_at THEN r.row.answered_at
                     ELSE contact[c].answered_at,
     answer      |-> IF r.row.answer # r.read.answer THEN r.row.answer ELSE contact[c].answer]

Commit(h) ==
    LET r == request[h] IN
    /\ Active(h) /\ r.due = {}
    /\ contact' = [contact EXCEPT ![r.user] = Merged(r.user, r)]
    /\ request' = Ended(request, h)
    /\ UNCHANGED mails

Next ==
    \E h \in Handlers :
        \/ \E c \in Contacts : Submit(h, c) \/ AnswerContact(h, c) \/ UpdateContactStatus(h, c)
        \/ Send(h) \/ Fail(h) \/ Commit(h)

Spec == Init /\ [][Next]_vars

-----------------------------------------------------------------------------
\* What the database holds was mailed: the receipt of every inquiry, the notice
\* of it where one is sent, and every answer (service.py:119 and 255 wait for the
\* mails).  The converse does not hold: a mail may announce what is rolled back.
StoredWasMailed ==
    \A c \in Contacts : Stored(c) =>
        /\ Announcement(c) \subseteq mails
        /\ contact[c].answer # Nobody => Mail("answer", c, contact[c].answer) \in mails

\* A request about an inquiry that no other overlaps leaves status and time in
\* step, whatever state earlier races left.
LoneRequestMends ==
    [][\A h \in Handlers :
          LET c == request[h].user IN
          Active(h) /\ request'[h] = Idle /\ request[h].alone /\ contact' # contact =>
              contact'[c].answered_at = (contact'[c].status = "ANSWERED")]_vars

\* An inquiry has the time of its answer exactly when its status is ANSWERED:
\* the two always change together (help/service.py:233).
StatusFollowsAnswer ==
    \A c \in Contacts : contact[c].answered_at = (contact[c].status = "ANSWERED")
=============================================================================
