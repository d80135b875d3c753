------------------------------ MODULE Accounts ------------------------------
(***************************************************************************)
(* Accounts (app/auth, app/user).  A request reads the row it is about,    *)
(* decides, and writes with its commit the columns it has changed; between *)
(* the two other requests and the background task of find-password go on.  *)
(* The database refuses a second row with the login id, the e-mail or the  *)
(* social account of another; such a request ends and changes nothing.     *)
(***************************************************************************)
EXTENDS Naturals, Requests

CONSTANTS
    Logins,      \* login ids that people choose
    Boxes,       \* mailboxes
    Socials,     \* social accounts: provider and id
    Passwords,   \* passwords that people choose
    Statuses,    \* "ACTIVE" and others an admin can set, which are all alike
    Phones,      \* phone numbers
    MaxId        \* bound: users ever inserted

VARIABLES
    users,       \* id -> row
    lastId,
    social,      \* social_accounts: social account -> user
    signUpTokens,     \* temp tokens: <<social account, e-mail>>
    withdrawalTokens, \* users that a withdrawal token names
    mailed,      \* users to whom a temporary password was mailed
    request

vars == <<users, lastId, social, signUpTokens, withdrawalTokens, mailed, request>>

\* An address as it is spelled: providers keep capitals.
Spellings == {"lower", "mixed"}
Emails == Boxes \X Spellings
Lower(e) == <<e[1], "lower">>

Gone == "withdrawn"                   \* withdrawn_<id>
Nowhere == <<"withdrawn", "lower">>   \* withdrawn_<id>@deleted
Generated == "generated"    \* social_<hex>
Random == "random"          \* a password nobody knows
Temp == "temporary"
NoPhone == "none"

Row(login, email, password, has) ==
    [login_id |-> login, email |-> email, password |-> password, has_password |-> has,
     must_change |-> FALSE, phone |-> NoPhone, status |-> "ACTIVE", is_active |-> TRUE]

Active(h) == h \in Busy(request)
Linked(u) == {s \in DOMAIN social : social[s] = u}

\* The owner knows the password of his account: he chose it, or has its mail.
Known(u) == \/ users[u].password \in Passwords
            \/ users[u].password = Temp /\ u \in mailed

\* get_current_user and get_active_user.
CurrentUser(u) == u \in DOMAIN users /\ users[u].is_active
ActiveUser(u) == CurrentUser(u) /\ ~users[u].must_change

Init ==
    /\ users = <<>> /\ lastId = 0 /\ social = <<>>
    /\ signUpTokens = {} /\ withdrawalTokens = {} /\ mailed = {}
    /\ request = [h \in Handlers |-> Idle]

\* was is the row as it was read, row as it will be; user 0 is a new one.
Received(op, u, was, row, s) ==
    [op |-> op, user |-> u, was |-> was, row |-> row, social |-> s, alone |-> TRUE]

Start(h, r) ==
    /\ ~Active(h)
    /\ request' = Begun(request, h, r)
    /\ UNCHANGED <<users, lastId, social, mailed>>

\* A request about user u, whose row will be new.
Edit(h, op, u, new) ==
    /\ Start(h, Received(op, u, users[u], new, ""))
    /\ UNCHANGED <<signUpTokens, withdrawalTokens>>

NobodyHas(field, x) == \A u \in DOMAIN users : users[u][field] # x

\* sign_up: the verified token holds the address in small letters.
SignUp(h, login, box, p) ==
    LET e == <<box, "lower">> IN
    /\ NobodyHas("login_id", login) /\ NobodyHas("email", e)
    /\ Start(h, Received("sign_up", 0, Idle, Row(login, e, p, TRUE), ""))
    /\ UNCHANGED <<signUpTokens, withdrawalTokens>>

\* social_login of a social account that is not linked: it is linked to the user
\* of the profile's e-mail, or a temp token is given out.
SocialLogin(h, s, e) ==
    LET match == {u \in DOMAIN users : users[u].email = Lower(e)} IN
    /\ s \notin DOMAIN social
    /\ \/ /\ match = {}
          /\ signUpTokens' = signUpTokens \cup {<<s, e>>}
          /\ UNCHANGED <<users, lastId, social, withdrawalTokens, mailed, request>>
       \/ \E u \in match :
             /\ users[u].is_active
             /\ Start(h, Received("link", u, users[u], users[u], s))
             /\ UNCHANGED <<signUpTokens, withdrawalTokens>>

\* social_sign_up: the e-mail is taken from the token as it is spelled.
SocialSignUp(h, s, e) ==
    /\ <<s, e>> \in signUpTokens
    /\ NobodyHas("email", e)
    /\ Start(h, Received("sign_up", 0, Idle, Row(Generated, e, Random, FALSE), s))
    /\ UNCHANGED <<signUpTokens, withdrawalTokens>>

\* reverify_social_for_withdrawal.
Reverify(u) ==
    /\ ActiveUser(u) /\ Linked(u) # {}
    /\ withdrawalTokens' = withdrawalTokens \cup {u}
    /\ UNCHANGED <<users, lastId, social, signUpTokens, mailed, request>>

\* Temp tokens and withdrawal tokens live for 15 and 10 minutes.
Expire ==
    /\ signUpTokens' \in SUBSET signUpTokens
    /\ withdrawalTokens' \in SUBSET withdrawalTokens
    /\ UNCHANGED <<users, lastId, social, mailed, request>>

Withdraw(h, u) ==
    /\ ActiveUser(u)
    /\ IF users[u].has_password THEN Known(u) ELSE u \in withdrawalTokens
    /\ Edit(h, "withdraw", u,
            [users[u] EXCEPT !.email = Nowhere, !.login_id = Gone, !.phone = NoPhone,
                !.password = "", !.is_active = FALSE, !.status = "WITHDRAWN"])

\* change_password, open to a user who must change his password.
ChangePassword(h, u, p) ==
    /\ CurrentUser(u) /\ Known(u)
    /\ Edit(h, "change", u, [users[u] EXCEPT !.password = p, !.must_change = FALSE])

\* update_profile; verify_phone does the same once Octomo has confirmed.
UpdatePhone(h, u, n) ==
    /\ ActiveUser(u)
    /\ Edit(h, "phone", u, [users[u] EXCEPT !.phone = n])

\* update_status of an admin: any user, any status.
UpdateStatus(h, u, s) ==
    Edit(h, "status", u, [users[u] EXCEPT !.status = s, !.is_active = (s = "ACTIVE")])

\* issue_temp_password: login id and e-mail match; only the task is queued.
IssueTempPassword(h, u) ==
    /\ users[u].email # Nowhere /\ users[u].email = Lower(users[u].email)
    /\ Edit(h, "mail", u, users[u])

\* Variant: the password is stored whether or not the mail went out.
MailTempPassword_IgnoresFailure(h) ==
    /\ Active(h) /\ request[h].op = "mail"
    /\ \/ mailed' = mailed \cup {request[h].user}
       \/ UNCHANGED mailed
    /\ request' = [request EXCEPT ![h].op = "mailed"]
    /\ UNCHANGED <<users, lastId, social, signUpTokens, withdrawalTokens>>

\* _bg_apply_temp_password: mail first; when that fails the task ends.
MailTempPassword(h) ==
    /\ Active(h) /\ request[h].op = "mail"
    /\ \/ /\ mailed' = mailed \cup {request[h].user}
          /\ request' = [request EXCEPT ![h].op = "mailed"]
       \/ /\ request' = Ended(request, h)
          /\ UNCHANGED mailed
    /\ UNCHANGED <<users, lastId, social, signUpTokens, withdrawalTokens>>

\* It then reads the user in a session of its own.
LoadTempPassword(h) ==
    LET now == users[request[h].user] IN
    /\ Active(h) /\ request[h].op = "mailed"
    /\ request' = [request EXCEPT ![h].op = "temp", ![h].was = now,
          ![h].row = [now EXCEPT !.password = Temp, !.must_change = TRUE,
                                 !.has_password = TRUE]]
    /\ UNCHANGED <<users, lastId, social, signUpTokens, withdrawalTokens, mailed>>

\* The unique constraints of users and social_accounts.
Refused(row, s) ==
    \/ ~NobodyHas("email", row.email)
    \/ row.login_id # Generated /\ ~NobodyHas("login_id", row.login_id)
    \/ s \in DOMAIN social

\* Variant: the commit of a sign-up replaces the user of the same e-mail.
CommitSignUp_NoConstraint(h) ==
    LET r == request[h]  id == lastId + 1 IN
    /\ Active(h) /\ r.op = "sign_up" /\ lastId < MaxId
    /\ lastId' = id
    /\ users' = [u \in DOMAIN users \cup {id} |-> IF u = id THEN r.row ELSE users[u]]
    /\ social' = IF r.social = "" THEN social
                 ELSE [s \in DOMAIN social \cup {r.social} |->
                          IF s = r.social THEN id ELSE social[s]]
    /\ request' = Ended(request, h)
    /\ UNCHANGED <<signUpTokens, withdrawalTokens, mailed>>

\* Both INSERTs and the commit; the id is taken also when they are refused.
CommitSignUp(h) ==
    LET r == request[h]  id == lastId + 1 IN
    /\ Active(h) /\ r.op = "sign_up" /\ lastId < MaxId
    /\ lastId' = id
    /\ IF Refused(r.row, r.social) THEN UNCHANGED <<users, social>> ELSE
       /\ users' = [u \in DOMAIN users \cup {id} |-> IF u = id THEN r.row ELSE users[u]]
       /\ social' = IF r.social = "" THEN social
                    ELSE [s \in DOMAIN social \cup {r.social} |->
                             IF s = r.social THEN id ELSE social[s]]
    /\ request' = Ended(request, h)
    /\ UNCHANGED <<signUpTokens, withdrawalTokens, mailed>>

\* Variant: the UPDATE names every column.
Written_WholeRow(now, r) == r.row

\* The UPDATE that SQLAlchemy emits names the columns that differ from what was
\* read.  A new hash always differs, also that of the same password.
Written(now, r) ==
    [f \in DOMAIN now |->
        IF r.row[f] # r.was[f] \/ (f = "password" /\ r.op \in {"change", "temp"})
        THEN r.row[f] ELSE now[f]]

\* Variant: the social accounts are left to the foreign key's cascade.
SocialAfter_Kept(r) ==
    IF r.op = "link" /\ r.social \notin DOMAIN social
    THEN [s \in DOMAIN social \cup {r.social} |->
             IF s = r.social THEN r.user ELSE social[s]]
    ELSE social

\* delete_social_accounts and add_social_account.
SocialAfter(r) ==
    CASE r.op = "withdraw" -> [s \in DOMAIN social \ Linked(r.user) |-> social[s]]
      [] r.op = "link" /\ r.social \notin DOMAIN social ->
             [s \in DOMAIN social \cup {r.social} |->
                 IF s = r.social THEN r.user ELSE social[s]]
      [] OTHER -> social

Commit(h) ==
    LET r == request[h] IN
    /\ Active(h) /\ r.op \in {"link", "withdraw", "change", "phone", "status", "temp"}
    /\ users' = [users EXCEPT ![r.user] = Written(@, r)]
    /\ social' = SocialAfter(r)
    /\ request' = Ended(request, h)
    /\ UNCHANGED <<lastId, signUpTokens, withdrawalTokens, mailed>>

\* The process dies: transactions and background tasks are lost.
Restart ==
    /\ Busy(request) # {}
    /\ request' = [h \in Handlers |-> Idle]
    /\ UNCHANGED <<users, lastId, social, signUpTokens, withdrawalTokens, mailed>>

\* What a visitor can do (auth_router.py) ...
Joining(h) ==
    \/ \E l \in Logins, b \in Boxes, p \in Passwords : SignUp(h, l, b, p)
    \/ \E s \in Socials, e \in Emails : SocialLogin(h, s, e) \/ SocialSignUp(h, s, e)

\* ... a member about his account (user_router.py) ...
Member(h, u) ==
    \/ Withdraw(h, u) \/ IssueTempPassword(h, u)
    \/ \E n \in Phones : UpdatePhone(h, u, n)
    \/ \E p \in Passwords : ChangePassword(h, u, p)

\* ... and an admin (admin_members_router.py).
Admin(h, u) == \E s \in Statuses : UpdateStatus(h, u, s)

Next ==
    \/ \E h \in Handlers :
          \/ Joining(h)
          \/ \E u \in DOMAIN users : Member(h, u) \/ Admin(h, u)
          \/ MailTempPassword(h) \/ LoadTempPassword(h)
          \/ CommitSignUp(h) \/ Commit(h)
    \/ \E u \in DOMAIN users : Reverify(u)
    \/ Expire \/ Restart

Spec == Init /\ [][Next]_vars

-----------------------------------------------------------------------------
Same(u, v, field) == users[u][field] = users[v][field]

\* Rows are well formed; no two users share a login id or an address as spelled,
\* and every social account belongs to a user.
TypeOK ==
    /\ DOMAIN users \subseteq 1..lastId
    /\ \A u \in DOMAIN users :
          /\ users[u].email \in Emails \cup {Nowhere}
          /\ users[u].password \in Passwords \cup {Random, Temp, ""}
          /\ users[u].status \in Statuses \cup {"WITHDRAWN"} /\ users[u].is_active \in BOOLEAN
    /\ \A u, v \in DOMAIN users : u # v =>
          /\ Same(u, v, "email") => users[u].email = Nowhere
          /\ Same(u, v, "login_id") => users[u].login_id \in {Gone, Generated}
    /\ \A s \in DOMAIN social : s \in Socials /\ social[s] \in DOMAIN users

\* Whatever mails are lost and whatever requests race, the owner of an account
\* can prove that it is his, as withdraw asks (user_service.py:73): with
\* has_password he knows the password, without it a social account is linked.
NobodyLockedOut ==
    \A u \in DOMAIN users : users[u].email # Nowhere =>
        IF users[u].has_password THEN Known(u) ELSE Linked(u) # {}

\* No request that was under way when its user withdrew, and nothing later, brings
\* his login id or e-mail back (user_service.py:86).
WithdrawalIsFinal ==
    [][\A u \in DOMAIN users : users[u].email = Nowhere =>
          users'[u].email = Nowhere /\ users'[u].login_id = Gone]_vars

\* A request that no other of its user overlaps leaves what it promises: a
\* withdrawal no personal data and no social account, a change the chosen
\* password and no forced change, a temporary password a forced change, and an
\* admin's decision status and is_active in step (user/models.py:92).
LoneRequestApplies ==
    [][\A h \in Handlers :
          LET r == request[h]  u == r.user  now == users'[u] IN
          Active(h) /\ request'[h] = Idle /\ r.alone /\ users' # users =>
              /\ r.op = "withdraw" =>
                     /\ now.phone = NoPhone /\ ~now.is_active /\ now.email = Nowhere
                     /\ \A s \in DOMAIN social' : social'[s] # u
              /\ r.op = "change" => now.password \in Passwords /\ ~now.must_change
              /\ r.op = "temp" => now.must_change /\ now.has_password
              /\ r.op = "status" => now.is_active = (now.status = "ACTIVE")]_vars

\* A temporary password in force always forces a change (auth_service.py:578).
ForcedChange ==
    \A u \in DOMAIN users :
        users[u].password = Temp /\ users[u].is_active => users[u].must_change

\* One mailbox has one account (user/models.py:64).
OneAccountPerMailbox ==
    \A u, v \in DOMAIN users :
        u # v /\ users[u].email # Nowhere /\ users[v].email # Nowhere =>
            Lower(users[u].email) # Lower(users[v].email)
=============================================================================
