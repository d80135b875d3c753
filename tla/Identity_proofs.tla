-------------------------- MODULE Identity_proofs --------------------------
(***************************************************************************)
(* Accounts, codes and sessions, proved for any number of users, addresses,*)
(* codes, days and requests at once.                                       *)
(***************************************************************************)
EXTENDS Identity, Lemmas

\* A handler that was idle starts on a request.
LEMMA ItBegins ==
  ASSUME NEW h \in Handlers, NEW q, h \notin Busy(q), NEW r, NEW after, after = Begun(q, h, r)
  PROVE  Begins(Handlers, Idle, q, h, r, after)
<1>1. Idle = Rq(Handlers)!Idle /\ q[h] = Idle
  BY DEF Idle, Rq!Idle, Busy
<1>2. Begun(q, h, r) = Rq(Handlers)!Begun(q, h, r)
  BY DEF Begun, Busy, Idle, Rq!Begun, Rq!Busy, Rq!Idle
<1>. QED
  BY <1>1, <1>2 DEF Begins

(***************************************************************************)
(* Accounts.                                                               *)
(***************************************************************************)
Columns == {"login_id", "email", "password", "has_password", "must_change",
            "phone", "status", "is_active"}

IsRow(row) == DOMAIN row = Columns

\* The columns that a withdrawal anonymises.
Anonymous(row) == row.email = Nowhere /\ row.login_id = Gone

Entries == {"op", "user", "was", "row", "social", "alone"}

-----------------------------------------------------------------------------
\* A sign-up inserts a row that is not anonymous.
SignsUp(r) == r.op = "sign_up" /\ IsRow(r.row) /\ r.row.email # Nowhere

\* What any other request will write cannot bring e-mail or login id back: it
\* leaves both as it read them or makes both anonymous, and who was anonymous when
\* it read the row still is.
Harmless(r, rows) ==
    /\ r.op # "sign_up"
    /\ r.user \in DOMAIN rows
    /\ IsRow(r.was) /\ IsRow(r.row)
    /\ \/ r.row.email = r.was.email /\ r.row.login_id = r.was.login_id
       \/ Anonymous(r.row)
    /\ r.was.email = Nowhere => rows[r.user].email = Nowhere
    /\ r.was.login_id = Gone => rows[r.user].login_id = Gone

Fine(r, rows) == DOMAIN r = Entries /\ (SignsUp(r) \/ Harmless(r, rows))

\* The inductive invariant.
AInv ==
    /\ lastId \in Nat /\ DOMAIN users \subseteq 1..lastId
    /\ \A u \in DOMAIN users : IsRow(users[u])
    /\ \A u \in DOMAIN users : users[u].email = Nowhere => users[u].login_id = Gone
    /\ signUpTokens \subseteq Socials \X Emails
    /\ DOMAIN request = Handlers
    /\ \A h \in Handlers : request[h] = Idle \/ Fine(request[h], users)

\* The part of it that a step can disturb when it leaves lastId, users and the
\* tokens alone.
Requested == DOMAIN request = Handlers /\ \A h \in Handlers : request[h] = Idle \/ Fine(request[h], users)

-----------------------------------------------------------------------------
\* Whether requests overlap is no part of what they will do.
LEMMA AloneIsNoMatter ==
  ASSUME NEW r, Fine(r, users), NEW b
  PROVE  Fine([r EXCEPT !.alone = b], users)
<1>. DEFINE s == [r EXCEPT !.alone = b]
<1>1. /\ DOMAIN s = Entries /\ s.op = r.op /\ s.user = r.user
      /\ s.was = r.was /\ s.row = r.row
  BY DEF Fine, Entries
<1>. HIDE DEF s
<1>2. Fine(s, users)
  BY <1>1 DEF Fine, SignsUp, Harmless
<1>. QED
  BY <1>2 DEF s

\* Starting a request that is fine leaves all of them fine.
LEMMA Starting ==
  ASSUME Requested, NEW h \in Handlers, ~Active(h),
         NEW r, Fine(r, users), request' = Begun(request, h, r)
  PROVE  DOMAIN request' = Handlers
         /\ \A g \in Handlers : request'[g] = Idle \/ Fine(request'[g], users)
<1>. DEFINE others == {g \in Busy(request) : request[g].user = r.user}
            mine == [r EXCEPT !.alone = (others = {})]
            met(g) == [request[g] EXCEPT !.alone = FALSE]
<1>0. request' = [g \in Handlers |-> CASE g = h -> mine
                                     [] g \in others -> met(g)
                                     [] OTHER -> request[g]]
  BY DEF Begun
<1>2. h \notin others /\ \A g \in others : Fine(request[g], users)
  BY DEF Requested, Busy, Active
<1>. HIDE DEF others, mine, met
<1>1. /\ DOMAIN request' = Handlers
      /\ request'[h] = mine
      /\ \A g \in Handlers \ {h} :
            /\ g \in others => request'[g] = met(g)
            /\ g \notin others => request'[g] = request[g]
  BY <1>0, <1>2
<1>4. Fine(mine, users) /\ \A g \in others : Fine(met(g), users)
  BY <1>2, AloneIsNoMatter DEF mine, met
<1>3. ASSUME NEW g \in Handlers PROVE request'[g] = Idle \/ Fine(request'[g], users)
  BY <1>1, <1>4 DEF Requested
<1>. QED
  BY <1>1, <1>3

\* A request that starts and is fine: the invariant stays.
LEMMA StartStep ==
  ASSUME AInv, NEW h \in Handlers, NEW r, Fine(r, users), Start(h, r),
         signUpTokens' \subseteq Socials \X Emails
  PROVE  AInv'
<1>1. Requested /\ ~Active(h) /\ request' = Begun(request, h, r)
      /\ UNCHANGED <<users, lastId>>
  BY DEF AInv, Requested, Start
<1>2. DOMAIN request' = Handlers /\ \A g \in Handlers : request'[g] = Idle \/ Fine(request'[g], users)
  BY <1>1, Starting
<1>. QED
  BY <1>1, <1>2 DEF AInv, Fine, SignsUp, Harmless

\* A request about user u which leaves e-mail and login id, or drops both.
LEMMA EditStep ==
  ASSUME AInv, NEW h \in Handlers, NEW u \in DOMAIN users, NEW op, op # "sign_up",
         NEW new, IsRow(new), NEW s,
         \/ new.email = users[u].email /\ new.login_id = users[u].login_id
         \/ Anonymous(new),
         Start(h, Received(op, u, users[u], new, s)), UNCHANGED signUpTokens
  PROVE  AInv'
<1>. DEFINE r == Received(op, u, users[u], new, s)
<1>1. /\ DOMAIN r = Entries /\ r.op = op /\ r.user = u /\ r.was = users[u] /\ r.row = new
  BY DEF Received, Entries
<1>. HIDE DEF r
<1>2. Fine(r, users)
  BY <1>1 DEF AInv, Fine, Harmless
<1>3. Start(h, r) /\ signUpTokens' \subseteq Socials \X Emails
  BY DEF r, AInv
<1>. QED
  BY <1>2, <1>3, StartStep

\* A sign-up, with a login id and a password of one's own or with neither.
LEMMA JoinStep ==
  ASSUME AInv, NEW h \in Handlers, NEW row, IsRow(row), row.email # Nowhere, NEW s,
         Start(h, Received("sign_up", 0, Idle, row, s)), UNCHANGED signUpTokens
  PROVE  AInv'
<1>. DEFINE r == Received("sign_up", 0, Idle, row, s)
<1>1. DOMAIN r = Entries /\ r.op = "sign_up" /\ r.row = row
  BY DEF Received, Entries
<1>. HIDE DEF r
<1>2. Fine(r, users)
  BY <1>1 DEF Fine, SignsUp
<1>3. Start(h, r) /\ signUpTokens' \subseteq Socials \X Emails
  BY DEF r, AInv
<1>. QED
  BY <1>2, <1>3, StartStep

-----------------------------------------------------------------------------
\* What visitors, members and admins ask for.
LEMMA JoiningStep ==
  ASSUME AInv, NEW h \in Handlers, Joining(h)
  PROVE  AInv' /\ UNCHANGED users
<1>0. "withdrawn" \notin Boxes
  BY IdentityAssumption
<1>1. \A e \in Emails : e # Nowhere
  BY <1>0 DEF Emails, Nowhere
<1>2. ASSUME NEW login, NEW e \in Emails, NEW p, NEW has
      PROVE  IsRow(Row(login, e, p, has)) /\ Row(login, e, p, has).email # Nowhere
  BY <1>1 DEF Row, IsRow, Columns
<1>3. ASSUME NEW l \in Logins, NEW b \in Boxes, NEW p \in Passwords, SignUp(h, l, b, p)
      PROVE  AInv' /\ UNCHANGED users
  <2>1. <<b, "lower">> \in Emails
    BY DEF Emails, Spellings
  <2>. QED
    BY <1>2, <1>3, <2>1, JoinStep DEF SignUp, Start
<1>4. ASSUME NEW s \in Socials, NEW e \in Emails, SocialSignUp(h, s, e)
      PROVE  AInv' /\ UNCHANGED users
  BY <1>2, <1>4, JoinStep DEF SocialSignUp, Start
<1>5. ASSUME NEW s \in Socials, NEW e \in Emails, SocialLogin(h, s, e)
      PROVE  AInv' /\ UNCHANGED users
  <2>1. CASE signUpTokens' = signUpTokens \cup {<<s, e>>} /\ UNCHANGED <<users, lastId, request>>
    BY <2>1 DEF AInv, Fine, SignsUp, Harmless
  <2>2. ASSUME NEW u \in DOMAIN users, UNCHANGED signUpTokens,
               Start(h, Received("link", u, users[u], users[u], s))
        PROVE  AInv' /\ UNCHANGED users
    <3>1. IsRow(users[u])
      BY DEF AInv
    <3>. QED
      BY <2>2, <3>1, EditStep DEF Start
  <2>. QED
    BY <1>5, <2>1, <2>2 DEF SocialLogin
<1>. QED
  BY <1>3, <1>4, <1>5 DEF Joining

LEMMA MemberStep ==
  ASSUME AInv, NEW h \in Handlers, NEW u \in DOMAIN users, Member(h, u) \/ Admin(h, u)
  PROVE  AInv' /\ UNCHANGED users
<1>1. IsRow(users[u])
  BY DEF AInv
<1>2. ASSUME NEW op, op # "sign_up", NEW new, IsRow(new), Edit(h, op, u, new),
             \/ new.email = users[u].email /\ new.login_id = users[u].login_id
             \/ Anonymous(new)
      PROVE  AInv' /\ UNCHANGED users
  BY <1>2, EditStep DEF Edit, Start
<1>3. CASE Withdraw(h, u)
  <2>. DEFINE new == [users[u] EXCEPT !.email = Nowhere, !.login_id = Gone, !.phone = NoPhone,
                !.password = "", !.is_active = FALSE, !.status = "WITHDRAWN"]
  <2>1. IsRow(new) /\ Anonymous(new)
    BY <1>1 DEF IsRow, Columns, Anonymous
  <2>. QED
    BY <1>2, <1>3, <2>1 DEF Withdraw
<1>4. CASE IssueTempPassword(h, u)
  BY <1>1, <1>2, <1>4 DEF IssueTempPassword
<1>5. ASSUME NEW n \in Phones, UpdatePhone(h, u, n) PROVE AInv' /\ UNCHANGED users
  <2>. DEFINE new == [users[u] EXCEPT !.phone = n]
  <2>1. IsRow(new) /\ new.email = users[u].email /\ new.login_id = users[u].login_id
    BY <1>1 DEF IsRow, Columns
  <2>. QED
    BY <1>2, <1>5, <2>1 DEF UpdatePhone
<1>6. ASSUME NEW p \in Passwords, ChangePassword(h, u, p) PROVE AInv' /\ UNCHANGED users
  <2>. DEFINE new == [users[u] EXCEPT !.password = p, !.must_change = FALSE]
  <2>1. IsRow(new) /\ new.email = users[u].email /\ new.login_id = users[u].login_id
    BY <1>1 DEF IsRow, Columns
  <2>. QED
    BY <1>2, <1>6, <2>1 DEF ChangePassword
<1>7. ASSUME NEW s \in Statuses, UpdateStatus(h, u, s) PROVE AInv' /\ UNCHANGED users
  <2>. DEFINE new == [users[u] EXCEPT !.status = s, !.is_active = (s = "ACTIVE")]
  <2>1. IsRow(new) /\ new.email = users[u].email /\ new.login_id = users[u].login_id
    BY <1>1 DEF IsRow, Columns
  <2>. QED
    BY <1>2, <1>7, <2>1 DEF UpdateStatus
<1>. QED
  BY <1>3, <1>4, <1>5, <1>6, <1>7 DEF Member, Admin

-----------------------------------------------------------------------------
\* The invariant survives when a request ends and users stay as they are.
LEMMA EndStep ==
  ASSUME AInv, NEW h \in Handlers, request' = Ended(request, h),
         UNCHANGED <<users, lastId, signUpTokens>>
  PROVE  AInv'
  BY DEF AInv, Ended, Fine, SignsUp, Harmless

\* The background task of find-password works on like a request: it reads the row
\* anew and changes neither e-mail nor login id.
LEMMA TaskStep ==
  ASSUME AInv, NEW h \in Handlers, MailTempPassword(h) \/ LoadTempPassword(h)
  PROVE  AInv' /\ UNCHANGED users
<1>. DEFINE r == request[h]
<1>1. UNCHANGED <<users, lastId, signUpTokens>>
  BY DEF MailTempPassword, LoadTempPassword
<1>2. DOMAIN request = Handlers /\ Fine(r, users) /\ r.op \in {"mail", "mailed"}
  BY DEF AInv, Active, Busy, MailTempPassword, LoadTempPassword
<1>3. Harmless(r, users) /\ DOMAIN r = Entries
  BY <1>2 DEF Fine, SignsUp
<1>4. ASSUME NEW s, request' = [request EXCEPT ![h] = s], Fine(s, users) PROVE AInv'
  BY <1>1, <1>4 DEF AInv, Fine, SignsUp, Harmless
<1>5. CASE request' = Ended(request, h)
  BY <1>1, <1>5, EndStep
<1>6. CASE request' = [request EXCEPT ![h].op = "mailed"]
  <2>. DEFINE s == [r EXCEPT !.op = "mailed"]
  <2>1. /\ DOMAIN s = Entries /\ s.op = "mailed" /\ s.user = r.user
        /\ s.was = r.was /\ s.row = r.row
    BY <1>3 DEF Entries
  <2>2. request' = [request EXCEPT ![h] = s]
    BY <1>6
  <2>. HIDE DEF s, r
  <2>3. Fine(s, users)
    BY <1>3, <2>1 DEF Fine, Harmless
  <2>. QED
    BY <1>1, <1>4, <2>2, <2>3
<1>7. CASE LoadTempPassword(h)
  <2>. DEFINE now == users[r.user]
              new == [now EXCEPT !.password = Temp, !.must_change = TRUE, !.has_password = TRUE]
              s == [r EXCEPT !.op = "temp", !.was = now, !.row = new]
  <2>1. IsRow(now) /\ r.user \in DOMAIN users
    BY <1>3 DEF AInv, Harmless
  <2>2. IsRow(new) /\ new.email = now.email /\ new.login_id = now.login_id
    BY <2>1 DEF IsRow, Columns
  <2>3. /\ DOMAIN s = Entries /\ s.op = "temp" /\ s.user = r.user
        /\ s.was = now /\ s.row = new
    BY <1>3 DEF Entries
  <2>4. request' = [request EXCEPT ![h] = s]
    BY <1>7 DEF LoadTempPassword
  <2>5. Fine(s, users)
    <3>. HIDE DEF s, new
    <3>. QED
      BY <2>1, <2>2, <2>3 DEF Fine, Harmless
  <2>. HIDE DEF s
  <2>. QED
    BY <1>1, <1>4, <2>4, <2>5
<1>. QED
  BY <1>1, <1>5, <1>6, <1>7 DEF MailTempPassword

-----------------------------------------------------------------------------
\* What a step does to the rows there are: e-mail and login id stay, or both go.
Progress ==
    /\ DOMAIN users \subseteq DOMAIN users'
    /\ \A u \in DOMAIN users :
          \/ users'[u].email = users[u].email /\ users'[u].login_id = users[u].login_id
          \/ Anonymous(users'[u])

\* Requests that go on are fine after such a step, too.
LEMMA FineStays ==
  ASSUME Progress, NEW r, Fine(r, users)
  PROVE  Fine(r, users')
  BY DEF Progress, Fine, SignsUp, Harmless, Anonymous

\* The UPDATE at the end of a request.
LEMMA CommitStep ==
  ASSUME AInv, NEW h \in Handlers, Commit(h)
  PROVE  AInv' /\ Progress
<1>. DEFINE r == request[h]
            now == users[r.user]
            new == Written(now, r)
<1>1. /\ DOMAIN request = Handlers /\ Harmless(r, users) /\ DOMAIN r = Entries
      /\ r.op \in {"link", "withdraw", "change", "phone", "status", "temp"}
  BY DEF AInv, Commit, Active, Busy, Fine, SignsUp
<1>2. /\ users' = [users EXCEPT ![r.user] = new] /\ request' = Ended(request, h)
      /\ UNCHANGED <<lastId, signUpTokens>>
  BY DEF Commit
<1>3. IsRow(now)
  BY <1>1 DEF AInv, Harmless
<1>4. /\ IsRow(new)
      /\ new.email = IF r.row.email # r.was.email THEN r.row.email ELSE now.email
      /\ new.login_id = IF r.row.login_id # r.was.login_id THEN r.row.login_id ELSE now.login_id
  BY <1>3 DEF Written, IsRow, Columns
<1>. HIDE DEF r, now, new
<1>5. \/ new.email = now.email /\ new.login_id = now.login_id
      \/ Anonymous(new)
  BY <1>1, <1>4 DEF Harmless, Anonymous, now
<1>6. r.user \in DOMAIN users
  BY <1>1 DEF Harmless
<1>7. /\ DOMAIN users' = DOMAIN users /\ users'[r.user] = new
      /\ \A u \in DOMAIN users \ {r.user} : users'[u] = users[u]
  BY <1>2, <1>6
<1>8. Progress
  BY <1>5, <1>7 DEF Progress, now
<1>9. \A g \in Handlers : request'[g] = Idle \/ Fine(request'[g], users')
  BY <1>1, <1>2, <1>8, FineStays DEF AInv, Ended
<1>. QED
  BY <1>1, <1>2, <1>4, <1>5, <1>6, <1>7, <1>8, <1>9 DEF AInv, Ended, Anonymous, now

\* The INSERT of a sign-up.
LEMMA SignUpStep ==
  ASSUME AInv, NEW h \in Handlers, CommitSignUp(h)
  PROVE  AInv' /\ Progress
<1>. DEFINE r == request[h]
            id == lastId + 1
<1>1. /\ DOMAIN request = Handlers /\ SignsUp(r)
      /\ lastId' = id /\ request' = Ended(request, h) /\ UNCHANGED signUpTokens
  BY DEF AInv, CommitSignUp, Active, Busy, Fine, Harmless
<1>2. id \notin DOMAIN users /\ lastId \in Nat /\ DOMAIN users \subseteq 1..lastId
  BY DEF AInv
<1>3. \/ users' = users
      \/ users' = [u \in DOMAIN users \cup {id} |-> IF u = id THEN r.row ELSE users[u]]
  BY DEF CommitSignUp
<1>. HIDE DEF r, id
<1>4. /\ DOMAIN users \subseteq DOMAIN users' /\ DOMAIN users' \subseteq DOMAIN users \cup {id}
      /\ \A u \in DOMAIN users : users'[u] = users[u]
      /\ \A u \in DOMAIN users' \ DOMAIN users : users'[u] = r.row
  BY <1>2, <1>3
<1>5. Progress
  BY <1>4 DEF Progress
<1>6. \A g \in Handlers : request'[g] = Idle \/ Fine(request'[g], users')
  BY <1>1, <1>5, FineStays DEF AInv, Ended
<1>7. \A u \in DOMAIN users' :
          IsRow(users'[u]) /\ (users'[u].email = Nowhere => users'[u].login_id = Gone)
  BY <1>1, <1>4 DEF AInv, SignsUp
<1>8. lastId' \in Nat /\ DOMAIN users' \subseteq 1..lastId'
  BY <1>1, <1>2, <1>4 DEF id
<1>. QED
  BY <1>1, <1>5, <1>6, <1>7, <1>8 DEF AInv, Ended

\* Every step keeps the invariant and only ever makes a row anonymous.
LEMMA EveryStep == AInv /\ [Next]_vars => AInv' /\ Progress
<1>. SUFFICES ASSUME AInv, [Next]_vars PROVE AInv' /\ Progress
  OBVIOUS
<1>0. UNCHANGED users => Progress
  BY DEF Progress
<1>1. ASSUME NEW u \in DOMAIN users, Reverify(u) PROVE AInv' /\ UNCHANGED users
  BY <1>1 DEF Reverify, AInv, Fine, SignsUp, Harmless
<1>2. CASE Expire
  BY <1>2, <1>0 DEF Expire, AInv, Fine, SignsUp, Harmless
<1>3. CASE Restart
  BY <1>3, <1>0 DEF Restart, AInv, Fine, SignsUp, Harmless
<1>4. CASE UNCHANGED vars
  BY <1>4, <1>0 DEF vars, AInv, Fine, SignsUp, Harmless
<1>. QED
  BY <1>0, <1>1, <1>2, <1>3, <1>4, JoiningStep, MemberStep, TaskStep, SignUpStep, CommitStep
  DEF Next

-----------------------------------------------------------------------------
\* Codes and sessions are no business of the accounts.
LEMMA OnlyAccounts == IdentitySpec => Spec
<1>1. IdentityInit => Init
  BY DEF IdentityInit
<1>2. [IdentityNext]_identityVars => [Next]_vars
  BY DEF IdentityNext, AccountStep, CodeStep, SessionStep, identityVars, People
<1>. QED
  BY <1>1, <1>2, PTL DEF IdentitySpec, Spec

\* A user who withdrew stays withdrawn: no request that was under way when he did,
\* and nothing later, brings his login id or e-mail back (user_service.py:87).
THEOREM WithdrawnForGood == IdentitySpec => WithdrawalIsFinal
<1>. DEFINE Final == \A u \in DOMAIN users : users[u].email = Nowhere =>
                        users'[u].email = Nowhere /\ users'[u].login_id = Gone
<1>1. Init => AInv
  BY DEF Init, AInv
<1>2. AInv /\ Progress => Final
  BY DEF AInv, Progress, Anonymous
<1>3. AInv /\ [Next]_vars => AInv' /\ [Final]_vars
  BY <1>2, EveryStep
<1>4. WithdrawalIsFinal <=> [][Final]_vars
  BY DEF WithdrawalIsFinal
<1>. HIDE DEF Final
<1>. QED
  BY <1>1, <1>3, <1>4, OnlyAccounts, PTL DEF Spec

-----------------------------------------------------------------------------
\* The rows of the accounts, and what requests will write of them.
WellFormed(row) ==
    /\ IsRow(row)
    /\ row.email \in Emails \cup {Nowhere}
    /\ row.password \in Passwords \cup {Random, Temp, ""}
    /\ row.status \in Statuses \cup {"WITHDRAWN"}
    /\ row.is_active \in BOOLEAN /\ row.has_password \in BOOLEAN

\* A sign-up leaves its user with a password he chose or with a social account.
Joins(r) ==
    /\ r.op = "sign_up" /\ WellFormed(r.row)
    /\ r.social \in Socials \cup {""}
    /\ IF r.row.has_password THEN r.row.password \in Passwords ELSE r.social # ""

\* What any other request promises of the row it will write.
Promised(r) ==
    /\ r.op \in {"link", "withdraw", "change", "phone", "status", "mail", "mailed", "temp"}
    /\ r.op \notin {"withdraw", "change", "temp"} => r.row.password = r.was.password
    /\ r.op # "temp" => (r.row.has_password <=> r.was.has_password)
    /\ r.op = "withdraw" => /\ r.row.email = Nowhere /\ r.row.phone = NoPhone
                            /\ ~r.row.is_active
    /\ r.op = "change" => r.row.password \in Passwords /\ ~r.row.must_change
    /\ r.op = "status" => (r.row.is_active <=> r.row.status = "ACTIVE")
    /\ r.op = "temp" => r.row.password = Temp /\ r.row.must_change /\ r.row.has_password
    /\ r.op = "link" => r.social \in Socials

\* It has read a row that may be old, but not if no other request overlaps it.
Changes(r, rows, sentTo) ==
    /\ r.op # "sign_up" /\ r.user \in DOMAIN rows
    /\ WellFormed(r.was) /\ WellFormed(r.row)
    /\ Promised(r)
    /\ r.op \in {"mailed", "temp"} => r.user \in sentTo
    /\ r.was.has_password => rows[r.user].has_password
    /\ r.alone => r.was = rows[r.user]

Sound(r, rows, sentTo) == DOMAIN r = Entries /\ (Joins(r) \/ Changes(r, rows, sentTo))

Distinct ==
    \A u, v \in DOMAIN users : u # v =>
        /\ Same(u, v, "email") => users[u].email = Nowhere
        /\ Same(u, v, "login_id") => users[u].login_id \in {Gone, Generated}

SocialsOwned == \A s \in DOMAIN social : s \in Socials /\ social[s] \in DOMAIN users

\* Together with AInv: the inductive invariant.
SInv ==
    /\ \A u \in DOMAIN users : WellFormed(users[u])
    /\ Distinct
    /\ SocialsOwned
    /\ NobodyLockedOut
    /\ \A h \in Handlers : request[h] # Idle => Sound(request[h], users, mailed)
    /\ Apart(Handlers, Idle, request)

-----------------------------------------------------------------------------
\* A request that is no longer alone is as sound as before.
LEMMA SoundMarked ==
  ASSUME NEW r, NEW rows, NEW sentTo, Sound(r, rows, sentTo), NEW b, b => r.alone
  PROVE  Sound([r EXCEPT !.alone = b], rows, sentTo)
<1>. DEFINE t == [r EXCEPT !.alone = b]
<1>1. /\ DOMAIN t = Entries /\ t.op = r.op /\ t.user = r.user /\ t.was = r.was
      /\ t.row = r.row /\ t.social = r.social /\ (t.alone => r.alone)
  BY DEF Sound, Entries
<1>. HIDE DEF t
<1>2. Sound(t, rows, sentTo)
  BY <1>1 DEF Sound, Joins, Changes, Promised
<1>. QED
  BY <1>2 DEF t

\* What other requests write leaves a request sound, which does not overlap if it is
\* alone: has_password is never taken back.
LEMMA SoundMeanwhile ==
  ASSUME NEW r, NEW rows, NEW sentTo, Sound(r, rows, sentTo),
         NEW after, NEW sentToo, sentTo \subseteq sentToo, DOMAIN rows \subseteq DOMAIN after,
         r.user \in DOMAIN rows /\ r.op # "sign_up" =>
            /\ rows[r.user].has_password => after[r.user].has_password
            /\ r.alone => after[r.user] = rows[r.user]
  PROVE  Sound(r, after, sentToo)
BY DEF Sound, Joins, Changes

\* A request that starts, sound, leaves all of them sound.
LEMMA SoundStart ==
  ASSUME AInv, SInv, NEW h \in Handlers, NEW r, Sound(r, users, mailed), r.alone, Start(h, r)
  PROVE  SInv'
<1>. DEFINE q == request
            after == request'
<1>1. h \notin Busy(q) /\ after = Begun(q, h, r) /\ UNCHANGED <<users, social, mailed>>
  BY DEF Start, Active
<1>2. /\ Apart(Handlers, Idle, q) /\ DOMAIN q = Handlers
      /\ \A g \in Handlers : q[g] # Idle => Sound(q[g], users, mailed)
  BY DEF SInv, AInv
<1>3. Marked(Handlers, Idle, q) /\ {"user", "alone"} \subseteq DOMAIN r
  BY <1>2 DEF Marked, Sound, Entries
<1>. HIDE DEF q, after
<1>0. Begins(Handlers, Idle, q, h, r, after)
  BY <1>1, ItBegins
<1>4. Apart(Handlers, Idle, after) /\ Started(Handlers, Idle, q, h, r, after)
  BY <1>0, <1>1, <1>2, <1>3, BegunApart, BegunIs
<1>5. \A g \in Handlers : after[g] # Idle => Sound(after[g], users, mailed)
  BY <1>2, <1>4, SoundMarked DEF Started
<1>. QED
  BY <1>1, <1>4, <1>5
  DEF SInv, Distinct, Same, SocialsOwned, NobodyLockedOut, Known, Linked, after

\* A request about user u that keeps its promise.
LEMMA SoundEdit ==
  ASSUME AInv, SInv, NEW h \in Handlers, NEW u \in DOMAIN users, NEW op, op \notin {"mailed", "temp"},
         NEW new, WellFormed(new), NEW s, Promised(Received(op, u, users[u], new, s)),
         Start(h, Received(op, u, users[u], new, s))
  PROVE  SInv'
<1>. DEFINE r == Received(op, u, users[u], new, s)
<1>1. /\ DOMAIN r = Entries /\ r.op = op /\ r.user = u /\ r.was = users[u] /\ r.row = new
      /\ r.alone
  BY DEF Received, Entries
<1>2. Promised(r) /\ Start(h, r)
  OBVIOUS
<1>. HIDE DEF r
<1>3. r.op # "sign_up"
  BY <1>2 DEF Promised
<1>4. Sound(r, users, mailed)
  BY <1>1, <1>2, <1>3 DEF SInv, Sound, Changes
<1>. QED
  BY <1>1, <1>2, <1>4, SoundStart

\* A sign-up.
LEMMA SoundJoin ==
  ASSUME AInv, SInv, NEW h \in Handlers, NEW row, WellFormed(row), NEW s \in Socials \cup {""},
         IF row.has_password THEN row.password \in Passwords ELSE s # "",
         Start(h, Received("sign_up", 0, Idle, row, s))
  PROVE  SInv'
<1>. DEFINE r == Received("sign_up", 0, Idle, row, s)
<1>1. DOMAIN r = Entries /\ r.op = "sign_up" /\ r.row = row /\ r.social = s /\ r.alone
  BY DEF Received, Entries
<1>2. Start(h, r)
  OBVIOUS
<1>. HIDE DEF r
<1>3. Sound(r, users, mailed)
  BY <1>1 DEF Sound, Joins
<1>. QED
  BY <1>1, <1>2, <1>3, SoundStart

-----------------------------------------------------------------------------
\* What visitors, members and admins ask for is sound.
LEMMA JoiningSound ==
  ASSUME AInv, SInv, NEW h \in Handlers, Joining(h)
  PROVE  SInv'
<1>0. "ACTIVE" \in Statuses /\ "" \notin Socials
  BY IdentityAssumption
<1>1. ASSUME NEW login, NEW e \in Emails, NEW p \in Passwords \cup {Random}, NEW has \in BOOLEAN
      PROVE  LET row == Row(login, e, p, has) IN
             WellFormed(row) /\ row.has_password = has /\ row.password = p
  <2>. DEFINE row == Row(login, e, p, has)
  <2>1. /\ DOMAIN row = Columns /\ row.email = e /\ row.password = p /\ row.status = "ACTIVE"
        /\ row.has_password = has /\ row.is_active = TRUE
    BY DEF Row, Columns
  <2>. HIDE DEF row
  <2>2. WellFormed(row)
    BY <1>0, <2>1 DEF WellFormed, IsRow
  <2>. QED
    BY <2>1, <2>2 DEF row
<1>2. ASSUME NEW l \in Logins, NEW b \in Boxes, NEW p \in Passwords, SignUp(h, l, b, p)
      PROVE  SInv'
  <2>1. <<b, "lower">> \in Emails
    BY DEF Emails, Spellings
  <2>2. Start(h, Received("sign_up", 0, Idle, Row(l, <<b, "lower">>, p, TRUE), ""))
    BY <1>2 DEF SignUp
  <2>. DEFINE row == Row(l, <<b, "lower">>, p, TRUE)
  <2>3. WellFormed(row) /\ row.has_password = TRUE /\ row.password = p
    BY <1>1, <2>1
  <2>4. Start(h, Received("sign_up", 0, Idle, row, "")) /\ "" \in Socials \cup {""}
    BY <2>2
  <2>. HIDE DEF row
  <2>5. IF row.has_password THEN row.password \in Passwords ELSE FALSE
    BY <2>3
  <2>. QED
    BY <2>3, <2>4, <2>5, SoundJoin
<1>3. ASSUME NEW s \in Socials, NEW e \in Emails, SocialSignUp(h, s, e)
      PROVE  SInv'
  <2>1. Start(h, Received("sign_up", 0, Idle, Row(Generated, e, Random, FALSE), s))
    BY <1>3 DEF SocialSignUp
  <2>. QED
    BY <1>0, <1>1, <2>1, SoundJoin
<1>4. ASSUME NEW s \in Socials, NEW e \in Emails, SocialLogin(h, s, e)
      PROVE  SInv'
  <2>1. CASE UNCHANGED <<users, social, mailed, request>>
    BY <2>1 DEF SInv, Distinct, Same, SocialsOwned, NobodyLockedOut, Known, Linked, Apart
  <2>2. ASSUME NEW u \in DOMAIN users, Start(h, Received("link", u, users[u], users[u], s))
        PROVE  SInv'
    <3>. DEFINE r == Received("link", u, users[u], users[u], s)
    <3>1. r.op = "link" /\ r.was = users[u] /\ r.row = users[u] /\ r.social = s
      BY DEF Received
    <3>. HIDE DEF r
    <3>2. Promised(r) /\ WellFormed(users[u])
      BY <3>1 DEF Promised, SInv
    <3>. QED
      BY <2>2, <3>2, SoundEdit DEF r
  <2>. QED
    BY <1>4, <2>1, <2>2 DEF SocialLogin
<1>. QED
  BY <1>2, <1>3, <1>4 DEF Joining

LEMMA MemberSound ==
  ASSUME AInv, SInv, NEW h \in Handlers, NEW u \in DOMAIN users, Member(h, u) \/ Admin(h, u)
  PROVE  SInv'
<1>1. WellFormed(users[u]) /\ DOMAIN users[u] = Columns
  BY DEF SInv, WellFormed, IsRow
<1>2. ASSUME NEW op, op \notin {"mailed", "temp"}, NEW new, WellFormed(new), Edit(h, op, u, new),
             ASSUME NEW r, r.op = op, r.was = users[u], r.row = new PROVE Promised(r)
      PROVE  SInv'
  <2>. DEFINE r == Received(op, u, users[u], new, "")
  <2>1. r.op = op /\ r.was = users[u] /\ r.row = new
    BY DEF Received
  <2>2. Start(h, r)
    BY <1>2 DEF Edit
  <2>. HIDE DEF r
  <2>3. Promised(r)
    BY <1>2, <2>1
  <2>. QED
    BY <1>2, <2>2, <2>3, SoundEdit DEF r
<1>3. CASE Withdraw(h, u)
  <2>. DEFINE new == [users[u] EXCEPT !.email = Nowhere, !.login_id = Gone, !.phone = NoPhone,
                !.password = "", !.is_active = FALSE, !.status = "WITHDRAWN"]
  <2>1. /\ DOMAIN new = Columns /\ new.email = Nowhere /\ new.phone = NoPhone
        /\ new.password = "" /\ new.is_active = FALSE /\ new.status = "WITHDRAWN"
        /\ new.has_password = users[u].has_password
    BY <1>1 DEF Columns
  <2>2. Edit(h, "withdraw", u, new)
    BY <1>3 DEF Withdraw
  <2>. HIDE DEF new
  <2>3. WellFormed(new)
    BY <1>1, <2>1 DEF WellFormed, IsRow
  <2>4. ASSUME NEW r, r.op = "withdraw", r.was = users[u], r.row = new PROVE Promised(r)
    BY <2>1, <2>4 DEF Promised
  <2>. QED
    BY <1>2, <2>2, <2>3, <2>4
<1>4. CASE IssueTempPassword(h, u)
  <2>1. Edit(h, "mail", u, users[u])
    BY <1>4 DEF IssueTempPassword
  <2>2. ASSUME NEW r, r.op = "mail", r.was = users[u], r.row = users[u] PROVE Promised(r)
    BY <2>2 DEF Promised
  <2>. QED
    BY <1>1, <1>2, <2>1, <2>2
<1>5. ASSUME NEW n \in Phones, UpdatePhone(h, u, n) PROVE SInv'
  <2>. DEFINE new == [users[u] EXCEPT !.phone = n]
  <2>1. /\ DOMAIN new = Columns /\ new.email = users[u].email /\ new.password = users[u].password
        /\ new.is_active = users[u].is_active /\ new.status = users[u].status
        /\ new.has_password = users[u].has_password
    BY <1>1 DEF Columns
  <2>2. Edit(h, "phone", u, new)
    BY <1>5 DEF UpdatePhone
  <2>. HIDE DEF new
  <2>3. WellFormed(new)
    BY <1>1, <2>1 DEF WellFormed, IsRow
  <2>4. ASSUME NEW r, r.op = "phone", r.was = users[u], r.row = new PROVE Promised(r)
    BY <2>1, <2>4 DEF Promised
  <2>. QED
    BY <1>2, <2>2, <2>3, <2>4
<1>6. ASSUME NEW p \in Passwords, ChangePassword(h, u, p) PROVE SInv'
  <2>. DEFINE new == [users[u] EXCEPT !.password = p, !.must_change = FALSE]
  <2>1. /\ DOMAIN new = Columns /\ new.email = users[u].email /\ new.password = p
        /\ new.must_change = FALSE
        /\ new.is_active = users[u].is_active /\ new.status = users[u].status
        /\ new.has_password = users[u].has_password
    BY <1>1 DEF Columns
  <2>2. Edit(h, "change", u, new)
    BY <1>6 DEF ChangePassword
  <2>. HIDE DEF new
  <2>3. WellFormed(new)
    BY <1>1, <2>1 DEF WellFormed, IsRow
  <2>4. ASSUME NEW r, r.op = "change", r.was = users[u], r.row = new PROVE Promised(r)
    BY <2>1, <2>4 DEF Promised
  <2>. QED
    BY <1>2, <2>2, <2>3, <2>4
<1>7. ASSUME NEW s \in Statuses, UpdateStatus(h, u, s) PROVE SInv'
  <2>. DEFINE b == (s = "ACTIVE")
              new == [users[u] EXCEPT !.status = s, !.is_active = b]
  <2>0. Edit(h, "status", u, new)
    BY <1>7 DEF UpdateStatus
  <2>1. b \in BOOLEAN /\ (b <=> s = "ACTIVE")
    OBVIOUS
  <2>. HIDE DEF b
  <2>2. /\ DOMAIN new = Columns /\ new.email = users[u].email /\ new.password = users[u].password
        /\ new.is_active = b /\ new.status = s
        /\ new.has_password = users[u].has_password
    BY <1>1 DEF Columns
  <2>. HIDE DEF new
  <2>3. WellFormed(new)
    BY <1>1, <2>1, <2>2 DEF WellFormed, IsRow
  <2>4. ASSUME NEW r, r.op = "status", r.was = users[u], r.row = new PROVE Promised(r)
    BY <2>1, <2>2, <2>4 DEF Promised
  <2>. QED
    BY <1>2, <2>0, <2>3, <2>4
<1>. QED
  BY <1>3, <1>4, <1>5, <1>6, <1>7 DEF Member, Admin

-----------------------------------------------------------------------------
\* A request ends, or goes on sound, and no row is written.
LEMMA SoundNext ==
  ASSUME AInv, SInv, NEW h \in Handlers, NEW s, request' = [request EXCEPT ![h] = s],
         UNCHANGED <<users, social>>, mailed \subseteq mailed',
         s # Idle => /\ Sound(s, users, mailed') /\ request[h] # Idle
                     /\ s.user = request[h].user /\ (s.alone => request[h].alone)
  PROVE  SInv'
<1>. DEFINE q == request
            after == request'
<1>1. after = [q EXCEPT ![h] = s] /\ DOMAIN q = Handlers /\ Apart(Handlers, Idle, q)
  BY DEF AInv, SInv
<1>2. s # Idle => Sound(s, users, mailed') /\ q[h] # Idle /\ s.user = q[h].user /\ (s.alone => q[h].alone)
  OBVIOUS
<1>3. \A g \in Handlers : q[g] # Idle => Sound(q[g], users, mailed')
  BY SoundMeanwhile DEF SInv
<1>. HIDE DEF q, after
<1>4. Continued(Handlers, Idle, q, after)
  BY <1>1, <1>2 DEF Continued
<1>5. Apart(Handlers, Idle, after)
  BY <1>1, <1>4, ContinuedApart
<1>6. \A g \in Handlers : after[g] # Idle => Sound(after[g], users, mailed')
  BY <1>1, <1>2, <1>3
<1>7. NobodyLockedOut'
  BY DEF SInv, NobodyLockedOut, Known, Linked
<1>8. Distinct' /\ SocialsOwned' /\ \A u \in DOMAIN users' : WellFormed(users'[u])
  BY DEF SInv, Distinct, Same, SocialsOwned
<1>. QED
  BY <1>5, <1>6, <1>7, <1>8 DEF SInv, after

\* The background task of find-password.
LEMMA TaskSound ==
  ASSUME AInv, SInv, NEW h \in Handlers, MailTempPassword(h) \/ LoadTempPassword(h)
  PROVE  SInv'
<1>. DEFINE r == request[h]
<1>1. UNCHANGED <<users, social>> /\ r # Idle
  BY DEF MailTempPassword, LoadTempPassword, Active, Busy
<1>2. Sound(r, users, mailed) /\ r.op \in {"mail", "mailed"}
  BY <1>1 DEF SInv, MailTempPassword, LoadTempPassword
<1>3. DOMAIN r = Entries /\ Changes(r, users, mailed)
  BY <1>2 DEF Sound, Joins
<1>4. CASE request' = Ended(request, h) /\ UNCHANGED mailed
  BY <1>1, <1>4, SoundNext DEF Ended
<1>5. CASE mailed' = mailed \cup {r.user} /\ request' = [request EXCEPT ![h].op = "mailed"]
           /\ r.op = "mail"
  <2>. DEFINE s == [r EXCEPT !.op = "mailed"]
  <2>1. /\ DOMAIN s = Entries /\ s.op = "mailed" /\ s.user = r.user
        /\ s.was = r.was /\ s.row = r.row /\ (s.alone <=> r.alone)
    BY <1>3 DEF Entries
  <2>2. request' = [request EXCEPT ![h] = s]
    BY <1>5
  <2>. HIDE DEF s
  <2>3. Sound(s, users, mailed')
    BY <1>3, <1>5, <2>1 DEF Sound, Changes, Promised
  <2>. QED
    BY <1>1, <1>5, <2>1, <2>2, <2>3, SoundNext
<1>6. CASE LoadTempPassword(h)
  <2>. DEFINE now == users[r.user]
              new == [now EXCEPT !.password = Temp, !.must_change = TRUE, !.has_password = TRUE]
              s == [r EXCEPT !.op = "temp", !.was = now, !.row = new]
  <2>1. WellFormed(now) /\ r.user \in DOMAIN users /\ r.user \in mailed
    BY <1>3, <1>6 DEF SInv, Changes, LoadTempPassword
  <2>2. /\ DOMAIN new = Columns /\ new.email = now.email /\ new.password = Temp
        /\ new.must_change = TRUE /\ new.has_password = TRUE
        /\ new.is_active = now.is_active /\ new.status = now.status
    BY <2>1 DEF WellFormed, IsRow, Columns
  <2>3. /\ DOMAIN s = Entries /\ s.op = "temp" /\ s.user = r.user
        /\ s.was = now /\ s.row = new /\ (s.alone <=> r.alone)
    BY <1>3 DEF Entries
  <2>4. request' = [request EXCEPT ![h] = s] /\ mailed' = mailed
    BY <1>6 DEF LoadTempPassword
  <2>5. WellFormed(new)
    <3>. HIDE DEF new, now
    <3>. QED
      BY <2>1, <2>2 DEF WellFormed, IsRow
  <2>6. Sound(s, users, mailed)
    <3>. HIDE DEF s, new
    <3>. QED
      BY <1>3, <2>1, <2>2, <2>3, <2>5 DEF Sound, Changes, Promised
  <2>. HIDE DEF s
  <2>. QED
    BY <1>1, <2>3, <2>4, <2>6, SoundNext
<1>. QED
  BY <1>2, <1>4, <1>5, <1>6 DEF MailTempPassword

-----------------------------------------------------------------------------
\* The row after a commit.  It is as the request promised it when it read what is
\* there; it is never without a password when it had one.
LEMMA WrittenRow ==
  ASSUME NEW r, NEW rows, NEW sentTo, Changes(r, rows, sentTo),
         NEW now, now = rows[r.user], WellFormed(now), NEW new, new = Written(now, r)
  PROVE  /\ WellFormed(new)
         /\ r.was = now => \A f \in Columns : new[f] = r.row[f]
         /\ now.has_password => new.has_password
         /\ r.op \in {"change", "temp"} => new.password = r.row.password
         /\ r.op \notin {"withdraw", "change", "temp"} => new.password = now.password
         /\ r.op # "temp" => (new.has_password <=> now.has_password)
         /\ r.op = "temp" => new.has_password
<1>1. /\ DOMAIN now = Columns /\ DOMAIN r.row = Columns /\ DOMAIN r.was = Columns
  BY DEF WellFormed, IsRow, Changes
<1>2. /\ DOMAIN new = Columns
      /\ \A f \in Columns :
            new[f] = IF r.row[f] # r.was[f] \/ (f = "password" /\ r.op \in {"change", "temp"})
                     THEN r.row[f] ELSE now[f]
  BY <1>1 DEF Written
<1>3. /\ new.email = r.row.email \/ new.email = now.email
      /\ new.password = r.row.password \/ new.password = now.password
      /\ new.status = r.row.status \/ new.status = now.status
      /\ new.is_active = r.row.is_active \/ new.is_active = now.is_active
      /\ new.has_password = IF r.row.has_password # r.was.has_password
                            THEN r.row.has_password ELSE now.has_password
  BY <1>2 DEF Columns
<1>4. WellFormed(r.row) /\ WellFormed(r.was) /\ WellFormed(now)
  BY DEF Changes
<1>5. /\ new.email \in Emails \cup {Nowhere}
      /\ new.password \in Passwords \cup {Random, Temp, ""}
      /\ new.status \in Statuses \cup {"WITHDRAWN"}
      /\ new.is_active \in BOOLEAN /\ new.has_password \in BOOLEAN
  BY <1>3, <1>4 DEF WellFormed
<1>6. WellFormed(new)
  BY <1>2, <1>5 DEF WellFormed, IsRow
<1>7. r.was = now => \A f \in Columns : new[f] = r.row[f]
  BY <1>2
<1>8. r.op # "temp" => (r.row.has_password <=> r.was.has_password)
  BY DEF Changes, Promised
<1>9. /\ r.op = "temp" => r.row.has_password
      /\ r.was.has_password => now.has_password
  BY DEF Changes, Promised
<1>10. /\ r.row.has_password \in BOOLEAN /\ r.was.has_password \in BOOLEAN
       /\ now.has_password \in BOOLEAN
  BY <1>4 DEF WellFormed
<1>11. /\ now.has_password => new.has_password
       /\ r.op # "temp" => (new.has_password <=> now.has_password)
       /\ r.op = "temp" => new.has_password
  <2>. DEFINE a == r.row.has_password
              b == r.was.has_password
              c == now.has_password
              d == new.has_password
  <2>1. d = IF a # b THEN a ELSE c
    BY <1>3
  <2>2. a \in BOOLEAN /\ b \in BOOLEAN /\ c \in BOOLEAN /\ (b => c)
    BY <1>9, <1>10
  <2>3. (r.op # "temp" => (a <=> b)) /\ (r.op = "temp" => a)
    BY <1>8, <1>9
  <2>. HIDE DEF a, b, c, d
  <2>4. /\ c => d
        /\ r.op # "temp" => (d <=> c)
        /\ r.op = "temp" => d
    BY <2>1, <2>2, <2>3
  <2>. QED
    BY <2>4 DEF c, d
<1>12. /\ r.op \in {"change", "temp"} => new.password = r.row.password
       /\ r.op \notin {"withdraw", "change", "temp"} => new.password = now.password
  <2>1. r.op \notin {"withdraw", "change", "temp"} => r.row.password = r.was.password
    BY DEF Changes, Promised
  <2>2. new.password = IF r.row.password # r.was.password \/ r.op \in {"change", "temp"}
                       THEN r.row.password ELSE now.password
    BY <1>2 DEF Columns
  <2>. QED
    BY <2>1, <2>2
<1>. QED
  BY <1>6, <1>7, <1>11, <1>12

\* The social accounts after it.
LEMMA SocialsAfter ==
  ASSUME SocialsOwned, NEW r, r.user \in DOMAIN users, r.op = "link" => r.social \in Socials,
         social' = SocialAfter(r)
  PROVE  /\ \A s \in DOMAIN social' : s \in Socials /\ social'[s] \in DOMAIN users
         /\ r.op = "withdraw" => \A s \in DOMAIN social' : social'[s] # r.user
         /\ \A s \in DOMAIN social :
               r.op # "withdraw" \/ social[s] # r.user =>
                  s \in DOMAIN social' /\ social'[s] = social[s]
<1>1. CASE r.op = "withdraw"
  <2>1. social' = [s \in DOMAIN social \ Linked(r.user) |-> social[s]]
    BY <1>1 DEF SocialAfter
  <2>2. Linked(r.user) = {s \in DOMAIN social : social[s] = r.user}
    BY DEF Linked
  <2>. HIDE DEF Linked
  <2>. QED
    BY <1>1, <2>1, <2>2 DEF SocialsOwned
<1>2. CASE r.op = "link" /\ r.social \notin DOMAIN social
  <2>1. social' = [s \in DOMAIN social \cup {r.social} |->
                      IF s = r.social THEN r.user ELSE social[s]]
    BY <1>2 DEF SocialAfter
  <2>. QED
    BY <1>2, <2>1 DEF SocialsOwned
<1>3. CASE r.op # "withdraw" /\ ~(r.op = "link" /\ r.social \notin DOMAIN social)
  <2>1. social' = social
    BY <1>3 DEF SocialAfter
  <2>. QED
    BY <1>3, <2>1 DEF SocialsOwned
<1>. QED
  BY <1>1, <1>2, <1>3

\* A commit, seen from the requests: what it does to the row and to the others'.
Committed(h, r, now, new) ==
    /\ r = request[h] /\ r # Idle /\ r.user \in DOMAIN users /\ now = users[r.user]
    /\ Changes(r, users, mailed)
    /\ new = Written(now, r) /\ WellFormed(now)
    /\ request' = [request EXCEPT ![h] = Idle]
    /\ DOMAIN users' = DOMAIN users /\ users'[r.user] = new
    /\ \A u \in DOMAIN users \ {r.user} : users'[u] = users[u]
    /\ \/ new.email = now.email /\ new.login_id = now.login_id
       \/ Anonymous(new)
    /\ social' = SocialAfter(r) /\ UNCHANGED mailed

LEMMA CommitIs ==
  ASSUME AInv, SInv, NEW h \in Handlers, Commit(h)
  PROVE  Committed(h, request[h], users[request[h].user], Written(users[request[h].user], request[h]))
<1>. DEFINE r == request[h]
            now == users[r.user]
            new == Written(now, r)
<1>1. /\ r # Idle /\ r.op \in {"link", "withdraw", "change", "phone", "status", "temp"}
      /\ users' = [users EXCEPT ![r.user] = new]
      /\ social' = SocialAfter(r) /\ request' = [request EXCEPT ![h] = Idle] /\ UNCHANGED mailed
  BY DEF Commit, Active, Busy, Ended
<1>2. Changes(r, users, mailed)
  BY <1>1 DEF SInv, Sound, Joins
<1>3. r.user \in DOMAIN users /\ WellFormed(now)
  BY <1>2 DEF SInv, Changes
<1>4. Progress
  BY CommitStep
<1>. HIDE DEF r, now, new
<1>5. /\ DOMAIN users' = DOMAIN users /\ users'[r.user] = new
      /\ \A u \in DOMAIN users \ {r.user} : users'[u] = users[u]
  BY <1>1, <1>3
<1>6. \/ new.email = now.email /\ new.login_id = now.login_id
      \/ Anonymous(new)
  BY <1>3, <1>4, <1>5 DEF Progress, now
<1>7. Committed(h, r, now, new)
  BY <1>1, <1>2, <1>3, <1>5, <1>6 DEF Committed, r, now, new
<1>. QED
  BY <1>7 DEF r, now, new

-----------------------------------------------------------------------------
\* A commit leaves the requests of others sound, and everybody able to prove that
\* an account is his.
LEMMA CommitSound ==
  ASSUME AInv, SInv, NEW h \in Handlers, Commit(h)
  PROVE  SInv'
<1>. PICK r, now, new : Committed(h, r, now, new)
  BY CommitIs
<1>. DEFINE q == request
            after == request'
<1>1. /\ r = q[h] /\ r # Idle /\ r.user \in DOMAIN users /\ now = users[r.user]
      /\ Changes(r, users, mailed) /\ WellFormed(now)
      /\ new = Written(now, r)
      /\ after = [q EXCEPT ![h] = Idle] /\ DOMAIN q = Handlers
      /\ DOMAIN users' = DOMAIN users /\ users'[r.user] = new
      /\ \A u \in DOMAIN users \ {r.user} : users'[u] = users[u]
      /\ \/ new.email = now.email /\ new.login_id = now.login_id
         \/ Anonymous(new)
      /\ UNCHANGED mailed
  BY DEF Committed, AInv
<1>2. /\ WellFormed(new)
      /\ now.has_password => new.has_password
      /\ r.op \in {"change", "temp"} => new.password = r.row.password
      /\ r.op \notin {"withdraw", "change", "temp"} => new.password = now.password
      /\ r.op # "temp" => (new.has_password <=> now.has_password)
      /\ r.op = "temp" => new.has_password
  BY <1>1, WrittenRow
<1>3. /\ \A s \in DOMAIN social' : s \in Socials /\ social'[s] \in DOMAIN users
      /\ \A s \in DOMAIN social :
            r.op # "withdraw" \/ social[s] # r.user =>
               s \in DOMAIN social' /\ social'[s] = social[s]
  BY <1>1, SocialsAfter DEF SInv, Changes, Promised, Committed
<1>. HIDE DEF q, after
<1>4. Distinct'
  BY <1>1 DEF SInv, Distinct, Same, Anonymous
<1>5. SocialsOwned'
  BY <1>1, <1>3 DEF SocialsOwned
<1>6. \A u \in DOMAIN users' : WellFormed(users'[u])
  BY <1>1, <1>2 DEF SInv
<1>7. ASSUME NEW u \in DOMAIN users \ {r.user}, users'[u].email # Nowhere
      PROVE  IF users'[u].has_password THEN Known(u)' ELSE Linked(u)' # {}
  <2>1. IF users[u].has_password THEN Known(u) ELSE Linked(u) # {}
    BY <1>1, <1>7 DEF SInv, NobodyLockedOut
  <2>2. Linked(u) \subseteq Linked(u)'
    BY <1>3 DEF Linked
  <2>. QED
    BY <1>1, <2>1, <2>2 DEF Known
<1>8. ASSUME new.email # Nowhere
      PROVE  IF new.has_password THEN Known(r.user)' ELSE Linked(r.user)' # {}
  <2>1. now.email # Nowhere
    BY <1>1, <1>8 DEF Anonymous
  <2>2. IF now.has_password THEN Known(r.user) ELSE Linked(r.user) # {}
    BY <1>1, <2>1 DEF SInv, NobodyLockedOut
  <2>3. r.op # "withdraw"
    <3>1. r.op = "withdraw" => r.row.email = Nowhere
      BY <1>1 DEF Changes, Promised
    <3>2. new.email = IF r.row.email # r.was.email THEN r.row.email ELSE now.email
      BY <1>1 DEF Written, WellFormed, IsRow, Columns
    <3>3. r.was.email = Nowhere => now.email = Nowhere
      BY <1>1 DEF AInv, Fine, SignsUp, Harmless, Changes, q
    <3>. QED
      BY <1>8, <2>1, <3>1, <3>2, <3>3
  <2>4. Linked(r.user) \subseteq Linked(r.user)'
    BY <1>3, <2>3 DEF Linked
  <2>5. r.op = "change" => new.password \in Passwords
    BY <1>1, <1>2 DEF Changes, Promised
  <2>6. r.op = "temp" => new.password = Temp /\ r.user \in mailed'
    BY <1>1, <1>2 DEF Changes, Promised
  <2>. QED
    BY <1>1, <1>2, <2>2, <2>3, <2>4, <2>5, <2>6 DEF Known
<1>9. NobodyLockedOut'
  BY <1>1, <1>7, <1>8 DEF NobodyLockedOut
<1>10. Continued(Handlers, Idle, q, after)
  BY <1>1 DEF Continued
<1>11. Apart(Handlers, Idle, after)
  BY <1>10, ContinuedApart DEF SInv, q
<1>12. ASSUME NEW g \in Handlers, after[g] # Idle PROVE Sound(after[g], users', mailed')
  <2>1. after[g] = q[g] /\ g # h /\ q[g] # Idle
    BY <1>1, <1>12
  <2>2. Sound(q[g], users, mailed)
    BY <2>1 DEF SInv, q
  <2>3. q[g].user = r.user => ~q[g].alone
    BY <1>1, <2>1 DEF SInv, Apart, q
  <2>4. q[g].user \in DOMAIN users =>
            /\ users[q[g].user].has_password => users'[q[g].user].has_password
            /\ q[g].alone => users'[q[g].user] = users[q[g].user]
    BY <1>1, <1>2, <2>3
  <2>. QED
    BY <1>1, <2>1, <2>2, <2>4, SoundMeanwhile
<1>. QED
  BY <1>4, <1>5, <1>6, <1>9, <1>11, <1>12 DEF SInv, after

\* So does a sign-up, or it is refused: the new user has a password of his own or a
\* social account, and nobody else's login id or address.
LEMMA SignUpSound ==
  ASSUME AInv, SInv, NEW h \in Handlers, CommitSignUp(h)
  PROVE  SInv'
<1>. DEFINE r == request[h]
<1>. PICK id : id = lastId + 1
  OBVIOUS
<1>1. /\ r # Idle /\ r.op = "sign_up" /\ request' = [request EXCEPT ![h] = Idle]
      /\ UNCHANGED mailed
  BY DEF CommitSignUp, Active, Busy, Ended
<1>2. Joins(r)
  BY <1>1 DEF SInv, Sound, Changes
<1>3. CASE UNCHANGED <<users, social>>
  BY <1>1, <1>3, SoundNext
<1>4. CASE ~Refused(r.row, r.social)
  <2>. DEFINE q == request
              after == request'
  <2>1. /\ users' = [u \in DOMAIN users \cup {id} |-> IF u = id THEN r.row ELSE users[u]]
        /\ social' = IF r.social = "" THEN social
                     ELSE [s \in DOMAIN social \cup {r.social} |->
                              IF s = r.social THEN id ELSE social[s]]
    BY <1>4 DEF CommitSignUp
  <2>2. id \notin DOMAIN users
    BY DEF AInv
  <2>3. after = [q EXCEPT ![h] = Idle] /\ DOMAIN q = Handlers
    BY <1>1 DEF AInv
  <2>4. /\ \A u \in DOMAIN users : users[u].email # r.row.email
        /\ r.row.login_id # Generated => \A u \in DOMAIN users : users[u].login_id # r.row.login_id
        /\ r.social \notin DOMAIN social
    BY <1>4 DEF Refused, NobodyHas
  <2>. HIDE DEF r, q, after
  <2>5. /\ DOMAIN users' = DOMAIN users \cup {id} /\ users'[id] = r.row
        /\ \A u \in DOMAIN users : users'[u] = users[u]
    BY <2>1, <2>2
  <2>6. /\ \A s \in DOMAIN social : s \in DOMAIN social' /\ social'[s] = social[s]
        /\ \A s \in DOMAIN social' \ DOMAIN social : s = r.social /\ s # "" /\ social'[s] = id
        /\ r.social # "" => r.social \in DOMAIN social' /\ social'[r.social] = id
    BY <2>1, <2>4
  <2>7. Distinct'
    BY <2>2, <2>4, <2>5 DEF SInv, Distinct, Same
  <2>8. SocialsOwned'
    BY <1>2, <2>5, <2>6 DEF SInv, SocialsOwned, Joins
  <2>9. \A u \in DOMAIN users' : WellFormed(users'[u])
    BY <1>2, <2>5 DEF SInv, Joins
  <2>10. IF users'[id].has_password THEN Known(id)' ELSE Linked(id)' # {}
    <3>1. r.row.has_password => r.row.password \in Passwords
      BY <1>2 DEF Joins
    <3>2. ~r.row.has_password => r.social # ""
      BY <1>2 DEF Joins
    <3>3. r.row.has_password => Known(id)'
      BY <2>5, <3>1 DEF Known
    <3>4. ~r.row.has_password => Linked(id)' # {}
      BY <2>6, <3>2 DEF Linked
    <3>. QED
      BY <2>5, <3>3, <3>4
  <2>11. ASSUME NEW u \in DOMAIN users, users'[u].email # Nowhere
         PROVE  IF users'[u].has_password THEN Known(u)' ELSE Linked(u)' # {}
    <3>1. Linked(u) \subseteq Linked(u)'
      BY <2>6 DEF Linked
    <3>. QED
      BY <1>1, <2>5, <2>11, <3>1 DEF SInv, NobodyLockedOut, Known
  <2>12. NobodyLockedOut'
    <3>. SUFFICES ASSUME NEW u \in DOMAIN users', users'[u].email # Nowhere
                  PROVE  IF users'[u].has_password THEN Known(u)' ELSE Linked(u)' # {}
      BY DEF NobodyLockedOut
    <3>1. CASE u = id
      BY <2>10, <3>1
    <3>2. CASE u \in DOMAIN users
      BY <2>11, <3>2
    <3>. QED
      BY <2>5, <3>1, <3>2
  <2>13. Continued(Handlers, Idle, q, after)
    BY <2>3 DEF Continued
  <2>14. Apart(Handlers, Idle, after)
    BY <2>13, ContinuedApart DEF SInv, q
  <2>15. ASSUME NEW g \in Handlers, after[g] # Idle PROVE Sound(after[g], users', mailed')
    <3>1. after[g] = q[g] /\ Sound(q[g], users, mailed)
      BY <2>3, <2>15 DEF SInv, q
    <3>. QED
      BY <1>1, <2>5, <3>1, SoundMeanwhile
  <2>. QED
    BY <2>7, <2>8, <2>9, <2>12, <2>14, <2>15 DEF SInv, after
<1>. QED
  BY <1>3, <1>4 DEF CommitSignUp

LEMMA SoundStep == AInv /\ SInv /\ [Next]_vars => SInv'
<1>. SUFFICES ASSUME AInv, SInv, [Next]_vars PROVE SInv'
  OBVIOUS
<1>1. CASE UNCHANGED <<users, social, mailed, request>>
  BY <1>1 DEF SInv, Distinct, Same, SocialsOwned, NobodyLockedOut, Known, Linked, Apart
<1>2. CASE Restart
  <2>1. \A g \in Handlers : request'[g] = Idle
    BY <1>2 DEF Restart
  <2>2. UNCHANGED <<users, social, mailed>>
    BY <1>2 DEF Restart
  <2>. QED
    BY <2>1, <2>2 DEF SInv, Distinct, Same, SocialsOwned, NobodyLockedOut, Known, Linked, Apart
<1>3. ASSUME NEW u \in DOMAIN users, Reverify(u) PROVE SInv'
  BY <1>1, <1>3 DEF Reverify
<1>4. CASE Expire
  BY <1>1, <1>4 DEF Expire
<1>5. CASE UNCHANGED vars
  BY <1>1, <1>5 DEF vars
<1>. QED
  BY <1>2, <1>3, <1>4, <1>5, JoiningSound, MemberSound, TaskSound, SignUpSound, CommitSound
  DEF Next

-----------------------------------------------------------------------------
LEMMA SoundAtFirst == Init => SInv
BY DEF Init, SInv, Distinct, SocialsOwned, NobodyLockedOut, Apart

LEMMA AccountsStart == Init => AInv
BY DEF Init, AInv

\* Whatever mails are lost and whatever requests race, the owner of an account can
\* prove that it is his (user_service.py:73).
THEOREM OwnersAreNotLockedOut == IdentitySpec => []NobodyLockedOut
<1>1. AInv /\ [Next]_vars => AInv'
  BY EveryStep
<1>2. SInv => NobodyLockedOut
  BY DEF SInv
<1>. QED
  BY <1>1, <1>2, AccountsStart, SoundAtFirst, SoundStep, OnlyAccounts, PTL DEF Spec

\* What request h, which no other of its user overlaps, has promised for row now.
Kept(r, now) ==
    /\ r.op = "withdraw" =>
           /\ now.phone = NoPhone /\ ~now.is_active /\ now.email = Nowhere
           /\ \A s \in DOMAIN social' : social'[s] # r.user
    /\ r.op = "change" => now.password \in Passwords /\ ~now.must_change
    /\ r.op = "temp" => now.must_change /\ now.has_password
    /\ r.op = "status" => now.is_active = (now.status = "ACTIVE")

LEMMA AloneCommit ==
  ASSUME AInv, SInv, NEW h \in Handlers, Commit(h), request[h].alone
  PROVE  Kept(request[h], users'[request[h].user])
<1>. PICK r, now, new : Committed(h, r, now, new) /\ r = request[h]
  BY CommitIs DEF Committed
<1>1. /\ r.user \in DOMAIN users /\ now = users[r.user] /\ Changes(r, users, mailed)
      /\ new = Written(now, r) /\ WellFormed(now) /\ users'[r.user] = new
      /\ social' = SocialAfter(r)
  BY DEF Committed
<1>2. r.alone => r.was = now
  BY <1>1 DEF Changes
<1>3. \A f \in Columns : new[f] = r.row[f]
  BY <1>1, <1>2, WrittenRow
<1>4. /\ new.phone = r.row.phone /\ new.is_active = r.row.is_active /\ new.email = r.row.email
      /\ new.password = r.row.password /\ new.must_change = r.row.must_change
      /\ new.has_password = r.row.has_password /\ new.status = r.row.status
  BY <1>3 DEF Columns
<1>5. r.op = "withdraw" => \A s \in DOMAIN social' : social'[s] # r.user
  BY <1>1, SocialsAfter DEF SInv, Changes, Promised
<1>6. r.op = "status" => new.is_active = (new.status = "ACTIVE")
  <2>. DEFINE a == r.row.is_active
              b == (r.row.status = "ACTIVE")
  <2>1. a \in BOOLEAN /\ b \in BOOLEAN /\ (r.op = "status" => (a <=> b))
    BY <1>1 DEF Changes, Promised, WellFormed
  <2>2. r.op = "status" => a = b
    <3>. HIDE DEF a, b
    <3>. QED
      BY <2>1
  <2>. QED
    BY <1>4, <2>2
<1>7. Kept(r, new)
  BY <1>1, <1>4, <1>5, <1>6 DEF Kept, Changes, Promised
<1>. QED
  BY <1>1, <1>7

\* A request that no other of its user overlaps leaves what it promises
\* (user/models.py:92).
THEOREM AloneItApplies == IdentitySpec => LoneRequestApplies
<1>. DEFINE Applied == \A h \in Handlers :
                Active(h) /\ request'[h] = Idle /\ request[h].alone /\ users' # users =>
                    Kept(request[h], users'[request[h].user])
<1>1. ASSUME AInv, SInv, Next PROVE Applied
  <2>. SUFFICES ASSUME NEW h \in Handlers, Active(h), request'[h] = Idle, request[h].alone,
                       users' # users
                PROVE  Kept(request[h], users'[request[h].user])
    OBVIOUS
  <2>1. PICK g \in Handlers : CommitSignUp(g) \/ Commit(g)
    BY <1>1, JoiningStep, MemberStep, TaskStep DEF Next, Reverify, Expire, Restart
  <2>2. request[h] # Idle /\ request' = [request EXCEPT ![g] = Idle]
    BY <2>1 DEF Active, Busy, CommitSignUp, Commit, Ended
  <2>3. g = h
    BY <1>1, <2>2 DEF AInv
  <2>4. CASE CommitSignUp(h)
    BY <2>4 DEF CommitSignUp, Kept
  <2>5. CASE Commit(h)
    BY <1>1, <2>5, AloneCommit
  <2>. QED
    BY <2>1, <2>3, <2>4, <2>5
<1>2. Applied => \A h \in Handlers :
          LET r == request[h]  u == r.user  now == users'[u] IN
          Active(h) /\ request'[h] = Idle /\ r.alone /\ users' # users =>
              /\ r.op = "withdraw" =>
                     /\ now.phone = NoPhone /\ ~now.is_active /\ now.email = Nowhere
                     /\ \A s \in DOMAIN social' : social'[s] # u
              /\ r.op = "change" => now.password \in Passwords /\ ~now.must_change
              /\ r.op = "temp" => now.must_change /\ now.has_password
              /\ r.op = "status" => now.is_active = (now.status = "ACTIVE")
  BY DEF Kept
<1>3. [][Applied]_vars => LoneRequestApplies
  BY <1>2, PTL DEF LoneRequestApplies
<1>4. AInv /\ [Next]_vars => AInv'
  BY EveryStep
<1>5. AInv /\ SInv /\ [Next]_vars => [Applied]_vars
  BY <1>1
<1>. HIDE DEF Applied
<1>. QED
  BY <1>3, <1>4, <1>5, AccountsStart, SoundAtFirst, SoundStep, OnlyAccounts, PTL DEF Spec

(***************************************************************************)
(* Codes.                                                                  *)
(***************************************************************************)
CodeEntries == {"op", "user", "who", "code", "alone"}

-----------------------------------------------------------------------------
\* A request that has read a code has read the code of one address only.
ReadOf(r, codes, last) ==
    /\ DOMAIN r = CodeEntries
    /\ r.op = "check" =>
          /\ r.user \in C!Addresses
          /\ r.code \in 1..last
          /\ \A a \in C!Addresses \ {r.user} : codes[a] # r.code
    /\ r.op \in {"send", "qr"} => r.user \in C!Addresses

\* The inductive invariant: no two addresses have the same code, and no address
\* has one that was accepted.
CInv ==
    /\ lastCode \in Nat
    /\ code \in [C!Addresses -> 0..lastCode]
    /\ \A a, b \in C!Addresses : code[a] = code[b] /\ code[a] # 0 => a = b
    /\ accepted \subseteq 1..lastCode
    /\ \A a \in C!Addresses : code[a] \notin accepted
    /\ DOMAIN codeRequest = Handlers
    /\ \A h \in Handlers : codeRequest[h] = C!Idle \/ ReadOf(codeRequest[h], code, lastCode)

-----------------------------------------------------------------------------
\* Codes keeps the books of its requests in the same way as Accounts.
LEMMA SameBooks ==
  /\ C!Idle = Idle
  /\ C!Busy(codeRequest) = Busy(codeRequest)
  /\ \A h, r : C!Begun(codeRequest, h, r) = Begun(codeRequest, h, r)
BY DEF C!Idle, Idle, C!Busy, Busy, C!Begun, Begun

LEMMA CodeStarted ==
  ASSUME NEW h \in Handlers, NEW r, C!Start(h, r)
  PROVE  codeRequest[h] = C!Idle /\ Started(Handlers, Idle, codeRequest, h, r, codeRequest')
<1>. DEFINE q == codeRequest
            after == codeRequest'
<1>1. h \notin Busy(q) /\ after = Begun(q, h, r)
  BY SameBooks DEF C!Start, C!Active
<1>2. q[h] = C!Idle
  BY <1>1, SameBooks DEF Busy
<1>. HIDE DEF q, after
<1>0. Begins(Handlers, Idle, q, h, r, after)
  BY <1>1, ItBegins
<1>3. Started(Handlers, Idle, q, h, r, after)
  BY <1>0, <1>1, BegunIs
<1>. QED
  BY <1>2, <1>3 DEF q, after

-----------------------------------------------------------------------------
\* A request that starts disturbs nothing.
LEMMA CodeStartStep ==
  ASSUME CInv, NEW h \in Handlers, NEW r, ReadOf(r, code, lastCode), C!Start(h, r),
         UNCHANGED <<code, lastCode, accepted>>
  PROVE  CInv'
<1>1. ASSUME NEW s, ReadOf(s, code, lastCode), NEW b
      PROVE  ReadOf([s EXCEPT !.alone = b], code, lastCode)
  <2>. DEFINE t == [s EXCEPT !.alone = b]
  <2>1. DOMAIN t = CodeEntries /\ t.user = s.user /\ t.op = s.op /\ t.code = s.code
    BY <1>1 DEF ReadOf, CodeEntries
  <2>. HIDE DEF t
  <2>2. ReadOf(t, code, lastCode)
    BY <1>1, <2>1 DEF ReadOf
  <2>. QED
    BY <2>2 DEF t
<1>3. Started(Handlers, Idle, codeRequest, h, r, codeRequest')
  BY CodeStarted
<1>4. ASSUME NEW g \in Handlers PROVE codeRequest'[g] = C!Idle \/ ReadOf(codeRequest'[g], code, lastCode)
  BY <1>1, <1>3, SameBooks DEF Started, CInv
<1>5. ASSUME NEW g \in Handlers PROVE codeRequest'[g] = C!Idle \/ ReadOf(codeRequest'[g], code', lastCode')
  BY <1>4 DEF ReadOf
<1>6. DOMAIN codeRequest' = Handlers
  BY <1>3 DEF Started
<1>. QED
  BY <1>5, <1>6 DEF CInv

LEMMA CodeSendStep ==
  ASSUME CInv, NEW h \in Handlers, NEW a \in C!Addresses, C!Send(h, a)
  PROVE  CInv'
<1>. DEFINE r == C!Received("send", a, "none", 0)
<1>1. ReadOf(r, code, lastCode)
  BY DEF C!Received, ReadOf, CodeEntries
<1>2. C!Start(h, r) /\ UNCHANGED <<code, lastCode, accepted>>
  BY DEF C!Send
<1>. HIDE DEF r
<1>. QED
  BY <1>1, <1>2, CodeStartStep

LEMMA CodeCheckStep ==
  ASSUME CInv, NEW h \in Handlers, NEW a \in C!Addresses, NEW who, C!Check(h, a, who, code[a])
  PROVE  CInv'
<1>. DEFINE r == C!Received("check", a, who, code[a])
<1>1. code[a] \in 1..lastCode /\ \A b \in C!Addresses \ {a} : code[b] # code[a]
  BY DEF C!Check, CInv
<1>2. DOMAIN r = CodeEntries /\ r.op = "check" /\ r.user = a /\ r.code = code[a]
  BY DEF C!Received, CodeEntries
<1>3. C!Start(h, r) /\ UNCHANGED <<code, lastCode, accepted>>
  BY DEF C!Check
<1>. HIDE DEF r
<1>4. ReadOf(r, code, lastCode)
  BY <1>1, <1>2 DEF ReadOf
<1>. QED
  BY <1>3, <1>4, CodeStartStep

\* The code that is stored is new: no address has it, no request has read it.
LEMMA CodeStoreStep ==
  ASSUME CInv, NEW h \in Handlers, C!StoreCode(h)
  PROVE  CInv'
<1>. DEFINE new == lastCode + 1
            r == codeRequest[h]
<1>1. /\ r # C!Idle /\ r.op = "send"
      /\ lastCode' = new /\ accepted' = accepted
      /\ code' = [code EXCEPT ![r.user] = new]
      /\ codeRequest' = [codeRequest EXCEPT ![h].op = "qr", ![h].code = new]
  BY DEF C!StoreCode, C!Active, C!Busy
<1>2. ReadOf(r, code, lastCode) /\ r.user \in C!Addresses
  BY <1>1 DEF CInv, ReadOf
<1>3. /\ code'[r.user] = new
      /\ \A a \in C!Addresses \ {r.user} : code'[a] = code[a]
      /\ code' \in [C!Addresses -> 0..new]
  BY <1>1, <1>2 DEF CInv
<1>4. DOMAIN codeRequest' = Handlers /\ \A g \in Handlers \ {h} : codeRequest'[g] = codeRequest[g]
  BY <1>1 DEF CInv
<1>5. DOMAIN codeRequest'[h] = CodeEntries /\ codeRequest'[h].op = "qr" /\ codeRequest'[h].user = r.user
  <2>1. codeRequest'[h] = [[r EXCEPT !.op = "qr"] EXCEPT !.code = new]
    BY <1>1 DEF CInv
  <2>. QED
    BY <1>2, <2>1 DEF ReadOf, CodeEntries
<1>6. ReadOf(codeRequest'[h], code', lastCode')
  BY <1>2, <1>5 DEF ReadOf
<1>7. ASSUME NEW g \in Handlers \ {h}, codeRequest[g] # C!Idle
      PROVE  ReadOf(codeRequest[g], code', lastCode')
  <2>. DEFINE s == codeRequest[g]
  <2>1. ReadOf(s, code, lastCode)
    BY <1>7 DEF CInv
  <2>2. CASE s.op = "check"
    BY <1>1, <1>3, <2>1, <2>2 DEF ReadOf, CInv
  <2>3. CASE s.op # "check"
    BY <2>1, <2>3 DEF ReadOf
  <2>. QED
    BY <2>2, <2>3
<1>8. new \notin accepted /\ \A a \in C!Addresses : code[a] # new
  BY DEF CInv
<1>9. code' \in [C!Addresses -> 0..lastCode'] /\ accepted' \subseteq 1..lastCode'
  BY <1>1, <1>3 DEF CInv
<1>10. \A a, b \in C!Addresses : code'[a] = code'[b] /\ code'[a] # 0 => a = b
  BY <1>3, <1>8 DEF CInv
<1>11. \A a \in C!Addresses : code'[a] \notin accepted'
  BY <1>1, <1>3, <1>8 DEF CInv
<1>12. ASSUME NEW g \in Handlers
       PROVE  codeRequest'[g] = C!Idle \/ ReadOf(codeRequest'[g], code', lastCode')
  BY <1>4, <1>6, <1>7
<1>13. lastCode' \in Nat /\ DOMAIN codeRequest' = Handlers
  BY <1>1, <1>4 DEF CInv
<1>. QED
  BY <1>9, <1>10, <1>11, <1>12, <1>13 DEF CInv

\* A step that ends a request, or only marks it, and changes no code.
LEMMA CodeEndStep ==
  ASSUME CInv, NEW h \in Handlers,
         C!Show(h) \/ C!SendFails(h) \/ C!Die(h) \/ C!Refuse(h) \/ C!CommitPhone(h)
  PROVE  CInv'
<1>1. UNCHANGED <<code, lastCode, accepted>> /\ codeRequest' = [codeRequest EXCEPT ![h] = C!Idle]
  BY DEF C!Show, C!SendFails, C!Die, C!Refuse, C!CommitPhone, C!Ended
<1>2. DOMAIN codeRequest' = Handlers /\ \A g \in Handlers : codeRequest'[g] \in {C!Idle, codeRequest[g]}
  BY <1>1 DEF CInv
<1>. QED
  BY <1>1, <1>2 DEF CInv, ReadOf

\* Accepting deletes the code of the address, and no other has it.
LEMMA CodeAcceptStep ==
  ASSUME CInv, NEW h \in Handlers, C!Accept(h)
  PROVE  CInv'
<1>. DEFINE r == codeRequest[h]
<1>1. /\ r # C!Idle /\ r.op = "check" /\ lastCode' = lastCode
      /\ code' = [code EXCEPT ![r.user] = 0]
      /\ accepted' = accepted \cup {r.code}
      /\ \/ codeRequest' = [codeRequest EXCEPT ![h].op = "verified"]
         \/ codeRequest' = [codeRequest EXCEPT ![h] = C!Idle]
  BY DEF C!Accept, C!Active, C!Busy, C!Ended
<1>2. /\ DOMAIN r = CodeEntries /\ r.user \in C!Addresses /\ r.code \in 1..lastCode
      /\ \A a \in C!Addresses \ {r.user} : code[a] # r.code
  BY <1>1 DEF CInv, ReadOf
<1>3. /\ code'[r.user] = 0
      /\ \A a \in C!Addresses \ {r.user} : code'[a] = code[a]
      /\ code' \in [C!Addresses -> 0..lastCode]
  BY <1>1, <1>2 DEF CInv
<1>4. DOMAIN codeRequest' = Handlers /\ \A g \in Handlers \ {h} : codeRequest'[g] = codeRequest[g]
  BY <1>1 DEF CInv
<1>5. codeRequest'[h] = C!Idle \/ (DOMAIN codeRequest'[h] = CodeEntries /\ codeRequest'[h].op = "verified")
  BY <1>1, <1>2 DEF CInv, CodeEntries
<1>6. codeRequest'[h] = C!Idle \/ ReadOf(codeRequest'[h], code', lastCode')
  BY <1>5 DEF ReadOf
<1>7. ASSUME NEW g \in Handlers \ {h}, codeRequest[g] # C!Idle
      PROVE  ReadOf(codeRequest[g], code', lastCode')
  <2>. DEFINE s == codeRequest[g]
  <2>1. ReadOf(s, code, lastCode)
    BY <1>7 DEF CInv
  <2>2. CASE s.op = "check"
    BY <1>1, <1>3, <2>1, <2>2 DEF ReadOf, CInv
  <2>3. CASE s.op # "check"
    BY <2>1, <2>3 DEF ReadOf
  <2>. QED
    BY <2>2, <2>3
<1>8. \A a \in C!Addresses : code'[a] \notin accepted'
  <2>1. 0 \notin accepted /\ r.code # 0
    BY <1>2 DEF CInv
  <2>. QED
    BY <1>1, <1>2, <1>3, <2>1 DEF CInv
<1>. QED
  BY <1>1, <1>2, <1>3, <1>4, <1>6, <1>7, <1>8 DEF CInv

\* A key expires, a customer sends a message.
LEMMA CodeOutsideStep ==
  ASSUME CInv, C!SendMessage \/ C!ExpireRate \/ C!ExpireCode
  PROVE  CInv'
<1>1. CASE C!SendMessage \/ C!ExpireRate
  BY <1>1 DEF CInv, ReadOf, C!SendMessage, C!ExpireRate
<1>2. CASE C!ExpireCode
  <2>1. PICK a \in C!Addresses : code' = [code EXCEPT ![a] = 0]
    BY <1>2 DEF C!ExpireCode
  <2>2. UNCHANGED <<lastCode, accepted, codeRequest>>
    BY <1>2 DEF C!ExpireCode
  <2>3. /\ code'[a] = 0 /\ \A b \in C!Addresses \ {a} : code'[b] = code[b]
        /\ code' \in [C!Addresses -> 0..lastCode]
    BY <2>1 DEF CInv
  <2>4. ASSUME NEW h \in Handlers, codeRequest[h] # C!Idle
        PROVE  ReadOf(codeRequest[h], code', lastCode')
    <3>1. ReadOf(codeRequest[h], code, lastCode)
      BY <2>4 DEF CInv
    <3>. QED
      BY <2>2, <2>3, <3>1 DEF ReadOf
  <2>5. 0 \notin accepted
    BY DEF CInv
  <2>. QED
    BY <2>2, <2>3, <2>4, <2>5 DEF CInv
<1>. QED
  BY <1>1, <1>2

\* What starts with a step is what was sent to it.
LEMMA ChecksReadTheCode ==
  ASSUME CInv, C!Next, NEW h \in Handlers,
         ~C!Active(h), codeRequest'[h] # C!Idle, codeRequest'[h].op = "check"
  PROVE  codeRequest'[h].code \notin accepted
<1>1. ASSUME NEW g \in Handlers, NEW r, C!Start(g, r), DOMAIN r = CodeEntries
      PROVE  g = h /\ r.op = codeRequest'[h].op /\ r.code = codeRequest'[h].code
  <2>1. codeRequest[g] = C!Idle /\ Started(Handlers, Idle, codeRequest, g, r, codeRequest')
    BY <1>1, CodeStarted
  <2>2. codeRequest[h] = Idle /\ codeRequest'[h] # Idle
    BY SameBooks DEF C!Active, C!Busy
  <2>3. g = h
    BY <2>1, <2>2 DEF Started
  <2>. QED
    BY <1>1, <2>1, <2>3 DEF CodeEntries, Started
<1>2. CASE \E g \in Handlers, a \in C!Addresses : C!Send(g, a)
  <2>1. PICK g \in Handlers, a \in C!Addresses : C!Start(g, C!Received("send", a, "none", 0))
    BY <1>2 DEF C!Send
  <2>2. DOMAIN C!Received("send", a, "none", 0) = CodeEntries
        /\ C!Received("send", a, "none", 0).op = "send"
    BY DEF C!Received, CodeEntries
  <2>. QED
    BY <1>1, <2>1, <2>2
<1>3. CASE \E g \in Handlers, a \in C!Addresses, who \in Visitors : C!Check(g, a, who, code[a])
  <2>1. PICK g \in Handlers, a \in C!Addresses, who \in Visitors :
           C!Start(g, C!Received("check", a, who, code[a]))
    BY <1>3 DEF C!Check
  <2>2. DOMAIN C!Received("check", a, who, code[a]) = CodeEntries
        /\ C!Received("check", a, who, code[a]).code = code[a]
    BY DEF C!Received, CodeEntries
  <2>3. codeRequest'[h].code = code[a]
    BY <1>1, <2>1, <2>2
  <2>. QED
    BY <2>3 DEF CInv
<1>4. CASE \E g \in Handlers : \/ C!StoreCode(g) \/ C!Show(g) \/ C!SendFails(g) \/ C!Die(g)
                               \/ C!Accept(g) \/ C!Refuse(g) \/ C!CommitPhone(g)
  <2>1. PICK g \in Handlers : \/ C!StoreCode(g) \/ C!Show(g) \/ C!SendFails(g) \/ C!Die(g)
                              \/ C!Accept(g) \/ C!Refuse(g) \/ C!CommitPhone(g)
    BY <1>4
  <2>2. C!Active(g)
    BY <2>1 DEF C!StoreCode, C!Show, C!SendFails, C!Die, C!Accept, C!Refuse, C!CommitPhone
  <2>3. g # h
    BY <2>2
  <2>4. \A k \in Handlers \ {g} : codeRequest'[k] = codeRequest[k]
    BY <2>1 DEF C!StoreCode, C!Show, C!SendFails, C!Die, C!Accept, C!Refuse, C!CommitPhone,
                C!Ended, CInv
  <2>5. codeRequest'[h] = C!Idle
    BY <2>3, <2>4 DEF C!Active, C!Busy
  <2>. QED
    BY <2>5
<1>5. CASE C!SendMessage \/ C!ExpireRate \/ C!ExpireCode
  BY <1>5 DEF C!SendMessage, C!ExpireRate, C!ExpireCode, C!Active, C!Busy
<1>. QED
  BY <1>2, <1>3, <1>4, <1>5 DEF C!Next

LEMMA CodeStays == CInv /\ [C!Next]_(C!vars) => CInv'
<1>1. ASSUME CInv, C!Next PROVE CInv'
  BY <1>1, CodeSendStep, CodeCheckStep, CodeStoreStep, CodeEndStep, CodeAcceptStep,
     CodeOutsideStep DEF C!Next
<1>2. ASSUME CInv, UNCHANGED C!vars PROVE CInv'
  BY <1>2 DEF CInv, ReadOf, C!vars
<1>. QED
  BY <1>1, <1>2

LEMMA CodeStarts == C!Init => CInv
BY DEF C!Init, CInv, ReadOf

-----------------------------------------------------------------------------
\* Request r is about to issue a code for address a.
Issues(r, a) == r # Idle /\ r.user = a /\ r.op \in {"send", "qr"}

\* The rate key admits one of them at a time, and stays for as long as it works; its
\* code is the last one drawn for the address.
Exclusive ==
    /\ \A h \in Handlers, a \in C!Addresses : Issues(codeRequest[h], a) => a \in rate
    /\ \A g, h \in Handlers, a \in C!Addresses :
          Issues(codeRequest[g], a) /\ Issues(codeRequest[h], a) => g = h
    /\ \A h \in Handlers : codeRequest[h] # Idle /\ codeRequest[h].op = "qr" =>
          drawn[codeRequest[h].user] = codeRequest[h].code
    /\ DOMAIN drawn = C!Addresses

Scannable ==
    \A p \in Mobiles \cap rate :
        \/ \E h \in Handlers : Issues(codeRequest[h], p)
        \/ drawn[p] \in shown \/ p \in orphaned

\* A message with an accepted code came from phone p.
Came(p) == \E c \in accepted : <<p, c>> \in sent

\* What is verified was sent, and from the phone that is verified.
Proved ==
    /\ \A h \in Handlers : codeRequest[h] # Idle /\ codeRequest[h].op = "verified" =>
          /\ codeRequest[h].code \in accepted
          /\ <<codeRequest[h].user, codeRequest[h].code>> \in sent
    /\ \A u \in Visitors : verified[u] # "none" => Came(verified[u])

KInv == Exclusive /\ Scannable /\ Proved

\* The fields of a request that KInv looks at.
Alike(s, t) == s # Idle /\ t # Idle /\ t.op = s.op /\ t.user = s.user /\ t.code = s.code

LEMMA CodeStartedAlike ==
  ASSUME CInv, NEW h \in Handlers, NEW r, DOMAIN r = CodeEntries, C!Start(h, r)
  PROVE  /\ codeRequest[h] = Idle /\ Alike(r, codeRequest'[h])
         /\ \A g \in Handlers \ {h} :
               \/ codeRequest[g] = Idle /\ codeRequest'[g] = Idle
               \/ Alike(codeRequest[g], codeRequest'[g])
<1>1. ASSUME NEW s, DOMAIN s = CodeEntries, NEW b
      PROVE  Alike(s, [s EXCEPT !.alone = b])
  BY <1>1 DEF CodeEntries, Alike, Idle
<1>2. codeRequest[h] = Idle /\ Started(Handlers, Idle, codeRequest, h, r, codeRequest')
  BY CodeStarted, SameBooks
<1>3. \A g \in Handlers : codeRequest[g] = Idle \/ DOMAIN codeRequest[g] = CodeEntries
  BY SameBooks DEF CInv, ReadOf
<1>4. \A s : DOMAIN s = CodeEntries => Alike(s, s)
  BY DEF CodeEntries, Alike, Idle
<1>. QED
  BY <1>1, <1>2, <1>3, <1>4 DEF Started

\* A request that starts issues nothing yet, or is the only one.
LEMMA LockStartStep ==
  ASSUME CInv, KInv, NEW h \in Handlers, NEW r, DOMAIN r = CodeEntries, C!Start(h, r),
         UNCHANGED <<drawn, shown, sent, accepted, orphaned, verified>>,
         \/ r.op = "check" /\ rate' = rate
         \/ r.op = "send" /\ r.user \notin rate /\ rate' = rate \cup {r.user}
  PROVE  KInv'
<1>1. /\ codeRequest[h] = Idle /\ Alike(r, codeRequest'[h])
      /\ \A g \in Handlers \ {h} :
            \/ codeRequest[g] = Idle /\ codeRequest'[g] = Idle
            \/ Alike(codeRequest[g], codeRequest'[g])
  BY CodeStartedAlike
<1>2. \A g \in Handlers \ {h} : \A a : Issues(codeRequest'[g], a) <=> Issues(codeRequest[g], a)
  BY <1>1 DEF Issues, Alike
<1>3. \A a : Issues(codeRequest'[h], a) <=> r.op = "send" /\ r.user = a
  BY <1>1 DEF Issues, Alike
<1>4. Exclusive'
  <2>1. \A a \in C!Addresses : Issues(codeRequest'[h], a) => a \notin rate
    BY <1>3
  <2>. QED
    BY <1>1, <1>2, <1>3, <2>1 DEF KInv, Exclusive, Alike
<1>5. Scannable'
  <2>. SUFFICES ASSUME NEW p \in Mobiles \cap rate'
                PROVE  \/ \E g \in Handlers : Issues(codeRequest'[g], p)
                       \/ drawn[p] \in shown \/ p \in orphaned
    BY DEF Scannable
  <2>1. CASE p \in rate
    <3>1. ~Issues(codeRequest[h], p)
      BY <1>1 DEF Issues
    <3>. QED
      BY <1>2, <2>1, <3>1 DEF KInv, Scannable
  <2>2. CASE p \notin rate
    BY <1>3, <2>2
  <2>. QED
    BY <2>1, <2>2
<1>6. Proved'
  BY <1>1 DEF KInv, Proved, Came, Alike
<1>. QED
  BY <1>4, <1>5, <1>6 DEF KInv

LEMMA LockReceiveStep ==
  ASSUME CInv, KInv, NEW h \in Handlers, NEW a \in C!Addresses,
         C!Send(h, a) \/ \E who \in Visitors : C!Check(h, a, who, code[a])
  PROVE  KInv'
<1>1. ASSUME NEW op, NEW who, NEW c
      PROVE  LET r == C!Received(op, a, who, c) IN
             DOMAIN r = CodeEntries /\ r.op = op /\ r.user = a
  BY DEF C!Received, CodeEntries
<1>2. CASE C!Send(h, a)
  BY <1>1, <1>2, LockStartStep DEF C!Send
<1>3. ASSUME NEW who, C!Check(h, a, who, code[a]) PROVE KInv'
  BY <1>1, <1>3, LockStartStep DEF C!Check
<1>. QED
  BY <1>2, <1>3

\* A step of one request, r before and s after, which leaves the others alone.
LEMMA OneRequest ==
  ASSUME CInv, NEW h \in Handlers, NEW s, codeRequest' = [codeRequest EXCEPT ![h] = s]
  PROVE  /\ codeRequest'[h] = s
         /\ \A g \in Handlers \ {h} : codeRequest'[g] = codeRequest[g]
BY DEF CInv

LEMMA LockStoreStep ==
  ASSUME CInv, KInv, NEW h \in Handlers, C!StoreCode(h)
  PROVE  KInv'
<1>. DEFINE r == codeRequest[h]
            new == lastCode + 1
            s == [r EXCEPT !.op = "qr", !.code = new]
<1>1. /\ r # Idle /\ r.op = "send"
      /\ drawn' = [drawn EXCEPT ![r.user] = new]
      /\ codeRequest' = [codeRequest EXCEPT ![h] = s]
      /\ UNCHANGED <<rate, shown, sent, accepted, orphaned, verified>>
  BY SameBooks DEF C!StoreCode, C!Active, C!Busy
<1>2. DOMAIN r = CodeEntries /\ r.user \in C!Addresses /\ DOMAIN drawn = C!Addresses
  BY <1>1, SameBooks DEF CInv, ReadOf, KInv, Exclusive
<1>3. s # Idle /\ s.op = "qr" /\ s.user = r.user /\ s.code = new
  BY <1>2 DEF CodeEntries, Idle
<1>4. /\ drawn'[r.user] = new /\ DOMAIN drawn' = C!Addresses
      /\ \A a \in C!Addresses \ {r.user} : drawn'[a] = drawn[a]
  BY <1>1, <1>2
<1>. HIDE DEF s
<1>5. codeRequest'[h] = s /\ \A g \in Handlers \ {h} : codeRequest'[g] = codeRequest[g]
  BY <1>1, OneRequest
<1>6. \A g \in Handlers, a \in C!Addresses : Issues(codeRequest'[g], a) <=> Issues(codeRequest[g], a)
  BY <1>1, <1>3, <1>5 DEF Issues
<1>7. ASSUME NEW g \in Handlers, codeRequest'[g] # Idle, codeRequest'[g].op = "qr"
      PROVE  drawn'[codeRequest'[g].user] = codeRequest'[g].code
  <2>1. CASE g = h
    BY <1>3, <1>4, <1>5, <2>1
  <2>2. CASE g # h
    <3>1. codeRequest[g].user \in C!Addresses
      BY <1>5, <1>7, <2>2, SameBooks DEF CInv, ReadOf
    <3>2. codeRequest[g].user # r.user
      BY <1>1, <1>2, <1>5, <1>7, <2>2 DEF KInv, Exclusive, Issues
    <3>. QED
      BY <1>4, <1>5, <1>7, <2>2, <3>1, <3>2 DEF KInv, Exclusive
  <2>. QED
    BY <2>1, <2>2
<1>8. Exclusive'
  <2>1. \A g \in Handlers, a \in C!Addresses : Issues(codeRequest'[g], a) => a \in rate'
    BY <1>1, <1>6 DEF KInv, Exclusive
  <2>2. \A f, g \in Handlers, a \in C!Addresses :
           Issues(codeRequest'[f], a) /\ Issues(codeRequest'[g], a) => f = g
    BY <1>6 DEF KInv, Exclusive
  <2>. QED
    BY <1>4, <1>7, <2>1, <2>2 DEF Exclusive
<1>9. Scannable'
  <2>. SUFFICES ASSUME NEW p \in Mobiles, p \in rate'
                PROVE  \/ \E g \in Handlers : Issues(codeRequest'[g], p)
                       \/ drawn'[p] \in shown \/ p \in orphaned
    BY <1>1 DEF Scannable
  <2>0. p \in C!Addresses
    BY DEF C!Addresses
  <2>1. CASE p = r.user
    BY <1>1, <1>6, <2>0, <2>1 DEF Issues
  <2>2. CASE p # r.user
    BY <1>1, <1>4, <1>6, <2>0, <2>2 DEF KInv, Scannable
  <2>. QED
    BY <2>1, <2>2
<1>10. Proved'
  BY <1>1, <1>3, <1>5 DEF KInv, Proved, Came
<1>. QED
  BY <1>8, <1>9, <1>10 DEF KInv

\* A request ends, or goes on as one that issues nothing: its address can be
\* unlocked or orphaned, its code shown, a code accepted by it.
LEMMA LockEndStep ==
  ASSUME CInv, KInv, NEW h \in Handlers, NEW s, s = Idle \/ s.op \notin {"send", "qr"},
         codeRequest[h] # Idle, codeRequest' = [codeRequest EXCEPT ![h] = s],
         drawn' = drawn,
         \/ rate' = rate
         \/ codeRequest[h].op \in {"send", "qr"} /\ rate' = rate \ {codeRequest[h].user},
         codeRequest[h].op \in {"send", "qr"} /\ codeRequest[h].user \in Mobiles \cap rate' =>
            drawn[codeRequest[h].user] \in shown' \/ codeRequest[h].user \in orphaned',
         shown \subseteq shown', orphaned \subseteq orphaned', Proved'
  PROVE  KInv'
<1>. DEFINE r == codeRequest[h]
<1>1. codeRequest'[h] = s /\ \A g \in Handlers \ {h} : codeRequest'[g] = codeRequest[g]
  BY OneRequest
<1>2. \A a : ~Issues(s, a)
  BY DEF Issues
<1>3. \A g \in Handlers : codeRequest[g] # Idle /\ codeRequest[g].op \in {"send", "qr"} =>
         codeRequest[g].user \in C!Addresses
  BY SameBooks DEF CInv, ReadOf
<1>4. Exclusive'
  <2>1. ASSUME NEW g \in Handlers, NEW a \in C!Addresses, Issues(codeRequest'[g], a)
        PROVE  a \in rate'
    <3>1. g # h /\ Issues(codeRequest[g], a)
      BY <1>1, <1>2, <2>1
    <3>2. a \in rate
      BY <3>1 DEF KInv, Exclusive
    <3>3. CASE r.op \in {"send", "qr"} /\ rate' = rate \ {r.user}
      <4>1. a # r.user
        BY <3>1, <3>3 DEF KInv, Exclusive, Issues
      <4>. QED
        BY <3>2, <3>3, <4>1
    <3>. QED
      BY <3>2, <3>3
  <2>2. ASSUME NEW f \in Handlers, NEW g \in Handlers, NEW a \in C!Addresses,
               Issues(codeRequest'[f], a), Issues(codeRequest'[g], a)
        PROVE  f = g
    BY <1>1, <1>2, <2>2 DEF KInv, Exclusive
  <2>3. ASSUME NEW g \in Handlers, codeRequest'[g] # Idle, codeRequest'[g].op = "qr"
        PROVE  drawn'[codeRequest'[g].user] = codeRequest'[g].code
    <3>1. g # h /\ codeRequest'[g] = codeRequest[g]
      BY <1>1, <2>3
    <3>. QED
      BY <1>3, <2>3, <3>1 DEF KInv, Exclusive
  <2>. QED
    BY <2>1, <2>2, <2>3 DEF KInv, Exclusive
<1>5. Scannable'
  <2>. SUFFICES ASSUME NEW p \in Mobiles, p \in rate'
                PROVE  \/ \E g \in Handlers : Issues(codeRequest'[g], p)
                       \/ drawn[p] \in shown' \/ p \in orphaned'
    BY DEF Scannable
  <2>1. p \in C!Addresses /\ p \in rate
    BY DEF C!Addresses
  <2>2. CASE Issues(r, p)
    BY <2>2 DEF Issues
  <2>3. CASE \E g \in Handlers \ {h} : Issues(codeRequest[g], p)
    BY <1>1, <2>3
  <2>4. CASE drawn[p] \in shown \/ p \in orphaned
    BY <2>4
  <2>. QED
    BY <2>1, <2>2, <2>3, <2>4 DEF KInv, Scannable
<1>. QED
  BY <1>4, <1>5 DEF KInv

LEMMA LockShowStep ==
  ASSUME CInv, KInv, NEW h \in Handlers, C!Show(h) \/ C!SendFails(h) \/ C!Die(h)
  PROVE  KInv'
<1>. DEFINE r == codeRequest[h]
<1>1. /\ r # Idle /\ codeRequest' = [codeRequest EXCEPT ![h] = Idle]
      /\ UNCHANGED <<drawn, sent, accepted, verified>>
  BY SameBooks DEF C!Show, C!SendFails, C!Die, C!Active, C!Busy, C!Ended
<1>2. \A g \in Handlers : codeRequest'[g] \in {codeRequest[g], Idle}
  BY <1>1 DEF CInv
<1>3. Proved'
  BY <1>1, <1>2 DEF KInv, Proved, Came
<1>4. CASE C!Show(h)
  <2>1. drawn[r.user] = r.code /\ shown' = shown \cup {r.code} /\ UNCHANGED <<rate, orphaned>>
    BY <1>1, <1>4 DEF C!Show, KInv, Exclusive
  <2>. QED
    BY <1>1, <1>3, <2>1, LockEndStep
<1>5. CASE C!SendFails(h)
  <2>1. /\ r.op \in {"send", "qr"} /\ rate' = rate \ ({r.user} \cap Mobiles)
        /\ UNCHANGED <<shown, orphaned>>
    BY <1>5 DEF C!SendFails
  <2>2. CASE r.user \in Mobiles
    <3>1. rate' = rate \ {r.user}
      BY <2>1, <2>2
    <3>. QED
      BY <1>1, <1>3, <2>1, <3>1, LockEndStep
  <2>3. CASE r.user \notin Mobiles
    <3>1. rate' = rate
      BY <2>1, <2>3
    <3>. QED
      BY <1>1, <1>3, <2>1, <2>3, <3>1, LockEndStep
  <2>. QED
    BY <2>2, <2>3
<1>6. CASE C!Die(h)
  <2>1. /\ orphaned' = orphaned \cup {a \in C!Addresses : h \in C!Issuing(a)}
        /\ UNCHANGED <<rate, shown>>
    BY <1>6 DEF C!Die
  <2>2. r.op \in {"send", "qr"} /\ r.user \in Mobiles => r.user \in orphaned'
    BY <1>1, <2>1, SameBooks DEF C!Issuing, C!Addresses, Busy
  <2>. QED
    BY <1>1, <1>3, <2>1, <2>2, LockEndStep
<1>. QED
  BY <1>4, <1>5, <1>6

LEMMA LockAcceptStep ==
  ASSUME CInv, KInv, NEW h \in Handlers, C!Accept(h) \/ C!Refuse(h) \/ C!CommitPhone(h)
  PROVE  KInv'
<1>. DEFINE r == codeRequest[h]
            s == [r EXCEPT !.op = "verified"]
<1>1. /\ r # Idle /\ r.op \in {"check", "verified"}
      /\ UNCHANGED <<rate, drawn, shown, sent, orphaned>>
  BY SameBooks DEF C!Accept, C!Refuse, C!CommitPhone, C!Active, C!Busy
<1>2. DOMAIN r = CodeEntries
  BY <1>1, SameBooks DEF CInv, ReadOf
<1>3. s.op = "verified" /\ s.user = r.user /\ s.code = r.code
  BY <1>2 DEF CodeEntries
<1>4. CASE C!Refuse(h) \/ C!CommitPhone(h)
  <2>1. codeRequest' = [codeRequest EXCEPT ![h] = Idle] /\ UNCHANGED accepted
    BY <1>4, SameBooks DEF C!Refuse, C!CommitPhone, C!Ended
  <2>2. \A g \in Handlers : codeRequest'[g] \in {codeRequest[g], Idle}
    BY <2>1 DEF CInv
  <2>3. ASSUME NEW u \in Visitors, verified'[u] # "none" PROVE Came(verified'[u])
    <3>1. CASE verified' = verified
      BY <2>3, <3>1 DEF KInv, Proved
    <3>2. CASE C!CommitPhone(h)
      <4>1. Came(r.user) /\ verified' = [verified EXCEPT ![r.who] = r.user]
        BY <1>1, <3>2 DEF C!CommitPhone, KInv, Proved, Came
      <4>2. verified'[u] \in {verified[u], r.user}
        BY <4>1
      <4>. QED
        BY <2>3, <4>1, <4>2 DEF KInv, Proved
    <3>. QED
      BY <1>4, <3>1, <3>2 DEF C!Refuse
  <2>4. \A u \in Visitors : verified'[u] # "none" =>
           \E c \in accepted' : <<verified'[u], c>> \in sent'
    BY <1>1, <2>1, <2>3 DEF Came
  <2>5. Proved'
    BY <1>1, <2>1, <2>2, <2>4 DEF KInv, Proved, Came
  <2>. QED
    BY <1>1, <2>1, <2>5, LockEndStep
<1>5. CASE C!Accept(h)
  <2>1. /\ r.op = "check" /\ accepted' = accepted \cup {r.code} /\ verified' = verified
        /\ \/ <<r.user, r.code>> \in sent /\ codeRequest' = [codeRequest EXCEPT ![h] = s]
           \/ codeRequest' = [codeRequest EXCEPT ![h] = Idle]
    BY <1>5, SameBooks DEF C!Accept, C!Ended
  <2>2. \A g \in Handlers \ {h} : codeRequest'[g] = codeRequest[g]
    BY <2>1 DEF CInv
  <2>3. codeRequest'[h] = Idle \/ (<<r.user, r.code>> \in sent /\ codeRequest'[h] = s)
    BY <2>1 DEF CInv
  <2>. HIDE DEF s
  <2>4. Proved'
    BY <1>1, <1>3, <2>1, <2>2, <2>3 DEF KInv, Proved, Came
  <2>5. CASE codeRequest' = [codeRequest EXCEPT ![h] = Idle]
    BY <1>1, <2>1, <2>4, <2>5, LockEndStep
  <2>6. CASE codeRequest' = [codeRequest EXCEPT ![h] = s]
    BY <1>1, <1>3, <2>1, <2>4, <2>6, LockEndStep
  <2>. QED
    BY <2>1, <2>5, <2>6
<1>. QED
  BY <1>4, <1>5

LEMMA LockOutsideStep ==
  ASSUME CInv, KInv, C!SendMessage \/ C!ExpireRate \/ C!ExpireCode
  PROVE  KInv'
<1>0. \A a : C!Issuing(a) = {h \in Handlers : Issues(codeRequest[h], a)}
  BY SameBooks DEF C!Issuing, Issues, Busy
<1>1. \A h \in Handlers : codeRequest[h] # Idle /\ codeRequest[h].op \in {"send", "qr"} =>
         codeRequest[h].user \in C!Addresses
  BY SameBooks DEF CInv, ReadOf
<1>2. CASE C!SendMessage
  <2>1. sent \subseteq sent'
        /\ UNCHANGED <<rate, drawn, shown, accepted, orphaned, verified, codeRequest>>
    BY <1>2 DEF C!SendMessage
  <2>2. Exclusive' /\ Scannable'
    BY <2>1 DEF KInv, Exclusive, Scannable
  <2>3. Proved'
    BY <2>1 DEF KInv, Proved, Came
  <2>. QED
    BY <2>2, <2>3 DEF KInv
<1>3. CASE C!ExpireRate
  <2>1. PICK a \in rate : /\ C!Issuing(a) = {} /\ rate' = rate \ {a}
                          /\ orphaned' = orphaned \ {a}
    BY <1>3 DEF C!ExpireRate
  <2>2. UNCHANGED <<drawn, shown, sent, accepted, verified, codeRequest>>
    BY <1>3 DEF C!ExpireRate
  <2>3. \A h \in Handlers : ~Issues(codeRequest[h], a)
    BY <1>0, <2>1
  <2>4. Exclusive'
    BY <2>1, <2>2, <2>3 DEF KInv, Exclusive
  <2>5. Scannable' /\ Proved'
    BY <2>1, <2>2 DEF KInv, Scannable, Proved, Came
  <2>. QED
    BY <2>4, <2>5 DEF KInv
<1>4. CASE C!ExpireCode
  <2>1. UNCHANGED <<rate, drawn, shown, sent, accepted, orphaned, verified, codeRequest>>
    BY <1>4 DEF C!ExpireCode
  <2>. QED
    BY <2>1 DEF KInv, Exclusive, Scannable, Proved, Came
<1>. QED
  BY <1>2, <1>3, <1>4

LEMMA LocksStay == CInv /\ KInv /\ [C!Next]_(C!vars) => KInv'
<1>1. ASSUME CInv, KInv, C!Next PROVE KInv'
  BY <1>1, LockReceiveStep, LockStoreStep, LockShowStep, LockAcceptStep, LockOutsideStep
  DEF C!Next
<1>2. ASSUME KInv, UNCHANGED C!vars PROVE KInv'
  BY <1>2 DEF KInv, Exclusive, Scannable, Proved, Came, C!vars
<1>. QED
  BY <1>1, <1>2

LEMMA LocksStart == C!Init => KInv
  BY SameBooks DEF C!Init, KInv, Exclusive, Scannable, Proved, Came, Issues

-----------------------------------------------------------------------------
\* What the steps of the accounts and of the browser do to the codes is nothing.
LEMMA OnlyCodes == IdentitySpec => C!Spec
<1>1. IdentityInit => C!Init
  BY DEF IdentityInit
<1>2. [IdentityNext]_identityVars => [C!Next]_(C!vars)
  BY DEF IdentityNext, AccountStep, CodeStep, SessionStep, identityVars, Redis, C!vars
<1>. QED
  BY <1>1, <1>2, PTL DEF IdentitySpec, C!Spec

\* However requests interleave and keys expire, no request that begins after a
\* code was accepted reads that code (auth_service.py:145).
THEOREM AcceptedStaysDead == IdentitySpec => AcceptedIsDead
<1>1. CInv /\ [C!Next]_(C!vars) =>
         [\A h \in Handlers :
             ~C!Active(h) /\ codeRequest'[h] # C!Idle /\ codeRequest'[h].op = "check" =>
                 codeRequest'[h].code \notin accepted]_(C!vars)
  BY ChecksReadTheCode
<1>2. C!Spec => C!AcceptedIsDead
  BY <1>1, CodeStarts, CodeStays, PTL DEF C!Spec, C!AcceptedIsDead
<1>. QED
  BY <1>2, OnlyCodes DEF AcceptedIsDead

\* A phone that is locked has its newest code shown, or soon has, unless a worker died
\* over it, however sending and verifying fail (user_service.py:114).
THEOREM LocksAreScannable == IdentitySpec => []LockMeansShown
<1>1. KInv => LockMeansShown
  BY SameBooks DEF KInv, Scannable, LockMeansShown, C!LockMeansShown, C!Issuing, Issues, Busy
<1>. QED
  BY <1>1, CodeStarts, CodeStays, LocksStart, LocksStay, OnlyCodes, PTL DEF C!Spec

LEMMA OneIsIssued == KInv => C!OneCodePerWindow
<1>. SUFFICES ASSUME KInv, NEW a \in C!Addresses, NEW g \in C!Issuing(a), NEW h \in C!Issuing(a)
              PROVE  g = h
  BY DEF C!OneCodePerWindow
<1>1. C!Issuing(a) = {k \in Handlers : Issues(codeRequest[k], a)}
  BY SameBooks DEF C!Issuing, Issues, Busy
<1>. QED
  BY <1>1 DEF KInv, Exclusive

\* No two users share a login id or an address as spelled, however many sign up at
\* once; one code per address is on its way, however many tabs ask for it; and whoever
\* has verified a phone, a message with an accepted code came from that phone
\* (auth_service.py:130, octomo.py:53).
THEOREM AccountsAreTyped == IdentitySpec => []AccountsTypeOK
<1>1. AInv /\ SInv => TypeOK
  BY DEF AInv, SInv, TypeOK, WellFormed, Distinct, SocialsOwned
<1>2. KInv => C!VerifiedWasProved
  BY SameBooks DEF KInv, Proved, Came, C!VerifiedWasProved, Busy
<1>3. AInv /\ SInv /\ KInv => AccountsTypeOK
  BY <1>1, <1>2, OneIsIssued DEF AccountsTypeOK
<1>4. AInv /\ [Next]_vars => AInv'
  BY EveryStep
<1>. QED
  BY <1>3, <1>4, AccountsStart, SoundAtFirst, SoundStep, OnlyAccounts,
     CodeStarts, CodeStays, LocksStart, LocksStay, OnlyCodes, PTL DEF Spec, C!Spec

-----------------------------------------------------------------------------
\* Whoever was seen has a token and a cookie for ExpireDays from then on.
Seen ==
    /\ today \in 1..MaxDay
    /\ lastSeen # S!Never =>
          /\ lastSeen \in Nat
          /\ cookie.exp \in Nat /\ cookie.until \in Nat
          /\ lastSeen + ExpireDays <= cookie.exp
          /\ lastSeen + ExpireDays <= cookie.until

\* The cookie lives as long as its token: who comes back in time gets in
\* (auth_service.py:276).
THEOREM ComesBackInTime == IdentitySpec => []StaysSignedIn
<1>1. IdentityInit => S!Init
  BY DEF IdentityInit
<1>2. [IdentityNext]_identityVars => [S!Next]_(S!vars)
  BY DEF IdentityNext, AccountStep, CodeStep, SessionStep, identityVars, Browser, S!vars
<1>3. S!Init => Seen
  BY DaysAssumption DEF S!Init, Seen, S!Never
<1>4. Seen /\ [S!Next]_(S!vars) => Seen'
  <2>. SUFFICES ASSUME Seen, [S!Next]_(S!vars) PROVE Seen'
    OBVIOUS
  <2>. USE DaysAssumption
  <2>1. ASSUME NEW days \in {ExpireDays, RememberDays}, S!Issue(days, days) PROVE Seen'
    <3>1. /\ cookie'.exp = today + days /\ cookie'.until = today + days
          /\ lastSeen' = today /\ today' = today
      BY <2>1 DEF S!Issue
    <3>. QED
      BY <3>1 DEF Seen, S!Never
  <2>2. CASE S!SocialCallback \/ S!Refresh \/ \E remember \in BOOLEAN : S!SignIn(remember)
    BY <2>1, <2>2 DEF S!SocialCallback, S!Refresh, S!SignIn, S!RefreshDays
  <2>3. CASE S!SignOut
    BY <2>3 DEF S!SignOut, Seen, S!Never
  <2>4. CASE S!Midnight \/ S!RowChanges \/ UNCHANGED S!vars
    BY <2>4 DEF S!Midnight, S!RowChanges, S!vars, Seen, S!Never
  <2>. QED
    BY <2>2, <2>3, <2>4 DEF S!Next
<1>5. Seen => StaysSignedIn
  BY DaysAssumption DEF Seen, StaysSignedIn, S!StaysSignedIn, S!Presented
<1>. QED
  BY <1>1, <1>2, <1>3, <1>4, <1>5, PTL DEF IdentitySpec
=============================================================================
