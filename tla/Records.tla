------------------------------ MODULE Records ------------------------------
(***************************************************************************)
(* Rows the console edits one at a time: notices and FAQs (app/help),      *)
(* categories, products and product images (app/catalog), and the profile  *)
(* of a user.  They share one form of code: POST inserts, PATCH reads the  *)
(* row, assigns the fields the body names and commits, DELETE reads and    *)
(* deletes.  The commit writes only the columns that differ from what was  *)
(* read; an UPDATE of a row that is gone, and a second row with the id of a*)
(* category, end the request with an error.                                *)
(***************************************************************************)
EXTENDS Naturals, FiniteSets, Requests

CONSTANTS
    Ids,        \* ids of the rows
    Fields,     \* columns of a row
    Values      \* what a column can hold

VARIABLES
    record,     \* id -> field -> value, partial
    request

vars == <<record, request>>

Active(h) == h \in Busy(request)

Init ==
    /\ record = <<>>
    /\ request = [h \in Handlers |-> Idle]

\* changes: the fields the body names; user: requests on the same id overlap.
Received(op, id, read, changes) ==
    [op |-> op, user |-> id, read |-> read, changes |-> changes, alone |-> TRUE]

Start(h, r) ==
    /\ ~Active(h)
    /\ request' = Begun(request, h, r)
    /\ UNCHANGED record

Bodies == UNION {[F -> Values] : F \in SUBSET Fields \ {{}}}

\* create_category has found no such id.
Create(h, id) ==
    /\ id \notin DOMAIN record
    /\ \E b \in [Fields -> Values] : Start(h, Received("create", id, b, b))

Update(h, id) ==
    /\ id \in DOMAIN record
    /\ \E b \in Bodies : Start(h, Received("update", id, record[id], b))

Delete(h, id) ==
    /\ id \in DOMAIN record
    /\ Start(h, Received("delete", id, record[id], record[id]))

\* Variant: the whole row is written as it was read.
Written_WholeRow(r, row) ==
    [f \in Fields |-> IF f \in DOMAIN r.changes THEN r.changes[f] ELSE r.read[f]]

Written(r, row) ==
    [f \in Fields |->
        IF f \in DOMAIN r.changes /\ r.changes[f] # r.read[f] THEN r.changes[f] ELSE row[f]]

CommitCreate(r) ==
    record' = IF r.user \in DOMAIN record THEN record
              ELSE [i \in DOMAIN record \cup {r.user} |->
                       IF i = r.user THEN r.changes ELSE record[i]]

CommitUpdate(r) ==
    record' = IF r.user \notin DOMAIN record THEN record
              ELSE [record EXCEPT ![r.user] = Written(r, @)]

CommitDelete(r) == record' = [i \in DOMAIN record \ {r.user} |-> record[i]]

Commit(h) ==
    LET r == request[h] IN
    /\ Active(h)
    /\ \/ r.op = "create" /\ CommitCreate(r)
       \/ r.op = "update" /\ CommitUpdate(r)
       \/ r.op = "delete" /\ CommitDelete(r)
    /\ request' = Ended(request, h)

Next ==
    \E h \in Handlers :
        \/ \E id \in Ids : Create(h, id) \/ Update(h, id) \/ Delete(h, id)
        \/ Commit(h)

Spec == Init /\ [][Next]_vars

-----------------------------------------------------------------------------
\* Two admins who edit different fields of one row do not undo each other's
\* change: a PATCH changes no field its body does not name, and the second of two
\* requests to register a category (admin_catalog_service.py:131) changes nothing.
UnnamedFieldsStay ==
    [][\A h \in Handlers :
          LET r == request[h] IN
          Active(h) /\ r.op \in {"create", "update"} /\ request'[h] = Idle =>
              \A id \in DOMAIN record : \A f \in Fields :
                  r.op = "create" \/ id # r.user \/ f \notin DOMAIN r.changes =>
                      id \in DOMAIN record' /\ record'[id][f] = record[id][f]]_vars
=============================================================================
