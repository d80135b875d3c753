----------------------------- MODULE Addresses -----------------------------
(***************************************************************************)
(* The address book (app/address).  A request is one transaction at READ   *)
(* COMMITTED: it counts or looks up, then UPDATE ... SET is_default = false*)
(* for all of the user's defaults, then writes its own row and commits.    *)
(* The statements of two requests interleave; a row written by one waits   *)
(* for the transaction that has written it before.                         *)
(*                                                                         *)
(* Recipient, phone, postcode and the other texts are data no property     *)
(* tells apart; requests the schemas refuse never reach the service.       *)
(***************************************************************************)
EXTENDS Naturals, FiniteSets, Requests

CONSTANTS
    Users,
    MaxAddresses,   \* MAX_ADDRESSES_PER_USER, 10 in the code
    MaxId           \* bound: addresses ever created

VARIABLES
    rows,       \* committed rows: id -> [user, is_default]
    lastId,     \* the identity column
    request     \* the request each handler serves

vars == <<rows, lastId, request>>

\* What a request writes to is_default; "keep" does not name the field.
Settings == {"on", "off", "keep"}

Active(h) == h \in Busy(request)
Of(u) == {i \in DOMAIN rows : rows[i].user = u}
Defaults(u) == {i \in Of(u) : rows[i].is_default}

Init ==
    /\ rows = <<>>
    /\ lastId = 0
    /\ request = [h \in Handlers |-> Idle]

Start(h, r) ==
    /\ ~Active(h)
    /\ request' = Begun(request, h, r)
    /\ UNCHANGED <<rows, lastId>>

Received(op, u, id, set) ==
    [op |-> op, user |-> u, id |-> id, set |-> set, aim |-> {}, holds |-> {},
     at |-> IF set = "on" THEN "clear" ELSE "write", alone |-> TRUE]

\* create_address has counted the rows.
StartCreate(h, u) ==
    /\ Cardinality(Of(u)) < MaxAddresses
    /\ \E set \in {"on", "off"} : Start(h, Received("create", u, 0, set))

\* update_address has read its row.  SQLAlchemy leaves an unchanged is_default
\* out of the UPDATE, but clear_default has changed the one it has read.
StartUpdate(h, u) ==
    \E id \in Of(u), set \in Settings :
        Start(h, Received("update", u, id,
                          IF set = "off" /\ ~rows[id].is_default THEN "keep" ELSE set))

StartDelete(h, u) == \E id \in Of(u) : Start(h, Received("delete", u, id, "keep"))

Held(h) == UNION {request[g].holds : g \in {k \in Handlers \ {h} : Active(k)}}

Aim(h) == Defaults(request[h].user)

\* The UPDATE of clear_default finds its rows; it may have to wait for them.
StartClear(h) ==
    /\ Active(h) /\ request[h].at = "clear"
    /\ request' = [request EXCEPT ![h].at = "clearing", ![h].aim = Aim(h)]
    /\ UNCHANGED <<rows, lastId>>

\* It has them, and looks again at those that changed meanwhile.
ClearDefault(h) ==
    LET r == request[h] IN
    /\ Active(h) /\ r.at = "clearing"
    /\ r.aim \cap Held(h) = {}
    /\ request' = [request EXCEPT
           ![h].at = "write",
           ![h].holds = {i \in r.aim \cap DOMAIN rows : rows[i].is_default}]
    /\ UNCHANGED <<rows, lastId>>

\* Variant: only one default is cleared.
Cleared_First(r) ==
    IF r.holds = {} THEN rows
    ELSE LET first == CHOOSE i \in r.holds : \A j \in r.holds : i <= j
         IN [rows EXCEPT ![first].is_default = FALSE]

Cleared(r) == [i \in DOMAIN rows |->
                  IF i \in r.holds THEN [rows[i] EXCEPT !.is_default = FALSE] ELSE rows[i]]

Done(h) == request' = Ended(request, h)

\* The INSERT and the commit.
CommitCreate(h) ==
    LET r == request[h] IN
    /\ Active(h) /\ r.op = "create" /\ r.at = "write"
    /\ lastId < MaxId
    /\ lastId' = lastId + 1
    /\ rows' = [i \in DOMAIN rows \cup {lastId'} |->
                   IF i = lastId' THEN [user |-> r.user, is_default |-> r.set = "on"]
                   ELSE Cleared(r)[i]]
    /\ Done(h)

\* The UPDATE at the commit waits for the row; if it is gone, SQLAlchemy raises
\* StaleDataError and the transaction, with its clear_default, is rolled back.
CommitUpdate(h) ==
    LET r == request[h] IN
    /\ Active(h) /\ r.op = "update" /\ r.at = "write"
    /\ r.id \notin Held(h)
    /\ rows' = IF r.id \notin DOMAIN rows THEN rows
               ELSE IF r.set = "keep" THEN Cleared(r)
               ELSE [Cleared(r) EXCEPT ![r.id].is_default = (r.set = "on")]
    /\ Done(h)
    /\ UNCHANGED lastId

\* Deleting a row that is gone already is not an error.
CommitDelete(h) ==
    LET r == request[h] IN
    /\ Active(h) /\ r.op = "delete"
    /\ r.id \notin Held(h)
    /\ rows' = [i \in DOMAIN rows \ {r.id} |-> rows[i]]
    /\ Done(h)
    /\ UNCHANGED lastId

Next ==
    \E h \in Handlers :
        \/ \E u \in Users : StartCreate(h, u) \/ StartUpdate(h, u) \/ StartDelete(h, u)
        \/ StartClear(h) \/ ClearDefault(h)
        \/ CommitCreate(h) \/ CommitUpdate(h) \/ CommitDelete(h)

Spec == Init /\ [][Next]_vars

-----------------------------------------------------------------------------
\* The address book is well formed.
TypeOK ==
    /\ DOMAIN rows \subseteq 1..lastId /\ lastId \in 0..MaxId
    /\ \A i \in DOMAIN rows : rows[i].user \in Users /\ rows[i].is_default \in BOOLEAN
    /\ \A h \in Handlers : Active(h) =>
           /\ request[h].set \in Settings /\ request[h].at \in {"clear", "clearing", "write"}
           /\ request[h].holds \cap Held(h) = {}

\* Requests that counted the same rows exceed the limit, but by no more than the
\* requests that overlap (address_service.py:21).
LimitPlusRaces ==
    \A u \in Users : Cardinality(Of(u)) < MaxAddresses + Cardinality(Handlers)

\* However many defaults earlier races left, a request for the default that no
\* other request of its user overlaps leaves its row as the only one.
LoneDefaultHeals ==
    [][\A h \in Handlers :
          /\ Active(h) /\ request'[h] = Idle
          /\ request[h].set = "on" /\ request[h].alone
          => Cardinality({i \in DOMAIN rows' :
                 rows'[i].user = request[h].user /\ rows'[i].is_default}) = 1]_vars

\* A user has one default address at most (address/models.py:71).
OneDefault == \A u \in Users : Cardinality(Defaults(u)) <= 1
=============================================================================
