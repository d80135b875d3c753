------------------------------ MODULE Requests ------------------------------
(***************************************************************************)
(* Requests being served: each handler works on one at a time, a record    *)
(* with at least the fields op, user and alone.  What the modules that use *)
(* this one share is the bookkeeping of which requests of a user overlap.  *)
(***************************************************************************)
CONSTANTS Handlers

Idle == [op |-> "none"]

Busy(request) == {h \in Handlers : request[h] # Idle}

\* Handler h starts on r (FastAPI opens its session with db_session): requests
\* of the same user that are under way overlap with it from here on.
Begun(request, h, r) ==
    LET others == {g \in Busy(request) : request[g].user = r.user} IN
    [g \in Handlers |->
        CASE g = h -> [r EXCEPT !.alone = (others = {})]
          [] g \in others -> [request[g] EXCEPT !.alone = FALSE]
          [] OTHER -> request[g]]

\* A request of user u that is served in one statement overlaps with the others.
Overlapped(request, u) ==
    [g \in Handlers |->
        IF g \in Busy(request) /\ request[g].user = u THEN [request[g] EXCEPT !.alone = FALSE]
        ELSE request[g]]

Ended(request, h) == [request EXCEPT ![h] = Idle]
=============================================================================
