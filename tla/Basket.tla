------------------------------- MODULE Basket -------------------------------
(***************************************************************************)
(* Cart and favorites (app/cart, app/favorites).  A request reads (the row,*)
(* the product), decides, and writes with its commit; between the two other*)
(* requests of the same user and the shop's stock go on.  The database     *)
(* refuses a second cart row or favorite for the same user and product,    *)
(* and SQLAlchemy an update of a row that is gone: the request then ends   *)
(* with an error and changes nothing.                                      *)
(***************************************************************************)
EXTENDS Naturals, FiniteSets, Requests

CONSTANTS
    Users,
    Products,
    Quantities,   \* what one request may ask for, 1..10 in the code
    MaxStock,     \* bound: largest stock
    MaxId         \* bound: cart rows ever inserted

VARIABLES
    cart,         \* cart_items: id -> [user, product, quantity]
    lastId,
    favorites,    \* pairs <<user, product>>
    product,      \* product -> [active, stock]
    request

vars == <<cart, lastId, favorites, product, request>>

Active(h) == h \in Busy(request)
Lines(u, p) == {i \in DOMAIN cart : cart[i].user = u /\ cart[i].product = p}

Init ==
    /\ cart = <<>> /\ lastId = 0
    /\ favorites = {}
    /\ product \in [Products -> [active : {TRUE}, stock : 0..MaxStock]]
    /\ request = [h \in Handlers |-> Idle]

\* id 0: no row yet.  quantity is what will be written.
Received(op, u, p, id, asked, quantity) ==
    [op |-> op, user |-> u, product |-> p, id |-> id, asked |-> asked,
     quantity |-> quantity, alone |-> TRUE]

Start(h, r) ==
    /\ ~Active(h)
    /\ request' = Begun(request, h, r)
    /\ UNCHANGED <<cart, lastId, favorites, product>>

Held(u, p) == IF Lines(u, p) = {} THEN 0
              ELSE LET i == CHOOSE i \in Lines(u, p) : TRUE IN cart[i].quantity

\* Variant: the quantity is replaced, not added to.
AddItem_Replaces(h, u, p, q) ==
    /\ product[p].active /\ q <= product[p].stock
    /\ Start(h, Received("add", u, p,
             IF Lines(u, p) = {} THEN 0 ELSE CHOOSE i \in Lines(u, p) : TRUE, q, q))

\* add_item up to its save: the quantities are added up.
AddItem(h, u, p, q) ==
    LET sum == Held(u, p) + q IN
    /\ product[p].active /\ sum <= product[p].stock
    /\ Start(h, Received("add", u, p,
             IF Lines(u, p) = {} THEN 0 ELSE CHOOSE i \in Lines(u, p) : TRUE, q, sum))

\* update_item does not ask whether the product is still on sale.  A quantity
\* that is there already is not written.
UpdateItem(h, u, i, q) ==
    /\ i \in DOMAIN cart /\ cart[i].user = u
    /\ q <= product[cart[i].product].stock
    /\ Start(h, Received(IF q = cart[i].quantity THEN "same" ELSE "update",
                         u, cart[i].product, i, q, q))

RemoveItem(h, u, i) ==
    /\ i \in DOMAIN cart /\ cart[i].user = u
    /\ Start(h, Received("remove", u, cart[i].product, i, 0, 0))

\* bulk_remove: one DELETE with the user in its condition.
BulkRemove(u, ids) ==
    LET gone == {i \in ids \cap DOMAIN cart : cart[i].user = u} IN
    /\ gone # {}
    /\ cart' = [i \in DOMAIN cart \ gone |-> cart[i]]
    /\ request' = Overlapped(request, u)
    /\ UNCHANGED <<lastId, favorites, product>>

\* add_favorite answers at once when the row exists.
AddFavorite(h, u, p) ==
    /\ <<u, p>> \notin favorites
    /\ Start(h, Received("favorite", u, p, 0, 0, 0))

RemoveFavorite(h, u, p) ==
    /\ <<u, p>> \in favorites
    /\ Start(h, Received("unfavorite", u, p, 0, 0, 0))

Done(h) == request' = Ended(request, h)

\* Variant: no UniqueConstraint on (user_id, product_id).
Insert_Unconstrained(r) ==
    /\ lastId < MaxId
    /\ lastId' = lastId + 1
    /\ cart' = [i \in DOMAIN cart \cup {lastId'} |->
           IF i = lastId' THEN [user |-> r.user, product |-> r.product, quantity |-> r.quantity]
           ELSE cart[i]]

\* The INSERT takes an id also when uq_cart_user_product refuses it.
Insert(r) ==
    /\ lastId < MaxId
    /\ lastId' = lastId + 1
    /\ cart' = IF Lines(r.user, r.product) # {} THEN cart
               ELSE [i \in DOMAIN cart \cup {lastId'} |->
                   IF i = lastId'
                   THEN [user |-> r.user, product |-> r.product, quantity |-> r.quantity]
                   ELSE cart[i]]

\* The flush of save, and the commit.
CommitItem(h) ==
    LET r == request[h] IN
    /\ Active(h) /\ r.op \in {"add", "update", "same"}
    /\ \/ r.id = 0 /\ Insert(r)
       \/ /\ r.id # 0 /\ UNCHANGED lastId
          /\ cart' = IF r.op = "same" \/ r.id \notin DOMAIN cart THEN cart
                     ELSE [cart EXCEPT ![r.id].quantity = r.quantity]
    /\ Done(h)
    /\ UNCHANGED <<favorites, product>>

CommitRemoval(h) ==
    LET r == request[h] IN
    /\ Active(h) /\ r.op = "remove"
    /\ cart' = [i \in DOMAIN cart \ {r.id} |-> cart[i]]
    /\ Done(h)
    /\ UNCHANGED <<lastId, favorites, product>>

\* A second INSERT of the same favorite fails on the primary key.
CommitFavorite(h) ==
    LET r == request[h] IN
    /\ Active(h)
    /\ \/ r.op = "favorite" /\ favorites' = favorites \cup {<<r.user, r.product>>}
       \/ r.op = "unfavorite" /\ favorites' = favorites \ {<<r.user, r.product>>}
    /\ Done(h)
    /\ UNCHANGED <<cart, lastId, product>>

\* Orders and admins change stock and status; carts do not follow.
StockMoves ==
    /\ \E p \in Products, n \in 0..MaxStock, a \in BOOLEAN :
           product' = [product EXCEPT ![p] = [active |-> a, stock |-> n]]
    /\ UNCHANGED <<cart, lastId, favorites, request>>

Next ==
    \/ \E h \in Handlers, u \in Users :
          \/ \E p \in Products : \/ \E q \in Quantities : AddItem(h, u, p, q)
                                 \/ AddFavorite(h, u, p) \/ RemoveFavorite(h, u, p)
          \/ \E i \in DOMAIN cart : RemoveItem(h, u, i)
                                    \/ \E q \in Quantities : UpdateItem(h, u, i, q)
    \/ \E u \in Users, ids \in SUBSET DOMAIN cart : BulkRemove(u, ids)
    \/ \E h \in Handlers : CommitItem(h) \/ CommitRemoval(h) \/ CommitFavorite(h)
    \/ StockMoves

Spec == Init /\ [][Next]_vars

-----------------------------------------------------------------------------
\* Whatever tabs race, a user has one row per product (get_by_user_and_product
\* would fail on two, cart_repository.py:50).
OneLinePerProduct ==
    /\ DOMAIN cart \subseteq 1..lastId
    /\ \A u \in Users, p \in Products : Cardinality(Lines(u, p)) <= 1

\* However many additions add up or overwrite each other, a row never asks for
\* more than the shop has had of the product (cart_service.py:79).
WithinStockSeen == \A i \in DOMAIN cart : cart[i].quantity \in 1..MaxStock

\* A request that no other of its user overlaps does what it was asked: it adds
\* to the quantity or sets it, removes the row, or adds or removes the favorite.
LoneRequestTakesEffect ==
    [][\A h \in Handlers :
          LET r == request[h] IN
          Active(h) /\ request'[h] = Idle /\ r.alone =>
              /\ r.op = "add" => \E i \in DOMAIN cart' :
                     /\ cart'[i].user = r.user /\ cart'[i].product = r.product
                     /\ cart'[i].quantity = Held(r.user, r.product) + r.asked
              /\ r.op \in {"update", "same"} =>
                     r.id \in DOMAIN cart' /\ cart'[r.id].quantity = r.asked
              /\ r.op = "remove" => r.id \notin DOMAIN cart'
              /\ r.op = "favorite" => <<r.user, r.product>> \in favorites'
              /\ r.op = "unfavorite" => <<r.user, r.product>> \notin favorites']_vars
=============================================================================
