----------------------------- MODULE Inventory -----------------------------
(***************************************************************************)
(* The stock and the sales status of products: what creating, releasing    *)
(* and cancelling orders does to the products table, and what the admins   *)
(* do to it (app/catalog/catalog_utils.py, the stock updates of app/order  *)
(* and app/payment, app/catalog/admin_catalog_service.py).                 *)
(*                                                                         *)
(* Every transaction that changes a stock holds the product rows from its  *)
(* check to its commit, so each is one action here; in which order it      *)
(* locks them is the subject of RowLocks.  What becomes of an order is the *)
(* subject of Checkout; the stock only knows orders that hold items and    *)
(* orders that gave them back.                                             *)
(***************************************************************************)
EXTENDS Integers, Sequences, FiniteSets

CONSTANTS
  Products,
  Orders,     \* orders that may be created
  Buyer,      \* the user who creates an order
  Baskets,    \* the items of a CreateOrderRequest: sequences of lines
  Initial,    \* the stock of a product at first
  Edits,      \* what an admin may submit for a product
  NoChange    \* a field the admin leaves out

ProductStatus == {"ACTIVE", "INACTIVE", "SOLD_OUT"}

Line == [product : Products, quantity : Nat \ {0}]

ASSUME InventoryAssumption ==
  /\ IsFiniteSet(Orders)
  /\ Baskets \subseteq Seq(Line)
  /\ Initial \in [Products -> Nat]
  /\ Edits \subseteq [stock : Nat \cup {NoChange},
                      status : ProductStatus \cup {NoChange}]

VARIABLES
  product,  \* products.stock and products.status
  order,    \* "NONE", "PENDING", "PAID" (or further on), "CANCELLED"
  items     \* the lines of an order

vars == <<product, order, items>>

Init ==
  /\ product = [p \in Products |-> [stock |-> Initial[p], status |-> "ACTIVE"]]
  /\ order = [o \in Orders |-> "NONE"]
  /\ items = [o \in Orders |-> <<>>]

-----------------------------------------------------------------------------
(* The rows of the products table after an UPDATE for one line.            *)

(* Variant: sold out only below zero.                                      *)
Decremented_BelowZero(rows, line) ==
  LET row == rows[line.product]
      left == row.stock - line.quantity
  IN  [rows EXCEPT ![line.product] =
         [stock |-> left,
          status |-> IF left < 0 /\ row.status = "ACTIVE"
                       THEN "SOLD_OUT" ELSE row.status]]

Decremented(rows, line) ==
  LET row == rows[line.product]
      left == row.stock - line.quantity
  IN  [rows EXCEPT ![line.product] =
         [stock |-> left,
          status |-> IF left <= 0 /\ row.status = "ACTIVE"
                       THEN "SOLD_OUT" ELSE row.status]]

Incremented(rows, line) ==
  LET row == rows[line.product]
      left == row.stock + line.quantity
  IN  [rows EXCEPT ![line.product] =
         [stock |-> left,
          status |-> IF left > 0 /\ row.status = "SOLD_OUT"
                       THEN "ACTIVE" ELSE row.status]]

TakenOut(rows, lines) ==
  LET after[n \in 0..Len(lines)] ==
        IF n = 0 THEN rows ELSE Decremented(after[n - 1], lines[n])
  IN  after[Len(lines)]

(* Variant: the loop ends after the first line.                            *)
PutBack_FirstLine(rows, lines) ==
  IF lines = <<>> THEN rows ELSE Incremented(rows, Head(lines))

PutBack(rows, lines) ==
  LET after[n \in 0..Len(lines)] ==
        IF n = 0 THEN rows ELSE Incremented(after[n - 1], lines[n])
  IN  after[Len(lines)]

(* The orders, each once, in some order.                                   *)
Listed ==
  CHOOSE seq \in [1..Cardinality(Orders) -> Orders] :
    \A o \in Orders : \E n \in DOMAIN seq : seq[n] = o

(* ... after the items of all orders in S were put back.                   *)
AllPutBack(rows, S) ==
  LET after[n \in 0..Cardinality(Orders)] ==
        IF n = 0 THEN rows
        ELSE IF Listed[n] \in S THEN PutBack(after[n - 1], items[Listed[n]])
        ELSE after[n - 1]
  IN  after[Cardinality(Orders)]

(* Variant: a sold out product is refused, the quantity is not looked at.  *)
Available_StatusOnly(rows, line) == rows[line.product].status = "ACTIVE"

(* create_order compares every line with the stock its product had before  *)
(* any line was taken out.                                                 *)
Available(rows, line) ==
  /\ rows[line.product].status = "ACTIVE"
  /\ rows[line.product].stock >= line.quantity

-----------------------------------------------------------------------------
Stale(o) == {p \in Orders : Buyer[p] = Buyer[o] /\ order[p] = "PENDING"}

(* The stale orders that Toss lets go are released in the transaction that *)
(* creates the new one; a refused line rolls all of it back.               *)
CreateOrder(o, basket) ==
  /\ order[o] = "NONE"
  /\ \E S \in SUBSET Stale(o) :
       LET rows == AllPutBack(product, S)
       IN  /\ \A i \in DOMAIN basket : Available(rows, basket[i])
           /\ product' = TakenOut(rows, basket)
           /\ order' = [p \in Orders |->
                          IF p = o THEN "PENDING"
                          ELSE IF p \in S THEN "CANCELLED" ELSE order[p]]
  /\ items' = [items EXCEPT ![o] = basket]

Pay(o) ==
  /\ order[o] = "PENDING"
  /\ order' = [order EXCEPT ![o] = "PAID"]
  /\ UNCHANGED <<product, items>>

(* Cancelled by the buyer, an admin, the sweeper or a webhook.             *)
CancelOrder(o) ==
  /\ order[o] \in {"PENDING", "PAID"}
  /\ product' = PutBack(product, items[o])
  /\ order' = [order EXCEPT ![o] = "CANCELLED"]
  /\ UNCHANGED items

(* PATCH /admin/products/{id}: the fields the admin filled in.  They saw   *)
(* the stock some time ago and submit an absolute value.                   *)
UpdateProduct(p, edit) ==
  /\ product' = [product EXCEPT ![p] =
       [stock |-> IF edit.stock = NoChange THEN @.stock ELSE edit.stock,
        status |-> IF edit.status = NoChange THEN @.status ELSE edit.status]]
  /\ UNCHANGED <<order, items>>

DeleteProduct(p) ==
  /\ product' = [product EXCEPT ![p].status = "INACTIVE"]
  /\ UNCHANGED <<order, items>>

Next ==
  \/ \E o \in Orders, basket \in Baskets : CreateOrder(o, basket)
  \/ \E o \in Orders : Pay(o) \/ CancelOrder(o)
  \/ \E p \in Products : DeleteProduct(p) \/ \E edit \in Edits : UpdateProduct(p, edit)

Spec == Init /\ [][Next]_vars

-----------------------------------------------------------------------------
TypeOK ==
  /\ product \in [Products -> [stock : Int, status : ProductStatus]]
  /\ order \in [Orders -> {"NONE", "PENDING", "PAID", "CANCELLED"}]
  /\ items \in [Orders -> Seq(Line)]

(* How many of p the lines ask for.                                        *)
Asked(lines, p) ==
  LET sum[n \in 0..Len(lines)] ==
        IF n = 0 THEN 0
        ELSE sum[n - 1] + IF lines[n].product = p THEN lines[n].quantity ELSE 0
  IN  sum[Len(lines)]

(* How many of p an order holds: what its lines ask for, until it is over. *)
Held(o, p) ==
  IF order[o] \in {"PENDING", "PAID"} THEN Asked(items[o], p) ELSE 0

SumOver(amount) ==
  LET sum[n \in 0..Cardinality(Orders)] ==
        IF n = 0 THEN 0 ELSE sum[n - 1] + amount[Listed[n]]
  IN  sum[Cardinality(Orders)]

Total(p) == product[p].stock + SumOver([o \in Orders |-> Held(o, p)])

EditedByAdmin(p) == \E edit \in Edits : UpdateProduct(p, edit)

(* Goods are on the shelf or held by an order, and none appear or get lost *)
(* unless an admin types in a stock: every way of giving up an order       *)
(* returns exactly what creating it took (docs/testcase.md, task 1).       *)
Conserved ==
  [][\A p \in Products : Total(p)' = Total(p) \/ EditedByAdmin(p)]_vars

(* No more is sold than there is: OutOfStockError is to prevent that, also *)
(* when the stock was released by the same transaction or typed in.        *)
NotOversold == \A p \in Products : product[p].stock >= 0

(* The status follows the stock, both ways, unless an admin hid the        *)
(* product: whatever an admin left behind, an order that changes the row   *)
(* leaves it as its stock demands (catalog_utils.py).                      *)
StatusMatches(p) ==
  \/ product[p].status = "INACTIVE"
  \/ product[p].status = "ACTIVE" /\ product[p].stock > 0
  \/ product[p].status = "SOLD_OUT" /\ product[p].stock <= 0

StatusFollowsStock ==
  [][\A p \in Products :
       product'[p] # product[p] => StatusMatches(p)' \/ EditedByAdmin(p)]_vars
=============================================================================
