------------------------------ MODULE RowLocks ------------------------------
(***************************************************************************)
(* The row locks of the transactions on orders: which rows an operation    *)
(* locks, in which order, and what happens when they wait for each other.  *)
(* A request runs one transaction (core/deps.py, db_session): it locks the *)
(* rows of its plan one after the other and lets go of all of them when it *)
(* commits or rolls back.  The payments of one order count as one row.     *)
(*                                                                         *)
(* What the operations do with the rows is the subject of Checkout and     *)
(* Inventory.                                                              *)
(***************************************************************************)
EXTENDS Naturals, Sequences

CONSTANTS
  Requests,  \* bound: requests handled at the same time
  Orders,
  Products,
  Items,     \* the products in the lines of an order, line by line
  Scans,     \* the products of the baskets that are ordered, in the orders in
             \* which a SELECT .. IN .. FOR UPDATE may come across their rows
  Left       \* the sets of unpaid orders that a buyer may have left behind, in
             \* the orders in which a SELECT may find them

ASSUME RowLocksAssumption ==
  /\ Items \in [Orders -> Seq(Products)]
  /\ Scans \subseteq Seq(Products)
  /\ Left \subseteq Seq(Orders)

OrderRow(o) == <<"orders", o>>
PaymentRow(o) == <<"payments", o>>
ProductRow(p) == <<"products", p>>

Rows == {"orders", "payments"} \X Orders \cup {"products"} \X Products

VARIABLES
  op,    \* the operation a request is at; a create is at "tidy" while it
         \* releases what its buyer left behind, and then at "create"
  left,  \* the unpaid orders a create still has to release
  todo,  \* the rows a transaction still has to lock, in this order
  held   \* the rows it has locked

vars == <<op, left, todo, held>>

Ops == {"none", "tidy", "create", "init", "confirm", "webhook", "cancel",
        "refund", "release", "edit"}

TypeOK ==
  /\ op \in [Requests -> Ops]
  /\ left \in [Requests -> Seq(Orders)]
  /\ todo \in [Requests -> Seq(Rows)]
  /\ held \in [Requests -> SUBSET Rows]

Init ==
  /\ op = [t \in Requests |-> "none"]
  /\ left = [t \in Requests |-> <<>>]
  /\ todo = [t \in Requests |-> <<>>]
  /\ held = [t \in Requests |-> {}]

-----------------------------------------------------------------------------
(* The plans.  A request whose order has another status than it needs ends *)
(* early, which is a RollBack.                                             *)

ProductRows(seq) == [i \in DOMAIN seq |-> ProductRow(seq[i])]

(* The loop over order.items that puts them back.                          *)
RestoreRows(o) == ProductRows(Items[o])

(* Variant: the payment is looked up before its order is locked.           *)
ConfirmRows_PaymentFirst(o) == <<PaymentRow(o), OrderRow(o)>>

ConfirmRows(o) == <<OrderRow(o), PaymentRow(o)>>

WebhookRows(o) == {ConfirmRows(o), ConfirmRows(o) \o RestoreRows(o)}

(* An unpaid order is cancelled without a look at its payments.            *)
CancelRows(o) == {<<OrderRow(o)>> \o RestoreRows(o),
                  <<OrderRow(o), PaymentRow(o)>> \o RestoreRows(o)}

(* release_pending_order: the order is not unpaid any more, or Toss knows  *)
(* of the payment or gives no answer, or the order is cancelled.           *)
ReleaseRows(o) == {<<OrderRow(o)>>,
                   <<OrderRow(o), PaymentRow(o)>>,
                   <<OrderRow(o), PaymentRow(o)>> \o RestoreRows(o)}

(* The order is read without a lock; its new status is written last.       *)
RefundRows(o) == <<PaymentRow(o), OrderRow(o)>>

(* init_payment, input_shipment and update_status.                         *)
StatusRows(o) == <<OrderRow(o)>>

EditRows(o) == {<<ProductRow(Items[o][i])>> : i \in DOMAIN Items[o]}

(* The requests for an order that exists.                                  *)
Plans(o) == [init    |-> {StatusRows(o)},
             confirm |-> {ConfirmRows(o)},
             webhook |-> WebhookRows(o),
             cancel  |-> CancelRows(o),
             refund  |-> {RefundRows(o)},
             release |-> ReleaseRows(o),
             edit    |-> EditRows(o)]

-----------------------------------------------------------------------------
Free(r) == \A t \in Requests : r \notin held[t]

(* A request comes in.                                                     *)
Begin(t, o, name, rows) ==
  /\ op[t] = "none"
  /\ rows \in Plans(o)[name]
  /\ op' = [op EXCEPT ![t] = name]
  /\ todo' = [todo EXCEPT ![t] = rows]
  /\ UNCHANGED <<left, held>>

(* create_order: the unpaid orders of the buyer are listed without a lock. *)
BeginCreate(t, orders) ==
  /\ op[t] = "none"
  /\ op' = [op EXCEPT ![t] = "tidy"]
  /\ left' = [left EXCEPT ![t] = orders]
  /\ UNCHANGED <<todo, held>>

(* Then they are released one after the other; what the transaction has    *)
(* locked for one stays locked.                                            *)
ReleaseNext(t, rows) ==
  /\ op[t] = "tidy"
  /\ todo[t] = <<>>
  /\ left[t] # <<>>
  /\ rows \in ReleaseRows(Head(left[t]))
  /\ left' = [left EXCEPT ![t] = Tail(@)]
  /\ todo' = [todo EXCEPT ![t] = rows]
  /\ UNCHANGED <<op, held>>

(* Then the products of the basket are looked up with a lock.              *)
LookUp(t, scan) ==
  /\ op[t] = "tidy"
  /\ todo[t] = <<>>
  /\ left[t] = <<>>
  /\ op' = [op EXCEPT ![t] = "create"]
  /\ todo' = [todo EXCEPT ![t] = ProductRows(scan)]
  /\ UNCHANGED <<left, held>>

(* The sweeper takes an order that nobody has locked (SKIP LOCKED), and    *)
(* goes on as release_pending_order.                                       *)
Sweep(t, o, rows) ==
  /\ op[t] = "none"
  /\ Free(OrderRow(o))
  /\ rows \in ReleaseRows(o)
  /\ op' = [op EXCEPT ![t] = "release"]
  /\ todo' = [todo EXCEPT ![t] = Tail(rows)]
  /\ held' = [held EXCEPT ![t] = {OrderRow(o)}]
  /\ UNCHANGED left

(* The next row is free, or the transaction has locked it before.          *)
Lock(t) ==
  /\ todo[t] # <<>>
  /\ \A u \in Requests \ {t} : Head(todo[t]) \notin held[u]
  /\ held' = [held EXCEPT ![t] = @ \cup {Head(todo[t])}]
  /\ todo' = [todo EXCEPT ![t] = Tail(@)]
  /\ UNCHANGED <<op, left>>

End(t) ==
  /\ op' = [op EXCEPT ![t] = "none"]
  /\ left' = [left EXCEPT ![t] = <<>>]
  /\ todo' = [todo EXCEPT ![t] = <<>>]
  /\ held' = [held EXCEPT ![t] = {}]

Commit(t) == todo[t] = <<>> /\ op[t] \notin {"none", "tidy"} /\ End(t)

(* The handler raises (a refused payment, no answer from Toss), or         *)
(* PostgreSQL aborts the transaction to break a deadlock.                  *)
RollBack(t) == op[t] # "none" /\ End(t)

Next ==
  \E t \in Requests :
    \/ \E o \in Orders :
         \/ \E name \in DOMAIN Plans(o) : \E rows \in Plans(o)[name] :
              Begin(t, o, name, rows)
         \/ \E rows \in ReleaseRows(o) : Sweep(t, o, rows)
    \/ \E orders \in Left : BeginCreate(t, orders)
    \/ \E o \in Orders : \E rows \in ReleaseRows(o) : ReleaseNext(t, rows)
    \/ \E scan \in Scans : LookUp(t, scan)
    \/ Lock(t)
    \/ Commit(t)
    \/ RollBack(t)

Spec == Init /\ [][Next]_vars

-----------------------------------------------------------------------------
WaitsFor(t, u) == t # u /\ todo[t] # <<>> /\ Head(todo[t]) \in held[u]

(* None of them can go on before another one of them does.                 *)
Deadlocked(S) == S # {} /\ \A t \in S : \E u \in S : WaitsFor(t, u)

Table(r) == r[1]
Holds(t, table) == \E r \in held[t] : Table(r) = table

(* The three places of the code that lock a row above one they hold: a     *)
(* refund writes its order after it has locked the payments; a create goes *)
(* on to the next unpaid order of its buyer; and products are locked as    *)
(* the lines name them or as the database finds them.                      *)
OutOfOrder(t) ==
  /\ todo[t] # <<>>
  /\ LET r == Head(todo[t]) IN
       \/ op[t] = "refund" /\ Table(r) = "orders" /\ Holds(t, "payments")
       \/ op[t] = "tidy" /\ Table(r) = "orders" /\ Holds(t, "orders")
       \/ Table(r) = "products" /\ Holds(t, "products")

(* Requests wait for each other in a circle only with a refund, a create   *)
(* that releases several orders, or a request with several products: the   *)
(* rest keeps to order, then payment, so that confirm, webhook, cancel and *)
(* the release of one order never deadlock (payment_service.py:123, 224).  *)
DeadlocksAreOutOfOrder ==
  \A S \in SUBSET Requests : Deadlocked(S) => \E t \in S : OutOfOrder(t)

(* No requests wait for each other in a circle at all: LocksRefund.cfg     *)
(* shows that they do.                                                     *)
NoDeadlock == \A S \in SUBSET Requests : ~ Deadlocked(S)
=============================================================================
