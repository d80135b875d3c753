------------------------------ MODULE Checkout ------------------------------
(***************************************************************************)
(* The life of an order together with its payment: app/order,             *)
(* app/payment, the admin order endpoints and Toss, the payment gateway.   *)
(*                                                                         *)
(* One request is one database transaction (core/deps.py, db_session).     *)
(* Every transaction that changes an order locks its row first, so a       *)
(* transaction that does not wait for Toss between its lock and its commit *)
(* is one action.  A transaction that calls Toss is two: one that takes    *)
(* the locks and sends the request, one that commits when the answer is    *)
(* in (or EndWithoutCommit).  Toss acts in between, or after the           *)
(* transaction has given up: what Toss did is never rolled back.           *)
(*                                                                         *)
(* The product stock is in module Inventory; here `returned' counts how    *)
(* often the items of an order were added back to the stock.               *)
(***************************************************************************)
EXTENDS Naturals, FiniteSets

CONSTANTS
  Orders,      \* orders that may be created
  Buyer,       \* the user who creates an order
  Keys,        \* Toss paymentKeys: one per attempt in the payment widget
  OrderOf,     \* the order a paymentKey was issued for (Toss: orderId)
  NoKey,       \* pg_tid is NULL
  Handlers,    \* bound: webhook requests being handled at the same time
  AdminMoves,  \* <<from, to>>: the status changes admins make by hand
  Console      \* whether an operator cancels a part of a charge at Toss

ASSUME CheckoutAssumption ==
  /\ OrderOf \in [Keys -> Orders]
  /\ NoKey \notin Keys
  /\ Console \in BOOLEAN

VARIABLES
  order,     \* orders.status, "NONE" before the row exists
  payment,   \* payments.status of the order's row, "NONE" without a row
  tid,       \* payments.pg_tid
  returned,  \* how often increment_stock ran over the order's items
  busy,      \* the transaction on the order that is waiting for Toss
  creating,  \* create_order requests that have listed the stale orders
  reading,   \* orders that a request_refund has read as DELIVERED
  hook,      \* what a webhook handler fetched from Toss
  toss,      \* the status of a paymentKey at Toss
  wire,      \* requests sent to Toss that it has not carried out
  due        \* paymentKeys for which Toss still owes a webhook

shop == <<order, payment, tid, returned>>
remote == <<toss, wire, due>>
vars == <<order, payment, tid, returned, busy, creating, reading, hook,
          toss, wire, due>>

OrderStatus == {"PENDING", "PAID", "PREPARING", "SHIPPING", "DELIVERED",
                "CANCELLED", "REFUNDED"}
PaymentStatus == {"READY", "PAID", "CANCELLED", "PARTIAL_CANCELLED", "FAILED"}
TossStatus == {"IN_PROGRESS", "DONE", "CANCELED", "PARTIAL_CANCELED",
               "ABORTED", "EXPIRED"}

Cancellable == {"PENDING", "PAID", "PREPARING"}
PaidStatuses == {"PAID", "PREPARING"}
ManualSettable == {"PREPARING", "SHIPPING", "DELIVERED"}
SafeToRelease == {"IN_PROGRESS", "ABORTED", "EXPIRED", "CANCELED"}

Calls == {"confirm", "cancel", "refund", "lateRefund"}
Idle == [op |-> "none", key |-> NoKey]
NoHook == [key |-> NoKey, seen |-> "NONE", byNumber |-> FALSE]

TypeOK ==
  /\ order \in [Orders -> OrderStatus \cup {"NONE"}]
  /\ payment \in [Orders -> PaymentStatus \cup {"NONE"}]
  /\ tid \in [Orders -> Keys \cup {NoKey}]
  /\ returned \in [Orders -> Nat]
  /\ busy \in [Orders -> [op : Calls, key : Keys] \cup {Idle}]
  /\ creating \subseteq [new : Orders, stale : SUBSET Orders]
  /\ reading \subseteq Orders
  /\ hook \in [Handlers -> [key : Keys, seen : TossStatus \cup {"NONE"},
                            byNumber : BOOLEAN] \cup {NoHook}]
  /\ toss \in [Keys -> TossStatus \cup {"NONE"}]
  /\ wire \subseteq {"confirm", "cancel"} \X Keys
  /\ due \subseteq Keys

Init ==
  /\ order = [o \in Orders |-> "NONE"]
  /\ payment = [o \in Orders |-> "NONE"]
  /\ tid = [o \in Orders |-> NoKey]
  /\ returned = [o \in Orders |-> 0]
  /\ busy = [o \in Orders |-> Idle]
  /\ creating = {}
  /\ reading = {}
  /\ hook = [h \in Handlers |-> NoHook]
  /\ toss = [k \in Keys |-> "NONE"]
  /\ wire = {}
  /\ due = {}

-----------------------------------------------------------------------------
(* Row locks.  Every operation but request_refund locks the order row; the *)
(* ones that look for a payment by its status lock the payment rows too.   *)
(* request_refund holds the payment rows alone, so it excludes only them.  *)

OrderRowFree(o) == busy[o].op \in {"none", "refund"}
(* Variant: nothing is locked.                                             *)
RowsFree_Unlocked(o) == TRUE
RowsFree(o) == busy[o].op = "none"

(* A paymentKey's request has been answered: Toss has carried it out.      *)
Answered(o, req) == <<req, busy[o].key>> \notin wire

(* Variant: Toss's spelling of the status.                                 *)
RestoreAndCancel_TossSpelling(o) ==
  /\ order' = [order EXCEPT ![o] = "CANCELED"]
  /\ returned' = [returned EXCEPT ![o] = @ + 1]

(* The loop over the items, and the new status of the order.               *)
RestoreAndCancel(o) ==
  /\ order' = [order EXCEPT ![o] = "CANCELLED"]
  /\ returned' = [returned EXCEPT ![o] = @ + 1]

(* Variant: the order is looked at only while it waits for its payment.    *)
RestoreOnce_UnpaidOnly(o) ==
  IF order[o] # "PENDING"
    THEN UNCHANGED <<order, returned>>
    ELSE RestoreAndCancel(o)

(* _restore_order_stock_and_cancel *)
RestoreOnce(o) ==
  IF order[o] = "CANCELLED"
    THEN UNCHANGED <<order, returned>>
    ELSE RestoreAndCancel(o)

(* A transaction on o locks its rows, sends a request and waits for Toss.  *)
Call(o, op, k, req) ==
  /\ busy' = [busy EXCEPT ![o] = [op |-> op, key |-> k]]
  /\ wire' = wire \cup {<<req, k>>}

Finish(o) == busy' = [busy EXCEPT ![o] = Idle]

-----------------------------------------------------------------------------
(* release_pending_order: a PENDING order is let go unless Toss may have   *)
(* taken the money.  Toss is asked by orderId when a READY payment exists. *)
(* Its answer is the one payment of that order it accepted, if it accepted *)
(* one; every other answer is safe, as is 404.                             *)

AtToss(o, statuses) == \E k \in Keys : OrderOf[k] = o /\ toss[k] \in statuses

FoundApproved(o) == payment[o] = "READY" /\ AtToss(o, {"DONE"})

(* Variant: only a payment that Toss does not have, or has closed, is safe.*)
MayRelease_ClosedOnly(o) ==
  payment[o] = "READY" =>
    ~ AtToss(o, (TossStatus \ SafeToRelease) \cup {"IN_PROGRESS"})

MayRelease(o) ==
  payment[o] = "READY" =>
    ~ AtToss(o, (TossStatus \ SafeToRelease))

(* The order, payment and stock columns after the orders in S, all PENDING *)
(* and locked, were passed to release_pending_order and Toss answered.     *)
ReleasedOrder(S, o) ==
  IF o \in S /\ FoundApproved(o) THEN "PAID"
  ELSE IF o \in S /\ MayRelease(o) THEN "CANCELLED"
  ELSE order[o]

Release(S) ==
  /\ payment' = [o \in Orders |->
                   IF o \in S /\ FoundApproved(o) THEN "PAID" ELSE payment[o]]
  /\ tid' = [o \in Orders |->
               IF o \in S /\ FoundApproved(o)
                 THEN CHOOSE k \in Keys : OrderOf[k] = o /\ toss[k] = "DONE"
                 ELSE tid[o]]
  /\ returned' = [o \in Orders |->
                    IF o \in S /\ MayRelease(o)
                      THEN returned[o] + 1 ELSE returned[o]]

(* The sweeper of a worker, or get_order on an order past its 30 minutes.  *)
(* When Toss does not answer nothing changes, and there is no step.        *)
ReleasePending(o) ==
  /\ order[o] = "PENDING"
  /\ RowsFree(o)
  /\ FoundApproved(o) \/ MayRelease(o)
  /\ Release({o})
  /\ order' = [p \in Orders |-> ReleasedOrder({o}, p)]
  /\ UNCHANGED <<busy, creating, reading, hook, remote>>

-----------------------------------------------------------------------------
(* create_order lists the buyer's PENDING orders without a lock, then      *)
(* releases each under its lock and inserts the new one.                   *)

CreateBegin(o) ==
  /\ order[o] = "NONE"
  /\ \A c \in creating : c.new # o
  /\ creating' = creating \cup
       {[new |-> o,
         stale |-> {p \in Orders : Buyer[p] = Buyer[o] /\ order[p] = "PENDING"}]}
  /\ UNCHANGED <<shop, busy, reading, hook, remote>>

(* Variant: the listed status is not read again under the lock.            *)
CreateCommit_NoRecheck(c) ==
  /\ \A p \in c.stale : RowsFree(p)
  /\ Release(c.stale)
  /\ order' = [p \in Orders |->
                 IF p = c.new THEN "PENDING" ELSE ReleasedOrder(c.stale, p)]
  /\ creating' = creating \ {c}
  /\ UNCHANGED <<busy, reading, hook, remote>>

(* A listed order for which Toss did not answer is kept.                   *)
CreateCommit(c) ==
  LET pending == {p \in c.stale : order[p] = "PENDING"}
  IN  /\ \A p \in c.stale : RowsFree(p)
      /\ \E S \in SUBSET pending :
           /\ \A p \in pending \ S : payment[p] = "READY"
           /\ Release(S)
           /\ order' = [p \in Orders |->
                          IF p = c.new THEN "PENDING" ELSE ReleasedOrder(S, p)]
      /\ creating' = creating \ {c}
      /\ UNCHANGED <<busy, reading, hook, remote>>

(* A product is unavailable or out of stock: the releases roll back too.   *)
CreateFail(c) ==
  /\ creating' = creating \ {c}
  /\ UNCHANGED <<shop, busy, reading, hook, remote>>

-----------------------------------------------------------------------------
(* POST /payments/init *)
InitPayment(o) ==
  /\ order[o] = "PENDING"
  /\ OrderRowFree(o)
  /\ payment[o] = "NONE"
  /\ payment' = [payment EXCEPT ![o] = "READY"]
  /\ UNCHANGED <<order, tid, returned, busy, creating, reading, hook, remote>>

(* POST /payments/confirm *)
ConfirmCall(k) ==
  LET o == OrderOf[k]
  IN  /\ toss[k] # "NONE"
      /\ RowsFree(o)
      /\ order[o] = "PENDING"
      /\ payment[o] = "READY"
      /\ Call(o, "confirm", k, "confirm")
      /\ UNCHANGED <<shop, creating, reading, hook, toss, due>>

(* Variant: every answer of Toss is taken for an approval.                 *)
ConfirmCommit_AnyAnswer(o) ==
  /\ busy[o].op = "confirm"
  /\ Answered(o, "confirm")
  /\ payment' = [payment EXCEPT ![o] = "PAID"]
  /\ tid' = [tid EXCEPT ![o] = busy[o].key]
  /\ order' = [order EXCEPT ![o] = "PAID"]
  /\ Finish(o)
  /\ UNCHANGED <<returned, creating, reading, hook, remote>>

ConfirmCommit(o) ==
  LET k == busy[o].key
  IN  /\ busy[o].op = "confirm"
      /\ Answered(o, "confirm")
      /\ toss[k] = "DONE"
      /\ payment' = [payment EXCEPT ![o] = "PAID"]
      /\ tid' = [tid EXCEPT ![o] = k]
      /\ order' = [order EXCEPT ![o] = "PAID"]
      /\ Finish(o)
      /\ UNCHANGED <<returned, creating, reading, hook, remote>>

(* Toss refused.  The handler sets FAILED and raises, and db_session rolls *)
(* back on every exception: the payment row stays READY.                   *)
ConfirmRefused(o) ==
  /\ busy[o].op = "confirm"
  /\ Answered(o, "confirm")
  /\ toss[busy[o].key] \in {"ABORTED", "EXPIRED"}
  /\ Finish(o)
  /\ UNCHANGED <<shop, creating, reading, hook, remote>>

(* Variant: a webhook whose late refund failed is answered with 200.       *)
EndWithoutCommit_Answers200(o) ==
  /\ ~ RowsFree(o)
  /\ Finish(o)
  /\ UNCHANGED <<shop, creating, reading, hook, toss, wire, due>>

(* A timeout, an error answer, a failed commit or a crash: the transaction *)
(* is rolled back, whatever Toss did or will still do with the request.    *)
(* A webhook that ends this way is answered with an error and sent again.  *)
EndWithoutCommit(o) ==
  /\ ~ RowsFree(o)
  /\ Finish(o)
  /\ due' = due \cup (IF busy[o].op = "lateRefund" THEN {busy[o].key} ELSE {})
  /\ UNCHANGED <<shop, creating, reading, hook, toss, wire>>

-----------------------------------------------------------------------------
(* POST /orders/{n}/cancel and POST /admin/orders/{n}/cancel: no PAID      *)
(* payment means that there is nothing to ask of Toss.                     *)

NothingToRefund(o) == order[o] = "PENDING" \/ payment[o] # "PAID"

CancelAtOnce(o) ==
  /\ order[o] \in Cancellable
  /\ IF order[o] = "PENDING" THEN OrderRowFree(o) ELSE RowsFree(o)
  /\ NothingToRefund(o)
  /\ RestoreAndCancel(o)
  /\ UNCHANGED <<payment, tid, busy, creating, reading, hook, remote>>

CancelCall(o) ==
  /\ order[o] \in PaidStatuses
  /\ RowsFree(o)
  /\ payment[o] = "PAID"
  /\ tid[o] # NoKey
  /\ Call(o, "cancel", tid[o], "cancel")
  /\ UNCHANGED <<shop, creating, reading, hook, toss, due>>

(* Variant: the books are closed without waiting for the answer of Toss.   *)
CancelCommit_NoAnswer(o) ==
  /\ busy[o].op = "cancel"
  /\ payment' = [payment EXCEPT ![o] = "CANCELLED"]
  /\ RestoreAndCancel(o)
  /\ Finish(o)
  /\ UNCHANGED <<tid, creating, reading, hook, remote>>

CancelCommit(o) ==
  /\ busy[o].op = "cancel"
  /\ Answered(o, "cancel")
  /\ toss[busy[o].key] = "CANCELED"
  /\ payment' = [payment EXCEPT ![o] = "CANCELLED"]
  /\ RestoreAndCancel(o)
  /\ Finish(o)
  /\ UNCHANGED <<tid, creating, reading, hook, remote>>

-----------------------------------------------------------------------------
(* POST /orders/{n}/refund/request reads the order without a lock.         *)

RefundRead(o) ==
  /\ order[o] = "DELIVERED"
  /\ o \notin reading
  /\ reading' = reading \cup {o}
  /\ UNCHANGED <<shop, busy, creating, hook, remote>>

RefundCall(o) ==
  /\ o \in reading
  /\ RowsFree(o)
  /\ payment[o] = "PAID"
  /\ tid[o] # NoKey
  /\ Call(o, "refund", tid[o], "cancel")
  /\ reading' = reading \ {o}
  /\ UNCHANGED <<shop, creating, hook, toss, due>>

RefundCommit(o) ==
  /\ busy[o].op = "refund"
  /\ Answered(o, "cancel")
  /\ toss[busy[o].key] = "CANCELED"
  /\ payment' = [payment EXCEPT ![o] = "CANCELLED"]
  /\ order' = [order EXCEPT ![o] = "REFUNDED"]
  /\ Finish(o)
  /\ UNCHANGED <<tid, returned, creating, reading, hook, remote>>

(* No PAID payment: cancel_payment returns and the status is overwritten.  *)
RefundNothing(o) ==
  /\ o \in reading
  /\ RowsFree(o)
  /\ payment[o] # "PAID"
  /\ order' = [order EXCEPT ![o] = "REFUNDED"]
  /\ reading' = reading \ {o}
  /\ UNCHANGED <<payment, tid, returned, busy, creating, hook, remote>>

RefundFail(o) ==
  /\ o \in reading
  /\ reading' = reading \ {o}
  /\ UNCHANGED <<shop, busy, creating, hook, remote>>

-----------------------------------------------------------------------------
(* The admin endpoints. update_status checks the target, not the current   *)
(* status; AdminMoves says which changes the admins ask for.               *)

InputShipment(o) ==
  /\ order[o] \in PaidStatuses
  /\ OrderRowFree(o)
  /\ order' = [order EXCEPT ![o] = "SHIPPING"]
  /\ UNCHANGED <<payment, tid, returned, busy, creating, reading, hook, remote>>

UpdateStatus(o, to) ==
  /\ order[o] # "NONE"
  /\ OrderRowFree(o)
  /\ to \in ManualSettable
  /\ <<order[o], to>> \in AdminMoves
  /\ order' = [order EXCEPT ![o] = to]
  /\ UNCHANGED <<payment, tid, returned, busy, creating, reading, hook, remote>>

-----------------------------------------------------------------------------
(* handle_webhook.  The handler asks Toss for the status before it locks   *)
(* anything, and finds its rows by pg_tid, or by order number (the READY   *)
(* payment).  byNumber: no row had this pg_tid when Toss was asked.  The   *)
(* handler looks between that and the locks, so it can find a row that got *)
(* the pg_tid meanwhile (HasTarget), or miss it (Overlooked).              *)

KnownTid(k) == tid[OrderOf[k]] = k

WebhookFetch(h, k) ==
  /\ hook[h] = NoHook
  /\ k \in due
  /\ hook' = [hook EXCEPT ![h] =
                [key |-> k, seen |-> toss[k], byNumber |-> ~ KnownTid(k)]]
  /\ due' = due \ {k}
  /\ UNCHANGED <<shop, busy, creating, reading, toss, wire>>

(* Variant: the order number in the webhook is not used.                   *)
HasTarget_TidOnly(h) == KnownTid(hook[h].key)

(* The payment row the handler acts on, once it holds the locks.           *)
HasTarget(h) ==
  LET k == hook[h].key
  IN  \/ KnownTid(k)
      \/ hook[h].byNumber /\ payment[OrderOf[k]] = "READY"

(* It looked the paymentKey up before the row had it, and by the order's   *)
(* number there is no READY row any more.                                  *)
Overlooked(h) ==
  hook[h].byNumber /\ payment[OrderOf[hook[h].key]] # "READY"

(* A paid payment is only ever moved by a cancellation.                    *)
Settled(h) ==
  /\ payment[OrderOf[hook[h].key]] = "PAID"
  /\ hook[h].seen \notin {"CANCELED", "PARTIAL_CANCELED"}

Applies(h, statuses) ==
  /\ hook[h] # NoHook
  /\ RowsFree(OrderOf[hook[h].key])
  /\ hook[h].seen \in statuses
  /\ HasTarget(h)
  /\ ~ Settled(h)

Done(h) == hook' = [hook EXCEPT ![h] = NoHook]

WebhookIgnore(h) ==
  /\ hook[h] # NoHook
  /\ RowsFree(OrderOf[hook[h].key])
  /\ \/ ~ HasTarget(h) \/ Overlooked(h)
     \/ Settled(h)
     \/ hook[h].seen = "IN_PROGRESS"
  /\ Done(h)
  /\ UNCHANGED <<shop, busy, creating, reading, remote>>

WebhookApproved(h) ==
  LET k == hook[h].key
      o == OrderOf[k]
  IN  /\ Applies(h, {"DONE"})
      /\ order[o] # "CANCELLED"
      /\ payment' = [payment EXCEPT ![o] = "PAID"]
      /\ tid' = [tid EXCEPT ![o] = k]
      /\ order' = [order EXCEPT ![o] = IF @ = "PENDING" THEN "PAID" ELSE @]
      /\ Done(h)
      /\ UNCHANGED <<returned, busy, creating, reading, remote>>

(* _refund_late_approval: the order is gone, the money is not.             *)
WebhookLateCall(h) ==
  LET k == hook[h].key
  IN  /\ Applies(h, {"DONE"})
      /\ order[OrderOf[k]] = "CANCELLED"
      /\ Call(OrderOf[k], "lateRefund", k, "cancel")
      /\ Done(h)
      /\ UNCHANGED <<shop, creating, reading, toss, due>>

LateRefundCommit(o) ==
  /\ busy[o].op = "lateRefund"
  /\ Answered(o, "cancel")
  /\ toss[busy[o].key] = "CANCELED"
  /\ payment' = [payment EXCEPT ![o] = "CANCELLED"]
  /\ tid' = [tid EXCEPT ![o] = busy[o].key]
  /\ Finish(o)
  /\ UNCHANGED <<order, returned, creating, reading, hook, remote>>

WebhookCancelled(h) ==
  LET o == OrderOf[hook[h].key]
  IN  /\ Applies(h, {"CANCELED"})
      /\ payment' = [payment EXCEPT ![o] = "CANCELLED"]
      /\ RestoreOnce(o)
      /\ Done(h)
      /\ UNCHANGED <<tid, busy, creating, reading, remote>>

WebhookPartlyCancelled(h) ==
  /\ Applies(h, {"PARTIAL_CANCELED"})
  /\ payment' = [payment EXCEPT ![OrderOf[hook[h].key]] = "PARTIAL_CANCELLED"]
  /\ Done(h)
  /\ UNCHANGED <<order, tid, returned, busy, creating, reading, remote>>

WebhookFailed(h) ==
  LET o == OrderOf[hook[h].key]
  IN  /\ Applies(h, {"ABORTED", "EXPIRED"})
      /\ payment' = [payment EXCEPT ![o] = "FAILED"]
      /\ RestoreOnce(o)
      /\ Done(h)
      /\ UNCHANGED <<tid, busy, creating, reading, remote>>

(* The handler's transaction fails: Toss gets an error and sends it again. *)
WebhookError(h) ==
  /\ hook[h] # NoHook
  /\ due' = due \cup {hook[h].key}
  /\ Done(h)
  /\ UNCHANGED <<shop, busy, creating, reading, toss, wire>>

WebhookAnswer(h) ==
  \/ WebhookIgnore(h) \/ WebhookApproved(h) \/ WebhookLateCall(h)
  \/ WebhookCancelled(h) \/ WebhookPartlyCancelled(h) \/ WebhookFailed(h)

-----------------------------------------------------------------------------
(* Toss.  It accepts at most one payment per orderId, and tells the shop   *)
(* of every status change until the shop answers 200.                      *)

TossMove(k, s) ==
  /\ toss' = [toss EXCEPT ![k] = s]
  /\ due' = due \cup {k}

TossUnchanged == UNCHANGED <<shop, busy, creating, reading, hook>>

Accepted(o) == AtToss(o, {"DONE", "CANCELED", "PARTIAL_CANCELED"})

(* The buyer authenticates in the widget, which init_payment opened.       *)
Authenticate(k) ==
  /\ toss[k] = "NONE"
  /\ payment[OrderOf[k]] # "NONE"
  /\ ~ Accepted(OrderOf[k])
  /\ TossMove(k, "IN_PROGRESS")
  /\ UNCHANGED wire
  /\ TossUnchanged

TossApprove(k) ==
  /\ <<"confirm", k>> \in wire
  /\ toss[k] = "IN_PROGRESS"
  /\ ~ Accepted(OrderOf[k])
  /\ TossMove(k, "DONE")
  /\ wire' = wire \ {<<"confirm", k>>}
  /\ TossUnchanged

TossReject(k) ==
  /\ <<"confirm", k>> \in wire
  /\ toss[k] = "IN_PROGRESS"
  /\ TossMove(k, "ABORTED")
  /\ wire' = wire \ {<<"confirm", k>>}
  /\ TossUnchanged

(* Idempotency-Key: a repeated request is answered as the first one was.   *)
TossRepeat(k) ==
  /\ \/ <<"confirm", k>> \in wire /\ toss[k] # "IN_PROGRESS"
        /\ wire' = wire \ {<<"confirm", k>>}
     \/ <<"cancel", k>> \in wire /\ toss[k] = "CANCELED"
        /\ wire' = wire \ {<<"cancel", k>>}
  /\ UNCHANGED <<toss, due>>
  /\ TossUnchanged

TossCancel(k) ==
  /\ <<"cancel", k>> \in wire
  /\ toss[k] \in {"DONE", "PARTIAL_CANCELED"}
  /\ TossMove(k, "CANCELED")
  /\ wire' = wire \ {<<"cancel", k>>}
  /\ TossUnchanged

TossExpire(k) ==
  /\ toss[k] = "IN_PROGRESS"
  /\ TossMove(k, "EXPIRED")
  /\ UNCHANGED wire
  /\ TossUnchanged

(* An operator cancels a part of a charge the shop shows as paid.          *)
ConsolePartialCancel(k) ==
  /\ Console
  /\ toss[k] = "DONE"
  /\ payment[OrderOf[k]] = "PAID"
  /\ TossMove(k, "PARTIAL_CANCELED")
  /\ UNCHANGED wire
  /\ TossUnchanged

(* The shop's 200 got lost: Toss sends the webhook once more.              *)
Redeliver(k) ==
  /\ toss[k] # "NONE"
  /\ k \notin due
  /\ due' = due \cup {k}
  /\ UNCHANGED <<toss, wire>>
  /\ TossUnchanged

-----------------------------------------------------------------------------
Ordering ==
  \/ \E o \in Orders : CreateBegin(o)
  \/ \E c \in creating : CreateCommit(c) \/ CreateFail(c)
  \/ \E o \in Orders : ReleasePending(o)

Paying ==
  \/ \E o \in Orders : InitPayment(o) \/ ConfirmCommit(o) \/ ConfirmRefused(o)
  \/ \E k \in Keys : ConfirmCall(k)
  \/ \E o \in Orders : EndWithoutCommit(o)

Undoing ==
  \E o \in Orders :
    \/ CancelAtOnce(o) \/ CancelCall(o) \/ CancelCommit(o)
    \/ RefundRead(o) \/ RefundCall(o) \/ RefundCommit(o)
    \/ RefundNothing(o) \/ RefundFail(o)
    \/ LateRefundCommit(o)

Fulfilling ==
  \E o \in Orders :
    \/ InputShipment(o)
    \/ \E to \in ManualSettable : UpdateStatus(o, to)

Webhook ==
  \E h \in Handlers :
    \/ \E k \in Keys : WebhookFetch(h, k)
    \/ WebhookAnswer(h)
    \/ WebhookError(h)

Toss ==
  \E k \in Keys :
    \/ Authenticate(k) \/ TossApprove(k) \/ TossReject(k) \/ TossRepeat(k)
    \/ TossCancel(k) \/ TossExpire(k) \/ ConsolePartialCancel(k)
    \/ Redeliver(k)

Next == Ordering \/ Paying \/ Undoing \/ Fulfilling \/ Webhook \/ Toss

Spec == Init /\ [][Next]_vars

-----------------------------------------------------------------------------
(* Safety. *)

Fulfilment == {"PAID", "PREPARING", "SHIPPING", "DELIVERED"}
Closed == {"CANCELLED", "REFUNDED"}

(* Admins change the status by hand only between the stages of fulfilment. *)
(* update_status does not check it: see ClosedStaysClosed in AdminAnyMove.  *)
AdminsFollowFlow == \A m \in AdminMoves : m[1] \in Fulfilment

(* Items that are back on the shelf are not also promised to the order     *)
(* they came from: no interleaving of confirm, cancel, sweeper and         *)
(* webhooks revives a released order (payment_service.py, confirm_payment: *)
(* the order lock is there to prevent this double sale).                   *)
NoDoubleSale ==
  \A o \in Orders : returned[o] > 0 => order[o] \in Closed

(* What is being fulfilled has been paid for, at Toss and in the books.    *)
FulfilmentIsPaid ==
  \A o \in Orders :
    order[o] \in Fulfilment =>
      /\ payment[o] \in {"PAID", "PARTIAL_CANCELLED"}
      /\ AtToss(o, {"DONE", "CANCELED", "PARTIAL_CANCELED"})

(* A payment is shown as cancelled only if Toss gave the money back, and   *)
(* as paid only under the paymentKey of a charge of this very order.       *)
BooksFollowToss ==
  \A o \in Orders :
    /\ payment[o] = "CANCELLED" => AtToss(o, {"CANCELED"})
    /\ payment[o] = "PAID" =>
         /\ tid[o] \in Keys
         /\ OrderOf[tid[o]] = o
         /\ toss[tid[o]] \in {"DONE", "CANCELED", "PARTIAL_CANCELED"}

Noticed(k) ==
  \/ k \in due
  \/ \E h \in Handlers : hook[h].key = k /\ hook[h].seen = "DONE"
  \/ busy[OrderOf[k]] = [op |-> "lateRefund", key |-> k]

(* Money that Toss took for an order the shop has cancelled is noticed: a  *)
(* webhook is owed, a handler has seen the approval, or the late refund is *)
(* under way (payment_service.py, _refund_late_approval).                  *)
LateMoneyIsNoticed ==
  \A k \in Keys :
    toss[k] = "DONE" /\ order[OrderOf[k]] = "CANCELLED" => Noticed(k)

(* The items of an order are put back at most once.                        *)
ReturnedOnce == \A o \in Orders : returned[o] <= 1

(* order_service.py:218: the stock of goods that were delivered and then   *)
(* refunded is not put back.                                               *)
RefundKeepsStock ==
  [][\A o \in Orders : order[o] = "REFUNDED" => returned'[o] = returned[o]]_vars

(* An order that was cancelled or refunded stays so (order/models.py:      *)
(* the status flow ends there).                                            *)
ClosedStaysClosed ==
  [][\A o \in Orders : order[o] \in Closed => order'[o] \in Closed]_vars

(* A paid order is cancelled or refunded only when Toss has given all of   *)
(* the money back (order_service.py, cancel_order and request_refund).     *)
PaidBackFirst ==
  [][\A o \in Orders :
       order[o] \in Fulfilment /\ order'[o] \in Closed =>
         \A k \in Keys :
           OrderOf[k] = o => toss'[k] \notin {"DONE", "PARTIAL_CANCELED"}]_vars

(* payment_service.py:42: an order released while Toss had not approved is *)
(* safe to release, because only a confirm can approve and confirm refuses *)
(* orders that are no longer PENDING.                                      *)
NoApprovalAfterRelease ==
  [][\A k \in Keys :
       toss[k] # "DONE" /\ toss'[k] = "DONE" => order[OrderOf[k]] # "CANCELLED"]_vars

-----------------------------------------------------------------------------
(* The inductive invariant behind the safety properties and the refinement *)
(* that Checkout_proofs proves.                                            *)

Open == {"NONE", "PENDING"}

(* What a transaction read under its locks is still so when Toss answers.  *)
LocksHold ==
  \A o \in Orders :
    LET t == busy[o]
    IN  /\ t # Idle => OrderOf[t.key] = o /\ toss[t.key] # "NONE"
        /\ t.op = "confirm" => order[o] = "PENDING"
        /\ t.op = "cancel" => order[o] \in PaidStatuses
        /\ t.op = "refund" => order[o] \notin Open
        /\ t.op = "lateRefund" => order[o] = "CANCELLED"

(* The row of an order that is being created is visible to nobody.         *)
NewIsNew ==
  /\ \A c \in creating : order[c.new] = "NONE"
  /\ \A c, d \in creating : c.new = d.new => c = d

(* Nothing happens to an order before it exists.                           *)
OrderFirst ==
  /\ \A o \in Orders :
       /\ order[o] = "NONE" => payment[o] = "NONE" /\ returned[o] = 0
       /\ order[o] \in Open => o \notin reading
  /\ \A k \in Keys : order[OrderOf[k]] = "NONE" => toss[k] = "NONE"

(* What a handler fetched from Toss is old but was true: a charge is never *)
(* undone except by its cancellation, and that is final.                   *)
SeenWasTrue ==
  /\ \A k \in due : toss[k] # "NONE"
  /\ \A h \in Handlers :
       LET k == hook[h].key
       IN  hook[h] # NoHook =>
             /\ toss[k] # "NONE"
             /\ hook[h].seen \in {"DONE", "PARTIAL_CANCELED"} =>
                  toss[k] \in {"DONE", "CANCELED", "PARTIAL_CANCELED"}
             /\ hook[h].seen = "CANCELED" => toss[k] = "CANCELED"

(* Toss is asked to refund only charges of orders that are past payment,   *)
(* and an order is charged once.                                           *)
RefundsComeLate ==
  \A k \in Keys :
    <<"cancel", k>> \in wire \/ toss[k] = "CANCELED" => order[OrderOf[k]] \notin Open

ChargedOnce ==
  \A j, k \in Keys :
    /\ OrderOf[j] = OrderOf[k]
    /\ {toss[j], toss[k]} \subseteq {"DONE", "CANCELED", "PARTIAL_CANCELED"}
    => j = k

IInv ==
  /\ LocksHold
  /\ NewIsNew
  /\ OrderFirst
  /\ SeenWasTrue
  /\ NoDoubleSale
  /\ FulfilmentIsPaid
  /\ BooksFollowToss
  /\ RefundsComeLate
  /\ ChargedOnce

(* Three properties need that something does not happen (AdminMoves,       *)
(* Console and OrderOf say what does), and an invariant of their own.      *)

NothingDelivered == \A m \in AdminMoves : m[2] # "DELIVERED"

(* Without deliveries no order is read for a refund, or refunded.          *)
NothingRefunded ==
  /\ reading = {}
  /\ \A o \in Orders :
       /\ order[o] \notin {"DELIVERED", "REFUNDED"}
       /\ busy[o].op # "refund"

(* Without an operator at Toss's console no charge is cancelled in part.   *)
NothingPartial ==
  /\ \A k \in Keys : toss[k] # "PARTIAL_CANCELED"
  /\ \A h \in Handlers : hook[h].seen # "PARTIAL_CANCELED"
  /\ \A o \in Orders : payment[o] # "PARTIAL_CANCELLED"

OneKeyEach == \A j, k \in Keys : OrderOf[j] = OrderOf[k] => j = k

(* With one paymentKey per order the books tell how far it got: the row    *)
(* waits for it (READY, no tid) until its approval, refusal or             *)
(* cancellation is written.                                                *)
RowsFollowKeys ==
  /\ \A o \in Orders :
       /\ order[o] = "PENDING" => payment[o] \in {"NONE", "READY"}
       /\ payment[o] \in {"NONE", "READY"} => tid[o] = NoKey
  /\ \A k \in Keys :
       LET o == OrderOf[k]
       IN  /\ payment[o] = "NONE" => toss[k] = "NONE"
           /\ payment[o] = "FAILED" => toss[k] \in {"ABORTED", "EXPIRED"}
           /\ payment[o] = "PARTIAL_CANCELLED" =>
                toss[k] \in {"PARTIAL_CANCELED", "CANCELED"}
           /\ toss[k] = "PARTIAL_CANCELED" => order[o] \notin Open

(* A refusal or a partial cancellation that was seen is not undone.        *)
SeenIsFinal ==
  \A h \in Handlers :
    LET k == hook[h].key
    IN  hook[h] # NoHook =>
          /\ hook[h].byNumber \/ KnownTid(k)
          /\ hook[h].seen \in {"ABORTED", "EXPIRED"} => toss[k] = hook[h].seen
          /\ hook[h].seen = "PARTIAL_CANCELED" =>
               toss[k] \in {"PARTIAL_CANCELED", "CANCELED"}

(* So a webhook that saw the approval finds the row, if the order is still *)
(* unpaid or was cancelled, and does not get lost.                         *)
ApprovalIsNoticed ==
  \A k \in Keys :
    toss[k] = "DONE" /\ order[OrderOf[k]] \in {"PENDING", "CANCELLED"} =>
      payment[OrderOf[k]] = "READY" /\ Noticed(k)

BooksFollowKey == RowsFollowKeys /\ SeenIsFinal /\ ApprovalIsNoticed

-----------------------------------------------------------------------------
(* Liveness.  A request ends; Toss carries out what it was asked to and    *)
(* repeats a webhook until it is answered; the sweeper of some worker      *)
(* finds the order unlocked and gets an answer from Toss.                  *)

Fairness ==
  /\ \A o \in Orders :
       /\ WF_vars(ConfirmCommit(o) \/ CancelCommit(o) \/ RefundCommit(o)
                    \/ LateRefundCommit(o) \/ EndWithoutCommit(o))
       /\ SF_vars(ReleasePending(o))
  /\ \A k \in Keys :
       /\ WF_vars(TossCancel(k))
       /\ SF_vars(\E h \in Handlers : WebhookFetch(h, k))
  /\ \A h \in Handlers : SF_vars(WebhookAnswer(h))

FairSpec == Spec /\ Fairness

(* An order does not hold its stock forever without being paid.            *)
PendingEnds == \A o \in Orders : order[o] = "PENDING" ~> order[o] # "PENDING"

(* Money taken for an order the shop has cancelled is given back.          *)
LateMoneyReturned ==
  \A k \in Keys :
    toss[k] = "DONE" /\ order[OrderOf[k]] = "CANCELLED" ~> toss[k] # "DONE"

-----------------------------------------------------------------------------
(* What all this is for: a sale. *)

goods ==
  [o \in Orders |->
     IF order[o] = "NONE" THEN "shelf"
     ELSE IF returned[o] > 0 THEN "returned"
     ELSE IF order[o] = "PENDING" THEN "reserved"
     ELSE "sold"]

money ==
  [o \in Orders |->
     IF AtToss(o, {"CANCELED"}) THEN "refunded"
     ELSE IF AtToss(o, {"DONE", "PARTIAL_CANCELED"}) THEN "taken"
     ELSE "none"]

ASale == INSTANCE Sale WITH Orders <- Orders, goods <- goods, money <- money

(* The checkout implements a sale: goods are sold only against money, sold *)
(* or reserved goods that were put back are not sold again, and money is   *)
(* taken once and not given back while the goods are still reserved.       *)
ImplementsSale == ASale!Spec
=============================================================================
