--------------------------- MODULE Checkout_proofs ---------------------------
(* Proofs about Checkout, for any number of orders, paymentKeys, handlers  *)
(* and buyers.                                                             *)
EXTENDS Checkout, TLAPS

(* TypeOK is inductive by itself.                                          *)
LEMMA TypeInit == Init => TypeOK
  BY CheckoutAssumption, SMTT(30)
  DEF CheckoutAssumption, Init, TypeOK, Idle, NoHook

(* Every step keeps the types, one step of the proof for one action.       *)
LEMMA TypeStep == TypeOK /\ [Next]_vars => TypeOK'
<1>. SUFFICES ASSUME TypeOK, [Next]_vars PROVE TypeOK'
  OBVIOUS
<1>. USE CheckoutAssumption DEF CheckoutAssumption
<1>1. CASE Ordering
  <2>1. ASSUME NEW S \in SUBSET Orders, Release(S)
        PROVE  /\ payment' \in [Orders -> PaymentStatus \cup {"NONE"}]
               /\ tid' \in [Orders -> Keys \cup {NoKey}]
               /\ returned' \in [Orders -> Nat]
    BY <2>1, SMTT(30) DEF Release, TypeOK, FoundApproved, AtToss, PaymentStatus
  <2>2. ASSUME NEW S, NEW o \in Orders
        PROVE  ReleasedOrder(S, o) \in OrderStatus \cup {"NONE"}
    BY DEF ReleasedOrder, TypeOK, OrderStatus
  <2>3. ASSUME NEW o \in Orders, CreateBegin(o) PROVE TypeOK'
    BY <2>3, SMTT(30) DEF CreateBegin, TypeOK, shop, remote
  <2>4. ASSUME NEW c \in creating, CreateCommit(c) PROVE TypeOK'
    BY <2>1, <2>2, <2>4, SMTT(30) DEF CreateCommit, TypeOK, remote, OrderStatus
  <2>5. ASSUME NEW c \in creating, CreateFail(c) PROVE TypeOK'
    BY <2>5 DEF CreateFail, TypeOK, shop, remote
  <2>6. ASSUME NEW o \in Orders, ReleasePending(o) PROVE TypeOK'
    BY <2>1, <2>2, <2>6, SMTT(30) DEF ReleasePending, TypeOK, remote
  <2>. QED
    BY <1>1, <2>3, <2>4, <2>5, <2>6 DEF Ordering
<1>2. CASE Paying
  <2>1. ASSUME NEW o \in Orders, InitPayment(o) PROVE TypeOK'
    BY <2>1, SMTT(30) DEF InitPayment, TypeOK, PaymentStatus, remote
  <2>2. ASSUME NEW o \in Orders, ConfirmCommit(o) PROVE TypeOK'
    BY <2>2, SMTT(30)
    DEF ConfirmCommit, Finish, Idle, TypeOK, PaymentStatus, OrderStatus, remote
  <2>3. ASSUME NEW o \in Orders, ConfirmRefused(o) PROVE TypeOK'
    BY <2>3, SMTT(30) DEF ConfirmRefused, Finish, TypeOK, shop, remote
  <2>4. ASSUME NEW k \in Keys, ConfirmCall(k) PROVE TypeOK'
    BY <2>4, SMTT(30) DEF ConfirmCall, Call, Calls, TypeOK, shop
  <2>5. ASSUME NEW o \in Orders, EndWithoutCommit(o) PROVE TypeOK'
    <3>1. busy[o].op # "none"
      BY <2>5 DEF EndWithoutCommit, RowsFree
    <3>2. busy[o].key \in Keys
      BY <3>1, SMTT(30) DEF TypeOK, Idle
    <3>. QED
      BY <2>5, <3>2, SMTT(30) DEF EndWithoutCommit, Finish, TypeOK, shop
  <2>. QED
    BY <1>2, <2>1, <2>2, <2>3, <2>4, <2>5 DEF Paying
<1>3. CASE Undoing
  <2>1. ASSUME NEW o \in Orders, CancelAtOnce(o) PROVE TypeOK'
    BY <2>1, SMTT(30)
    DEF CancelAtOnce, RestoreAndCancel, TypeOK, OrderStatus, remote
  <2>2. ASSUME NEW o \in Orders, CancelCall(o) PROVE TypeOK'
    BY <2>2, SMTT(30) DEF CancelCall, Call, Calls, TypeOK, shop
  <2>3. ASSUME NEW o \in Orders, CancelCommit(o) PROVE TypeOK'
    BY <2>3, SMTT(30)
    DEF CancelCommit, RestoreAndCancel, Finish, TypeOK, PaymentStatus,
        OrderStatus, remote
  <2>4. ASSUME NEW o \in Orders, RefundRead(o) PROVE TypeOK'
    BY <2>4, SMTT(30) DEF RefundRead, TypeOK, shop, remote
  <2>5. ASSUME NEW o \in Orders, RefundCall(o) PROVE TypeOK'
    BY <2>5, SMTT(30) DEF RefundCall, Call, Calls, TypeOK, shop
  <2>6. ASSUME NEW o \in Orders, RefundCommit(o) PROVE TypeOK'
    BY <2>6, SMTT(30)
    DEF RefundCommit, Finish, TypeOK, PaymentStatus, OrderStatus, remote
  <2>7. ASSUME NEW o \in Orders, RefundNothing(o) PROVE TypeOK'
    BY <2>7, SMTT(30) DEF RefundNothing, TypeOK, OrderStatus, remote
  <2>8. ASSUME NEW o \in Orders, RefundFail(o) PROVE TypeOK'
    BY <2>8, SMTT(30) DEF RefundFail, TypeOK, shop, remote
  <2>9. ASSUME NEW o \in Orders, LateRefundCommit(o) PROVE TypeOK'
    BY <2>9, SMTT(30)
    DEF LateRefundCommit, Finish, Idle, TypeOK, PaymentStatus, remote
  <2>. QED
    BY <1>3, <2>1, <2>2, <2>3, <2>4, <2>5, <2>6, <2>7, <2>8, <2>9 DEF Undoing
<1>4. CASE Fulfilling
  <2>1. ASSUME NEW o \in Orders, InputShipment(o) PROVE TypeOK'
    BY <2>1, SMTT(30) DEF InputShipment, TypeOK, OrderStatus, remote
  <2>2. ASSUME NEW o \in Orders, NEW to \in ManualSettable, UpdateStatus(o, to)
        PROVE  TypeOK'
    BY <2>2, SMTT(30)
    DEF UpdateStatus, ManualSettable, TypeOK, OrderStatus, remote
  <2>. QED
    BY <1>4, <2>1, <2>2 DEF Fulfilling
<1>5. CASE Webhook
  <2>1. ASSUME NEW h \in Handlers, NEW k \in Keys, WebhookFetch(h, k)
        PROVE  TypeOK'
    BY <2>1, SMTT(30) DEF WebhookFetch, KnownTid, TypeOK, shop
  <2>2. ASSUME NEW h \in Handlers, hook[h] # NoHook
        PROVE  hook[h].key \in Keys /\ OrderOf[hook[h].key] \in Orders
    BY <2>2, SMTT(30) DEF TypeOK
  <2>3. ASSUME NEW h \in Handlers, WebhookIgnore(h) PROVE TypeOK'
    BY <2>3, SMTT(30) DEF WebhookIgnore, Done, TypeOK, shop, remote
  <2>4. ASSUME NEW h \in Handlers, WebhookApproved(h) PROVE TypeOK'
    BY <2>2, <2>4, SMTT(30)
    DEF WebhookApproved, Applies, Done, TypeOK, OrderStatus, PaymentStatus,
        remote
  <2>5. ASSUME NEW h \in Handlers, WebhookLateCall(h) PROVE TypeOK'
    BY <2>2, <2>5, SMTT(30)
    DEF WebhookLateCall, Applies, Call, Calls, Done, TypeOK, shop
  <2>6. ASSUME NEW h \in Handlers, WebhookCancelled(h) PROVE TypeOK'
    BY <2>2, <2>6, SMTT(30)
    DEF WebhookCancelled, Applies, RestoreOnce, RestoreAndCancel, Done, TypeOK,
        OrderStatus, PaymentStatus, remote
  <2>7. ASSUME NEW h \in Handlers, WebhookPartlyCancelled(h) PROVE TypeOK'
    BY <2>2, <2>7, SMTT(30)
    DEF WebhookPartlyCancelled, Applies, Done, TypeOK, PaymentStatus, remote
  <2>8. ASSUME NEW h \in Handlers, WebhookFailed(h) PROVE TypeOK'
    BY <2>2, <2>8, SMTT(30)
    DEF WebhookFailed, Applies, RestoreOnce, RestoreAndCancel, Done, TypeOK,
        OrderStatus, PaymentStatus, remote
  <2>9. ASSUME NEW h \in Handlers, WebhookError(h) PROVE TypeOK'
    BY <2>2, <2>9, SMTT(30) DEF WebhookError, Done, TypeOK, shop
  <2>. QED
    BY <1>5, <2>1, <2>3, <2>4, <2>5, <2>6, <2>7, <2>8, <2>9
    DEF Webhook, WebhookAnswer
<1>6. CASE Toss
  <2>1. ASSUME NEW k \in Keys, NEW s \in TossStatus, TossMove(k, s)
        PROVE  toss' \in [Keys -> TossStatus \cup {"NONE"}] /\ due' \subseteq Keys
    BY <2>1, SMTT(30) DEF TossMove, TypeOK
  <2>2. ASSUME TossUnchanged, wire' \subseteq wire,
               toss' \in [Keys -> TossStatus \cup {"NONE"}], due' \subseteq Keys
        PROVE  TypeOK'
    BY <2>2, SMTT(30) DEF TossUnchanged, TypeOK, shop
  <2>3. ASSUME NEW k \in Keys, Authenticate(k) PROVE TypeOK'
    BY <2>1, <2>2, <2>3, SMTT(30) DEF Authenticate, TossStatus
  <2>4. ASSUME NEW k \in Keys, TossApprove(k) PROVE TypeOK'
    BY <2>1, <2>2, <2>4, SMTT(30) DEF TossApprove, TossStatus
  <2>5. ASSUME NEW k \in Keys, TossReject(k) PROVE TypeOK'
    BY <2>1, <2>2, <2>5, SMTT(30) DEF TossReject, TossStatus
  <2>6. ASSUME NEW k \in Keys, TossRepeat(k) PROVE TypeOK'
    BY <2>2, <2>6, SMTT(30) DEF TossRepeat, TypeOK
  <2>7. ASSUME NEW k \in Keys, TossCancel(k) PROVE TypeOK'
    BY <2>1, <2>2, <2>7, SMTT(30) DEF TossCancel, TossStatus
  <2>8. ASSUME NEW k \in Keys, TossExpire(k) PROVE TypeOK'
    BY <2>1, <2>2, <2>8, SMTT(30) DEF TossExpire, TossStatus
  <2>9. ASSUME NEW k \in Keys, ConsolePartialCancel(k) PROVE TypeOK'
    BY <2>1, <2>2, <2>9, SMTT(30) DEF ConsolePartialCancel, TossStatus
  <2>10. ASSUME NEW k \in Keys, Redeliver(k) PROVE TypeOK'
    BY <2>2, <2>10, SMTT(30) DEF Redeliver, TypeOK
  <2>. QED
    BY <1>6, <2>3, <2>4, <2>5, <2>6, <2>7, <2>8, <2>9, <2>10 DEF Toss
<1>7. CASE UNCHANGED vars
  BY <1>7 DEF vars, TypeOK
<1>. QED
  BY <1>1, <1>2, <1>3, <1>4, <1>5, <1>6, <1>7 DEF Next

(* The variables of the model keep their types: no status outside the      *)
(* enumerations of order/models.py and payment/models.py is ever written.  *)
THEOREM TypeCorrect == Spec => []TypeOK
  BY TypeInit, TypeStep, PTL DEF Spec

(* What a handler holds is the key of an existing order, and an old truth. *)
LEMMA HookFacts ==
  ASSUME TypeOK, IInv, NEW h \in Handlers, hook[h] # NoHook
  PROVE  /\ hook[h].key \in Keys
         /\ OrderOf[hook[h].key] \in Orders
         /\ order[OrderOf[hook[h].key]] # "NONE"
         /\ toss[hook[h].key] # "NONE"
         /\ hook[h].seen \in {"DONE", "PARTIAL_CANCELED"} =>
              toss[hook[h].key] \in {"DONE", "CANCELED", "PARTIAL_CANCELED"}
         /\ hook[h].seen = "CANCELED" => toss[hook[h].key] = "CANCELED"
<1>1. hook[h].key \in Keys
  BY SMTT(30) DEF TypeOK
<1>2. OrderOf[hook[h].key] \in Orders
  BY <1>1, CheckoutAssumption DEF CheckoutAssumption
<1>3. /\ toss[hook[h].key] # "NONE"
      /\ hook[h].seen \in {"DONE", "PARTIAL_CANCELED"} =>
           toss[hook[h].key] \in {"DONE", "CANCELED", "PARTIAL_CANCELED"}
      /\ hook[h].seen = "CANCELED" => toss[hook[h].key] = "CANCELED"
  BY DEF IInv, SeenWasTrue
<1>4. order[OrderOf[hook[h].key]] # "NONE"
  BY <1>1, <1>3 DEF IInv, OrderFirst
<1>. QED
  BY <1>1, <1>2, <1>3, <1>4

(* A handler that ends leaves what the other handlers know.                *)
LEMMA DoneKeepsSeen ==
  ASSUME TypeOK, IInv, NEW h \in Handlers, Done(h), hook[h] # NoHook, toss' = toss,
         due' \subseteq due \cup {hook[h].key}
  PROVE  SeenWasTrue'
<1>1. \A k \in due' : toss'[k] # "NONE"
  BY HookFacts DEF IInv, SeenWasTrue
<1>2. \A g \in Handlers : hook'[g] = NoHook \/ hook'[g] = hook[g]
  BY SMTT(30) DEF Done, TypeOK
<1>. QED
  BY <1>1, <1>2, Zenon DEF IInv, SeenWasTrue

(* The orders that are being created stay new when another one is begun.   *)
LEMMA NewBegun ==
  ASSUME NewIsNew, NEW n, n \notin creating, creating' = creating \cup {n},
         order' = order, order[n.new] = "NONE", \A c \in creating : c.new # n.new
  PROVE  NewIsNew'
  BY Zenon DEF NewIsNew

(* A change of an existing order is not a change of a new one.             *)
LEMMA NewStays ==
  ASSUME TypeOK, NewIsNew, creating' = creating, NEW o \in Orders,
         order[o] # "NONE", NEW s,
         order' = order \/ order' = [order EXCEPT ![o] = s]
  PROVE  NewIsNew'
<1>1. ASSUME NEW c \in creating PROVE order'[c.new] = order[c.new]
  <2>1. c.new \in Orders /\ c.new # o
    BY DEF TypeOK, NewIsNew
  <2>. QED
    BY <2>1 DEF TypeOK
<1>. QED
  BY <1>1, Zenon DEF NewIsNew

(* Every step keeps the inductive invariant, one step of the proof for one *)
(* action.  Only UpdateStatus needs that admins follow the flow.           *)
LEMMA IInvStep == AdminsFollowFlow /\ TypeOK /\ IInv /\ [Next]_vars => IInv'
<1>. SUFFICES ASSUME AdminsFollowFlow, TypeOK, IInv, [Next]_vars PROVE IInv'
  OBVIOUS
<1>. USE CheckoutAssumption
     DEF CheckoutAssumption, TypeOK, IInv, LocksHold, NewIsNew, OrderFirst,
         SeenWasTrue, NoDoubleSale, FulfilmentIsPaid, BooksFollowToss,
         RefundsComeLate, ChargedOnce, Open, AtToss,
         OrderStatus, PaymentStatus, TossStatus, SafeToRelease, PaidStatuses,
         Fulfilment, Closed, Idle, NoHook
<1>1. CASE Ordering
  <2>1. ASSUME NEW o \in Orders, CreateBegin(o) PROVE IInv'
    <3>1. NewIsNew'
      <4>. DEFINE n == [new |-> o, stale |-> {p \in Orders :
                          Buyer[p] = Buyer[o] /\ order[p] = "PENDING"}]
      <4>1. n.new = o /\ n \notin creating
        BY <2>1 DEF CreateBegin
      <4>2. /\ creating' = creating \cup {n}
            /\ order' = order
            /\ order[n.new] = "NONE"
            /\ \A c \in creating : c.new # n.new
        BY <2>1, <4>1 DEF CreateBegin, shop
      <4>3. NewIsNew
        OBVIOUS
      <4>. HIDE DEF n, NewIsNew
      <4>. QED
        BY <4>1, <4>2, <4>3, NewBegun
    <3>. QED
      BY <2>1, <3>1, SMTT(30) DEF CreateBegin, shop, remote
  <2>2. ASSUME NEW c \in creating, CreateCommit(c) PROVE IInv'
    BY <2>2, SMTT(60)
    DEF CreateCommit, Release, ReleasedOrder, FoundApproved, MayRelease,
        RowsFree, remote
  <2>3. ASSUME NEW c \in creating, CreateFail(c) PROVE IInv'
    BY <2>3, SMTT(60) DEF CreateFail, shop, remote
  <2>4. ASSUME NEW o \in Orders, ReleasePending(o) PROVE IInv'
    BY <2>4, SMTT(60)
    DEF ReleasePending, Release, ReleasedOrder, FoundApproved, MayRelease,
        RowsFree, remote
  <2>. QED
    BY <1>1, <2>1, <2>2, <2>3, <2>4 DEF Ordering
<1>2. CASE Paying
  <2>1. ASSUME NEW o \in Orders, InitPayment(o) PROVE IInv'
    BY <2>1, SMTT(60) DEF InitPayment, OrderRowFree, remote
  <2>2. ASSUME NEW o \in Orders, ConfirmCommit(o) PROVE IInv'
    BY <2>2, SMTT(60) DEF ConfirmCommit, Finish, remote
  <2>3. ASSUME NEW o \in Orders, ConfirmRefused(o) PROVE IInv'
    BY <2>3, SMTT(60) DEF ConfirmRefused, Finish, shop, remote
  <2>4. ASSUME NEW k \in Keys, ConfirmCall(k) PROVE IInv'
    BY <2>4, SMTT(60) DEF ConfirmCall, Call, RowsFree, shop
  <2>5. ASSUME NEW o \in Orders, EndWithoutCommit(o) PROVE IInv'
    <3>1. busy[o].op = "lateRefund" => busy[o] # Idle
      BY SMTT(30)
    <3>. QED
      BY <2>5, <3>1, SMTT(30) DEF EndWithoutCommit, RowsFree, Finish, shop
  <2>. QED
    BY <1>2, <2>1, <2>2, <2>3, <2>4, <2>5 DEF Paying
<1>3. CASE Undoing
  <2>1. ASSUME NEW o \in Orders, CancelAtOnce(o) PROVE IInv'
    BY <2>1, SMTT(60)
    DEF CancelAtOnce, NothingToRefund, OrderRowFree, RowsFree, RestoreAndCancel,
        Cancellable, remote
  <2>2. ASSUME NEW o \in Orders, CancelCall(o) PROVE IInv'
    BY <2>2, SMTT(60) DEF CancelCall, Call, RowsFree, shop
  <2>3. ASSUME NEW o \in Orders, CancelCommit(o) PROVE IInv'
    BY <2>3, SMTT(60) DEF CancelCommit, RestoreAndCancel, Finish, remote
  <2>4. ASSUME NEW o \in Orders, RefundRead(o) PROVE IInv'
    BY <2>4, SMTT(60) DEF RefundRead, shop, remote
  <2>5. ASSUME NEW o \in Orders, RefundCall(o) PROVE IInv'
    BY <2>5, SMTT(60) DEF RefundCall, Call, RowsFree, shop
  <2>6. ASSUME NEW o \in Orders, RefundCommit(o) PROVE IInv'
    BY <2>6, SMTT(60) DEF RefundCommit, Finish, remote
  <2>7. ASSUME NEW o \in Orders, RefundNothing(o) PROVE IInv'
    BY <2>7, SMTT(60) DEF RefundNothing, RowsFree, remote
  <2>8. ASSUME NEW o \in Orders, RefundFail(o) PROVE IInv'
    BY <2>8, SMTT(60) DEF RefundFail, shop, remote
  <2>9. ASSUME NEW o \in Orders, LateRefundCommit(o) PROVE IInv'
    BY <2>9, SMTT(60) DEF LateRefundCommit, Finish, remote
  <2>. QED
    BY <1>3, <2>1, <2>2, <2>3, <2>4, <2>5, <2>6, <2>7, <2>8, <2>9 DEF Undoing
<1>4. CASE Fulfilling
  <2>1. ASSUME NEW o \in Orders, InputShipment(o) PROVE IInv'
    BY <2>1, SMTT(60) DEF InputShipment, OrderRowFree, remote
  <2>2. ASSUME NEW o \in Orders, NEW to \in ManualSettable, UpdateStatus(o, to)
        PROVE  IInv'
    BY <2>2, SMTT(60)
    DEF UpdateStatus, OrderRowFree, ManualSettable, AdminsFollowFlow, remote
  <2>. QED
    BY <1>4, <2>1, <2>2 DEF Fulfilling
<1>5. CASE Webhook
  <2>. HIDE DEF SeenWasTrue, TypeOK
  <2>1. /\ order \in [Orders -> OrderStatus \cup {"NONE"}]
        /\ payment \in [Orders -> PaymentStatus \cup {"NONE"}]
        /\ tid \in [Orders -> Keys \cup {NoKey}]
        /\ returned \in [Orders -> Nat]
        /\ busy \in [Orders -> [op : Calls, key : Keys] \cup {Idle}]
        /\ toss \in [Keys -> TossStatus \cup {"NONE"}]
    BY DEF TypeOK
  <2>2. ASSUME shop' = shop, busy' = busy, creating' = creating,
               reading' = reading, toss' = toss, wire' = wire, SeenWasTrue'
        PROVE  IInv'
    BY <2>2, SMTT(30) DEF shop
  <2>3. ASSUME NEW h \in Handlers, NEW k \in Keys, WebhookFetch(h, k)
        PROVE  IInv'
    <3>1. \A j \in due' : toss'[j] # "NONE"
      BY <2>3 DEF WebhookFetch, SeenWasTrue
    <3>2. ASSUME NEW g \in Handlers, g # h PROVE hook'[g] = hook[g]
      BY <2>3, <3>2 DEF WebhookFetch, TypeOK
    <3>3. hook'[h].key = k /\ hook'[h].seen = toss[k] /\ toss[k] # "NONE"
      BY <2>3, SMTT(30) DEF WebhookFetch, TypeOK, SeenWasTrue
    <3>4. SeenWasTrue'
      BY <2>3, <3>1, <3>2, <3>3, SMTT(30) DEF WebhookFetch, SeenWasTrue
    <3>. QED
      BY <2>2, <2>3, <3>4 DEF WebhookFetch, shop
  <2>4. ASSUME NEW h \in Handlers, WebhookIgnore(h) PROVE IInv'
    <3>1. SeenWasTrue'
      BY <2>4, DoneKeepsSeen DEF WebhookIgnore, remote
    <3>. QED
      BY <2>2, <2>4, <3>1 DEF WebhookIgnore, remote
  <2>5. ASSUME NEW h \in Handlers, WebhookError(h) PROVE IInv'
    <3>1. SeenWasTrue'
      BY <2>5, DoneKeepsSeen DEF WebhookError
    <3>. QED
      BY <2>2, <2>5, <3>1 DEF WebhookError
  <2>6. ASSUME NEW h \in Handlers, WebhookApproved(h) PROVE IInv'
    <3>. DEFINE k == hook[h].key
                o == OrderOf[k]
    <3>1. SeenWasTrue'
      BY <2>6, DoneKeepsSeen DEF WebhookApproved, Applies, remote
    <3>2. /\ k \in Keys /\ o \in Orders
          /\ order[o] # "NONE" /\ busy[o].op = "none"
          /\ order[o] # "CANCELLED"
          /\ toss[k] \in {"DONE", "CANCELED", "PARTIAL_CANCELED"}
      BY <2>6, HookFacts DEF WebhookApproved, Applies, RowsFree
    <3>3. /\ UNCHANGED <<busy, creating, reading, toss, wire>>
          /\ returned' = returned
          /\ payment' = [payment EXCEPT ![o] = "PAID"]
          /\ tid' = [tid EXCEPT ![o] = k]
          /\ \/ order' = order /\ order[o] # "PENDING"
             \/ order' = [order EXCEPT ![o] = "PAID"] /\ order[o] = "PENDING"
      <4>1. order' = [order EXCEPT ![o] =
                        IF order[o] = "PENDING" THEN "PAID" ELSE order[o]]
        BY <2>1, <2>6, <3>2 DEF WebhookApproved
      <4>2. CASE order[o] = "PENDING"
        BY <2>6, <4>1, <4>2 DEF WebhookApproved, remote
      <4>3. CASE order[o] # "PENDING"
        <5>1. order' = order
          BY <2>1, <4>1, <4>3
        <5>. QED
          BY <2>6, <4>3, <5>1 DEF WebhookApproved, remote
      <4>. QED
        BY <4>2, <4>3
    <3>4. NewIsNew'
      <4>1. NewIsNew
        OBVIOUS
      <4>2. order' = order \/ order' = [order EXCEPT ![o] = "PAID"]
        BY <3>3
      <4>. HIDE DEF o, NewIsNew
      <4>. QED
        BY <3>2, <3>3, <4>1, <4>2, NewStays
    <3>. HIDE DEF k, o
    <3>5. LocksHold'
      BY <2>1, <3>2, <3>3, SMTT(30)
    <3>6. OrderFirst'
      BY <2>1, <3>2, <3>3, SMTT(30)
    <3>7. NoDoubleSale' /\ FulfilmentIsPaid' /\ BooksFollowToss'
      BY <2>1, <3>2, <3>3, SMTT(30) DEF k, o
    <3>8. RefundsComeLate' /\ ChargedOnce'
      BY <2>1, <3>2, <3>3, SMTT(30)
    <3>. QED
      BY <3>1, <3>4, <3>5, <3>6, <3>7, <3>8
  <2>7. ASSUME NEW h \in Handlers, WebhookLateCall(h) PROVE IInv'
    <3>1. SeenWasTrue'
      BY <2>7, DoneKeepsSeen DEF WebhookLateCall, Applies, Call, shop
    <3>2. LocksHold' /\ NewIsNew' /\ OrderFirst'
      BY <2>1, <2>7, HookFacts, SMTT(30)
      DEF WebhookLateCall, Applies, RowsFree, Call, shop
    <3>3. /\ NoDoubleSale' /\ FulfilmentIsPaid' /\ BooksFollowToss'
          /\ RefundsComeLate' /\ ChargedOnce'
      BY <2>1, <2>7, HookFacts, SMTT(30)
      DEF WebhookLateCall, Applies, RowsFree, Call, shop
    <3>. QED
      BY <3>1, <3>2, <3>3
  <2>8. ASSUME NEW h \in Handlers, WebhookCancelled(h) PROVE IInv'
    <3>. DEFINE k == hook[h].key
                o == OrderOf[k]
    <3>1. SeenWasTrue'
      BY <2>8, DoneKeepsSeen DEF WebhookCancelled, Applies, remote
    <3>2. /\ k \in Keys /\ o \in Orders
          /\ order[o] # "NONE" /\ busy[o].op = "none"
          /\ toss[k] = "CANCELED"
      BY <2>8, HookFacts DEF WebhookCancelled, Applies, RowsFree
    <3>3. /\ UNCHANGED <<busy, creating, reading, toss, wire>>
          /\ tid' = tid
          /\ payment' = [payment EXCEPT ![o] = "CANCELLED"]
          /\ \/ /\ order[o] = "CANCELLED"
                /\ order' = order /\ returned' = returned
             \/ /\ order' = [order EXCEPT ![o] = "CANCELLED"]
                /\ returned' = [returned EXCEPT ![o] = @ + 1]
      BY <2>8 DEF WebhookCancelled, RestoreOnce, RestoreAndCancel, remote
    <3>4. NewIsNew'
      <4>1. NewIsNew
        OBVIOUS
      <4>. HIDE DEF o, NewIsNew
      <4>. QED
        BY <3>2, <3>3, <4>1, NewStays
    <3>. HIDE DEF k, o
    <3>5. LocksHold'
      BY <2>1, <3>2, <3>3, SMTT(30)
    <3>6. OrderFirst'
      BY <2>1, <3>2, <3>3, SMTT(30)
    <3>7. NoDoubleSale' /\ FulfilmentIsPaid' /\ BooksFollowToss'
      BY <2>1, <3>2, <3>3, SMTT(30) DEF k, o
    <3>8. RefundsComeLate' /\ ChargedOnce'
      BY <2>1, <3>2, <3>3, SMTT(30)
    <3>. QED
      BY <3>1, <3>4, <3>5, <3>6, <3>7, <3>8
  <2>9. ASSUME NEW h \in Handlers, WebhookPartlyCancelled(h) PROVE IInv'
    <3>1. SeenWasTrue'
      BY <2>9, DoneKeepsSeen DEF WebhookPartlyCancelled, Applies, remote
    <3>2. LocksHold' /\ NewIsNew' /\ OrderFirst'
      BY <2>1, <2>9, HookFacts, SMTT(30)
      DEF WebhookPartlyCancelled, Applies, RowsFree, remote
    <3>3. /\ NoDoubleSale' /\ FulfilmentIsPaid' /\ BooksFollowToss'
          /\ RefundsComeLate' /\ ChargedOnce'
      BY <2>1, <2>9, HookFacts, SMTT(30)
      DEF WebhookPartlyCancelled, Applies, RowsFree, remote
    <3>. QED
      BY <3>1, <3>2, <3>3
  <2>10. ASSUME NEW h \in Handlers, WebhookFailed(h) PROVE IInv'
    <3>. DEFINE k == hook[h].key
                o == OrderOf[k]
    <3>1. SeenWasTrue'
      BY <2>10, DoneKeepsSeen DEF WebhookFailed, Applies, remote
    <3>2. /\ k \in Keys /\ o \in Orders
          /\ order[o] # "NONE" /\ busy[o].op = "none"
          /\ payment[o] # "PAID"
      BY <2>10, HookFacts DEF WebhookFailed, Applies, RowsFree, Settled
    <3>3. /\ UNCHANGED <<busy, creating, reading, toss, wire>>
          /\ tid' = tid
          /\ payment' = [payment EXCEPT ![o] = "FAILED"]
          /\ \/ /\ order[o] = "CANCELLED"
                /\ order' = order /\ returned' = returned
             \/ /\ order' = [order EXCEPT ![o] = "CANCELLED"]
                /\ returned' = [returned EXCEPT ![o] = @ + 1]
      BY <2>10 DEF WebhookFailed, RestoreOnce, RestoreAndCancel, remote
    <3>4. NewIsNew'
      <4>1. NewIsNew
        OBVIOUS
      <4>. HIDE DEF o, NewIsNew
      <4>. QED
        BY <3>2, <3>3, <4>1, NewStays
    <3>. HIDE DEF k, o
    <3>5. LocksHold'
      BY <2>1, <3>2, <3>3, SMTT(30)
    <3>6. OrderFirst'
      BY <2>1, <3>2, <3>3, SMTT(30)
    <3>7. NoDoubleSale' /\ FulfilmentIsPaid' /\ BooksFollowToss'
      BY <2>1, <3>2, <3>3, SMTT(30) DEF k, o
    <3>8. RefundsComeLate' /\ ChargedOnce'
      BY <2>1, <3>2, <3>3, SMTT(30)
    <3>. QED
      BY <3>1, <3>4, <3>5, <3>6, <3>7, <3>8
  <2>. QED
    BY <1>5, <2>3, <2>4, <2>5, <2>6, <2>7, <2>8, <2>9, <2>10
    DEF Webhook, WebhookAnswer
<1>6. CASE Toss
  <2>1. ASSUME NEW k \in Keys, Authenticate(k) PROVE IInv'
    BY <2>1, SMTT(60) DEF Authenticate, TossMove, TossUnchanged, shop
  <2>2. ASSUME NEW k \in Keys, TossApprove(k) PROVE IInv'
    <3>1. ChargedOnce'
      <4>1. \A j \in Keys : OrderOf[j] = OrderOf[k] =>
              toss[j] \notin {"DONE", "CANCELED", "PARTIAL_CANCELED"}
        BY <2>2 DEF TossApprove, Accepted
      <4>2. \A j \in Keys : j # k => toss'[j] = toss[j]
        BY <2>2 DEF TossApprove, TossMove
      <4>. QED
        BY <4>1, <4>2, SMTT(30)
    <3>2. LocksHold' /\ NewIsNew' /\ OrderFirst' /\ SeenWasTrue'
      BY <2>2, SMTT(30) DEF TossApprove, TossMove, TossUnchanged, shop
    <3>3. NoDoubleSale' /\ FulfilmentIsPaid' /\ BooksFollowToss' /\ RefundsComeLate'
      BY <2>2, SMTT(30) DEF TossApprove, TossMove, TossUnchanged, shop
    <3>. QED
      BY <3>1, <3>2, <3>3
  <2>3. ASSUME NEW k \in Keys, TossReject(k) PROVE IInv'
    BY <2>3, SMTT(60) DEF TossReject, TossMove, TossUnchanged, shop
  <2>4. ASSUME NEW k \in Keys, TossRepeat(k) PROVE IInv'
    BY <2>4, SMTT(60) DEF TossRepeat, TossUnchanged, shop
  <2>5. ASSUME NEW k \in Keys, TossCancel(k) PROVE IInv'
    BY <2>5, SMTT(60) DEF TossCancel, TossMove, TossUnchanged, shop
  <2>6. ASSUME NEW k \in Keys, TossExpire(k) PROVE IInv'
    BY <2>6, SMTT(60) DEF TossExpire, TossMove, TossUnchanged, shop
  <2>7. ASSUME NEW k \in Keys, ConsolePartialCancel(k) PROVE IInv'
    BY <2>7, SMTT(60) DEF ConsolePartialCancel, TossMove, TossUnchanged, shop
  <2>8. ASSUME NEW k \in Keys, Redeliver(k) PROVE IInv'
    BY <2>8, SMTT(60) DEF Redeliver, TossUnchanged, shop
  <2>. QED
    BY <1>6, <2>1, <2>2, <2>3, <2>4, <2>5, <2>6, <2>7, <2>8 DEF Toss
<1>7. CASE UNCHANGED vars
  BY <1>7, SMTT(60) DEF vars
<1>. QED
  BY <1>1, <1>2, <1>3, <1>4, <1>5, <1>6, <1>7 DEF Next

(* Before the first order there is nothing the invariant could be wrong of. *)
LEMMA IInvInit == Init => IInv
  BY CheckoutAssumption, SMTT(30)
  DEF CheckoutAssumption, Init, IInv, LocksHold, NewIsNew, OrderFirst,
      SeenWasTrue, NoDoubleSale, FulfilmentIsPaid, BooksFollowToss,
      RefundsComeLate, ChargedOnce, Open, Idle, NoHook,
      Fulfilment

(* The inductive invariant holds in every reachable state.                 *)
THEOREM Invariance ==
  ASSUME AdminsFollowFlow
  PROVE  Spec => [](TypeOK /\ IInv)
<1>1. Init => TypeOK /\ IInv
  BY TypeInit, IInvInit
<1>2. TypeOK /\ IInv /\ [Next]_vars => (TypeOK /\ IInv)'
  BY AdminsFollowFlow, TypeStep, IInvStep
<1>. QED
  BY <1>1, <1>2, PTL DEF Spec

(* No interleaving of requests, sweepers, webhooks and a slow Toss hands   *)
(* out goods that went back on the shelf: the order lock of                *)
(* confirm_payment does prevent the double sale.                           *)
THEOREM DoubleSaleIsImpossible ==
  ASSUME AdminsFollowFlow
  PROVE  Spec => []NoDoubleSale
<1>1. IInv => NoDoubleSale
  BY DEF IInv
<1>. QED
  BY <1>1, Invariance, PTL

(* No order is fulfilled that was not paid for at Toss and in the books.   *)
THEOREM NothingIsGivenAway ==
  ASSUME AdminsFollowFlow
  PROVE  Spec => []FulfilmentIsPaid
<1>1. IInv => FulfilmentIsPaid
  BY DEF IInv
<1>. QED
  BY <1>1, Invariance, PTL

(* The payment rows never claim a charge or a refund Toss does not know.   *)
THEOREM BooksAreTrue ==
  ASSUME AdminsFollowFlow
  PROVE  Spec => []BooksFollowToss
<1>1. IInv => BooksFollowToss
  BY DEF IInv
<1>. QED
  BY <1>1, Invariance, PTL

-----------------------------------------------------------------------------
(* The refinement.  A step of the shop leaves Toss alone, a step of Toss   *)
(* leaves the shop alone; what either may do to one order is stated first. *)

(* An order being fulfilled whose payment is in the books has its money    *)
(* back.                                                                   *)
PaidBack(o) ==
  order[o] \in Fulfilment /\ payment[o] = "PAID" => AtToss(o, {"CANCELED"})

ShopStep(o) ==
  \/ order'[o] = order[o] /\ returned'[o] = returned[o]
  \/ order[o] = "NONE" /\ order'[o] = "PENDING" /\ returned'[o] = returned[o]
  \/ /\ order[o] = "PENDING" /\ order'[o] = "PAID" /\ returned'[o] = returned[o]
     /\ AtToss(o, {"DONE", "PARTIAL_CANCELED"})
  \/ /\ order[o] \notin {"NONE", "CANCELLED"} /\ order'[o] = "CANCELLED"
     /\ returned'[o] = returned[o] + 1
     /\ PaidBack(o)
  \/ /\ order[o] \notin Open /\ order'[o] \notin Open \cup {"CANCELLED"}
     /\ returned'[o] = returned[o]
     /\ order'[o] = "REFUNDED" => PaidBack(o)

(* A ShopStep of an order is one of the steps Sale allows it, or a rest.   *)
LEMMA ShopStepIsSaleStep ==
  ASSUME TypeOK, IInv, TypeOK', toss' = toss, \A o \in Orders : ShopStep(o)
  PROVE  [ASale!Next]_<<goods, money>>
<1>1. \A o \in Orders : money'[o] = money[o]
  BY DEF money, AtToss
<1>2. ASSUME NEW o \in Orders
      PROVE  \/ ASale!Reserve(o) \/ ASale!Sell(o) \/ ASale!PutBack(o)
             \/ ASale!Rest(o)
  <2>1. ShopStep(o)
    OBVIOUS
  <2>2. /\ returned[o] \in Nat /\ returned'[o] \in Nat
        /\ order[o] = "NONE" => returned[o] = 0
        /\ returned[o] > 0 => order[o] \in Closed
    BY DEF TypeOK, IInv, OrderFirst, NoDoubleSale
  <2>3. CASE order'[o] = order[o] /\ returned'[o] = returned[o]
    BY <1>1, <2>3 DEF ASale!Rest, goods
  <2>4. CASE order[o] = "NONE" /\ order'[o] = "PENDING" /\ returned'[o] = returned[o]
    BY <1>1, <2>2, <2>4 DEF ASale!Reserve, ASale!GoodsTo, goods
  <2>5. CASE /\ order[o] = "PENDING" /\ order'[o] = "PAID"
             /\ returned'[o] = returned[o]
             /\ AtToss(o, {"DONE", "PARTIAL_CANCELED"})
    <3>1. ~ AtToss(o, {"CANCELED"})
      BY <2>5 DEF IInv, RefundsComeLate, AtToss, Open
    <3>. QED
      BY <1>1, <2>2, <2>5, <3>1
      DEF ASale!Sell, ASale!GoodsTo, goods, money, Closed
  <2>6. CASE /\ order[o] # "NONE" /\ order'[o] = "CANCELLED"
             /\ returned'[o] = returned[o] + 1
    BY <1>1, <2>2, <2>6
    DEF ASale!PutBack, ASale!Rest, ASale!GoodsTo, goods
  <2>7. CASE /\ order[o] \notin Open /\ order'[o] \notin Open
             /\ returned'[o] = returned[o]
    BY <1>1, <2>7 DEF ASale!Rest, goods, Open
  <2>. QED
    BY <2>1, <2>3, <2>4, <2>5, <2>6, <2>7 DEF ShopStep
<1>3. /\ goods' \in [Orders -> {"shelf", "reserved", "sold", "returned"}]
      /\ money' \in [Orders -> {"none", "taken", "refunded"}]
  BY DEF goods, money
<1>. QED
  BY <1>2, <1>3 DEF ASale!Next

TossStep(k) ==
  /\ \A j \in Keys : j # k => toss'[j] = toss[j]
  /\ \/ /\ toss[k] \notin {"DONE", "CANCELED", "PARTIAL_CANCELED"}
        /\ toss'[k] \notin {"DONE", "CANCELED", "PARTIAL_CANCELED"}
     \/ /\ ~ Accepted(OrderOf[k])
        /\ toss[k] # "NONE"
        /\ toss'[k] = "DONE"
     \/ /\ <<"cancel", k>> \in wire
        /\ toss[k] \in {"DONE", "PARTIAL_CANCELED"}
        /\ toss'[k] = "CANCELED"
     \/ toss[k] = "DONE" /\ toss'[k] = "PARTIAL_CANCELED"
     \/ toss'[k] = toss[k]

(* So is what a TossStep does to the order of its paymentKey.              *)
LEMMA TossStepIsSaleStep ==
  ASSUME TypeOK, IInv, shop' = shop, NEW k \in Keys, TossStep(k)
  PROVE  [ASale!Next]_<<goods, money>>
<1>. DEFINE q == OrderOf[k]
<1>1. q \in Orders
  BY CheckoutAssumption DEF CheckoutAssumption
<1>2. \A o \in Orders : goods'[o] = goods[o]
  BY DEF goods, shop
<1>3. ASSUME NEW o \in Orders, o # q PROVE money'[o] = money[o]
  <2>1. \A j \in Keys : OrderOf[j] = o => toss'[j] = toss[j]
    BY <1>3 DEF TossStep
  <2>. QED
    BY <2>1 DEF money, AtToss
<1>4. ASale!Take(q) \/ ASale!GiveBack(q) \/ ASale!Rest(q)
  <2>1. CASE /\ toss[k] \notin {"DONE", "CANCELED", "PARTIAL_CANCELED"}
             /\ toss'[k] \notin {"DONE", "CANCELED", "PARTIAL_CANCELED"}
    <3>1. ASSUME NEW S \in {{"CANCELED"}, {"DONE", "PARTIAL_CANCELED"}}
          PROVE  AtToss(q, S)' <=> AtToss(q, S)
      BY <2>1, <3>1 DEF TossStep, AtToss
    <3>. QED
      BY <1>1, <1>2, <3>1 DEF ASale!Rest, money
  <2>2. CASE ~ Accepted(q) /\ toss[k] # "NONE" /\ toss'[k] = "DONE"
    <3>1. money[q] = "none"
      BY <1>1, <2>2 DEF money, Accepted, AtToss
    <3>2. money'[q] = "taken"
      <4>1. ~ AtToss(q, {"CANCELED"})'
        BY <2>2 DEF TossStep, Accepted, AtToss
      <4>2. AtToss(q, {"DONE", "PARTIAL_CANCELED"})'
        BY <2>2 DEF AtToss
      <4>. QED
        BY <1>1, <4>1, <4>2 DEF money
    <3>3. goods[q] # "shelf"
      BY <1>1, <2>2 DEF goods, IInv, OrderFirst
    <3>. QED
      BY <1>1, <1>2, <3>1, <3>2, <3>3 DEF ASale!Take, ASale!MoneyTo
  <2>3. CASE /\ <<"cancel", k>> \in wire
             /\ toss[k] \in {"DONE", "PARTIAL_CANCELED"}
             /\ toss'[k] = "CANCELED"
    <3>1. money[q] = "taken"
      <4>1. ~ AtToss(q, {"CANCELED"})
        BY <2>3, SMTT(30) DEF IInv, ChargedOnce, AtToss
      <4>2. AtToss(q, {"DONE", "PARTIAL_CANCELED"})
        BY <2>3 DEF AtToss
      <4>. QED
        BY <1>1, <4>1, <4>2 DEF money
    <3>2. money'[q] = "refunded"
      BY <1>1, <2>3 DEF money, AtToss
    <3>3. goods[q] \in {"sold", "returned"}
      BY <1>1, <2>3 DEF goods, IInv, RefundsComeLate, Open
    <3>. QED
      BY <1>1, <1>2, <3>1, <3>2, <3>3 DEF ASale!GiveBack, ASale!MoneyTo
  <2>4. CASE toss[k] = "DONE" /\ toss'[k] = "PARTIAL_CANCELED"
    <3>1. ASSUME NEW S \in {{"CANCELED"}, {"DONE", "PARTIAL_CANCELED"}}
          PROVE  AtToss(q, S)' <=> AtToss(q, S)
      BY <2>4, <3>1 DEF TossStep, AtToss
    <3>. QED
      BY <1>1, <1>2, <3>1 DEF ASale!Rest, money
  <2>5. CASE toss'[k] = toss[k]
    <3>1. \A j \in Keys : toss'[j] = toss[j]
      BY <2>5 DEF TossStep
    <3>. QED
      BY <1>1, <1>2, <3>1 DEF ASale!Rest, money, AtToss
  <2>. QED
    BY <2>1, <2>2, <2>3, <2>4, <2>5 DEF TossStep
<1>5. /\ goods' \in [Orders -> {"shelf", "reserved", "sold", "returned"}]
      /\ money' \in [Orders -> {"none", "taken", "refunded"}]
  BY DEF goods, money
<1>. QED
  BY <1>2, <1>3, <1>4, <1>5 DEF ASale!Next, ASale!Rest

(* A transaction that is told that its charge was cancelled may close the  *)
(* order.                                                                  *)
LEMMA CancelledAtToss ==
  ASSUME TypeOK, IInv, NEW o \in Orders, busy[o].op # "none",
         toss[busy[o].key] = "CANCELED"
  PROVE  PaidBack(o)
<1>1. busy[o].key \in Keys /\ busy[o] # Idle
  BY SMTT(30) DEF TypeOK, Idle
<1>. QED
  BY <1>1 DEF IInv, LocksHold, PaidBack, AtToss

(* Every step of the shop is a ShopStep of every order.                    *)
LEMMA ShopSteps ==
  ASSUME AdminsFollowFlow, TypeOK, IInv,
         Ordering \/ Paying \/ Undoing \/ Fulfilling \/ Webhook
  PROVE  toss' = toss /\ \A p \in Orders : ShopStep(p)
<1>. DEFINE Goal == toss' = toss /\ \A p \in Orders : ShopStep(p)
<1>. USE DEF ShopStep, PaidBack, Fulfilment, Open
<1>1. ASSUME NEW o \in Orders, CreateBegin(o) PROVE Goal
  BY <1>1, SMTT(30) DEF CreateBegin, shop, remote
<1>2. ASSUME NEW c \in creating, CreateCommit(c) PROVE Goal
  BY <1>2, SMTT(30)
  DEF CreateCommit, Release, ReleasedOrder, FoundApproved, MayRelease,
      SafeToRelease, AtToss, IInv, NewIsNew, TypeOK, remote
<1>3. ASSUME NEW c \in creating, CreateFail(c) PROVE Goal
  BY <1>3, SMTT(30) DEF CreateFail, shop, remote
<1>4. ASSUME NEW o \in Orders, ReleasePending(o) PROVE Goal
  BY <1>4, SMTT(30)
  DEF ReleasePending, Release, ReleasedOrder, FoundApproved, MayRelease,
      SafeToRelease, AtToss, TypeOK, remote
<1>5. ASSUME NEW o \in Orders, InitPayment(o) PROVE Goal
  BY <1>5, SMTT(30) DEF InitPayment, remote
<1>6. ASSUME NEW o \in Orders, ConfirmCommit(o) PROVE Goal
  BY <1>6, SMTT(30)
  DEF ConfirmCommit, AtToss, IInv, LocksHold, Idle, TypeOK, remote
<1>7. ASSUME NEW o \in Orders, ConfirmRefused(o) PROVE Goal
  BY <1>7, SMTT(30) DEF ConfirmRefused, shop, remote
<1>8. ASSUME NEW k \in Keys, ConfirmCall(k) PROVE Goal
  BY <1>8, SMTT(30) DEF ConfirmCall, shop
<1>9. ASSUME NEW o \in Orders, EndWithoutCommit(o) PROVE Goal
  BY <1>9, SMTT(30) DEF EndWithoutCommit, shop
<1>10. ASSUME NEW o \in Orders, CancelAtOnce(o) PROVE Goal
  <2>1. PaidBack(o)
    BY <1>10 DEF CancelAtOnce, NothingToRefund
  <2>. HIDE DEF PaidBack
  <2>. QED
    BY <1>10, <2>1, SMTT(30)
    DEF CancelAtOnce, RestoreAndCancel, Cancellable, TypeOK, remote
<1>11. ASSUME NEW o \in Orders, CancelCall(o) PROVE Goal
  BY <1>11, SMTT(30) DEF CancelCall, Call, shop
<1>12. ASSUME NEW o \in Orders, CancelCommit(o) PROVE Goal
  <2>1. order[o] \in PaidStatuses /\ PaidBack(o)
    BY <1>12, CancelledAtToss DEF CancelCommit, IInv, LocksHold
  <2>. HIDE DEF PaidBack
  <2>. QED
    BY <1>12, <2>1, SMTT(30)
    DEF CancelCommit, RestoreAndCancel, PaidStatuses, TypeOK, remote
<1>13. ASSUME NEW o \in Orders, RefundRead(o) PROVE Goal
  BY <1>13, SMTT(30) DEF RefundRead, shop, remote
<1>14. ASSUME NEW o \in Orders, RefundCall(o) PROVE Goal
  BY <1>14, SMTT(30) DEF RefundCall, shop
<1>15. ASSUME NEW o \in Orders, RefundCommit(o) PROVE Goal
  <2>1. order[o] \notin Open /\ PaidBack(o)
    BY <1>15, CancelledAtToss DEF RefundCommit, IInv, LocksHold
  <2>. HIDE DEF PaidBack
  <2>. QED
    BY <1>15, <2>1, SMTT(30) DEF RefundCommit, TypeOK, remote
<1>16. ASSUME NEW o \in Orders, RefundNothing(o) PROVE Goal
  BY <1>16, SMTT(30) DEF RefundNothing, IInv, OrderFirst, TypeOK, remote
<1>17. ASSUME NEW o \in Orders, RefundFail(o) PROVE Goal
  BY <1>17, SMTT(30) DEF RefundFail, shop, remote
<1>18. ASSUME NEW o \in Orders, LateRefundCommit(o) PROVE Goal
  BY <1>18, SMTT(30) DEF LateRefundCommit, remote
<1>19. ASSUME NEW o \in Orders, InputShipment(o) PROVE Goal
  BY <1>19, SMTT(30) DEF InputShipment, PaidStatuses, Open, TypeOK, remote
<1>20. ASSUME NEW o \in Orders, NEW to \in ManualSettable, UpdateStatus(o, to)
       PROVE  Goal
  BY <1>20, SMTT(30)
  DEF UpdateStatus, ManualSettable, AdminsFollowFlow, Fulfilment, Open, TypeOK,
      remote
<1>21. ASSUME NEW h \in Handlers, NEW k \in Keys, WebhookFetch(h, k) PROVE Goal
  BY <1>21, SMTT(30) DEF WebhookFetch, shop
<1>22. ASSUME NEW h \in Handlers, WebhookIgnore(h) PROVE Goal
  BY <1>22, SMTT(30) DEF WebhookIgnore, shop, remote
<1>23. ASSUME NEW h \in Handlers, WebhookApproved(h) PROVE Goal
  <2>1. hook[h] # NoHook /\ hook[h].seen = "DONE"
    BY <1>23 DEF WebhookApproved, Applies
  <2>2. order[OrderOf[hook[h].key]] = "PENDING" =>
          AtToss(OrderOf[hook[h].key], {"DONE", "PARTIAL_CANCELED"})
    BY <2>1, HookFacts DEF AtToss, IInv, RefundsComeLate, Open
  <2>. QED
    BY <1>23, <2>1, <2>2, HookFacts, SMTT(30)
    DEF WebhookApproved, TypeOK, remote
<1>24. ASSUME NEW h \in Handlers, WebhookLateCall(h) PROVE Goal
  BY <1>24, SMTT(30) DEF WebhookLateCall, shop
<1>25. ASSUME NEW h \in Handlers, WebhookCancelled(h) PROVE Goal
  <2>. DEFINE p == OrderOf[hook[h].key]
  <2>1. p \in Orders /\ order[p] # "NONE" /\ PaidBack(p)
    BY <1>25, HookFacts DEF WebhookCancelled, Applies, AtToss
  <2>. HIDE DEF PaidBack
  <2>. QED
    BY <1>25, <2>1, SMTT(30)
    DEF WebhookCancelled, RestoreOnce, RestoreAndCancel, TypeOK, remote
<1>26. ASSUME NEW h \in Handlers, WebhookPartlyCancelled(h) PROVE Goal
  BY <1>26, SMTT(30) DEF WebhookPartlyCancelled, remote
<1>27. ASSUME NEW h \in Handlers, WebhookFailed(h) PROVE Goal
  <2>. DEFINE p == OrderOf[hook[h].key]
  <2>1. p \in Orders /\ order[p] # "NONE" /\ PaidBack(p)
    BY <1>27, HookFacts DEF WebhookFailed, Applies, Settled
  <2>. HIDE DEF PaidBack
  <2>. QED
    BY <1>27, <2>1, SMTT(30)
    DEF WebhookFailed, RestoreOnce, RestoreAndCancel, TypeOK, remote
<1>28. ASSUME NEW h \in Handlers, WebhookError(h) PROVE Goal
  BY <1>28, SMTT(30) DEF WebhookError, shop
<1>. QED
  BY <1>1, <1>2, <1>3, <1>4, <1>5, <1>6, <1>7,
     <1>8, <1>9, <1>10, <1>11, <1>12, <1>13, <1>14,
     <1>15, <1>16, <1>17, <1>18, <1>19, <1>20, <1>21,
     <1>22, <1>23, <1>24, <1>25, <1>26, <1>27, <1>28
  DEF Ordering, Paying, Undoing, Fulfilling, Webhook, WebhookAnswer

(* Every step of Toss is a TossStep of one paymentKey.                     *)
LEMMA TossSteps ==
  ASSUME TypeOK, IInv, Toss
  PROVE  shop' = shop /\ \E k \in Keys : TossStep(k)
<1>1. PICK k \in Keys :
        \/ Authenticate(k) \/ TossApprove(k) \/ TossReject(k) \/ TossRepeat(k)
        \/ TossCancel(k) \/ TossExpire(k) \/ ConsolePartialCancel(k)
        \/ Redeliver(k)
  BY DEF Toss
<1>2. shop' = shop
  BY <1>1
  DEF Authenticate, TossApprove, TossReject, TossRepeat, TossCancel, TossExpire,
      ConsolePartialCancel, Redeliver, TossUnchanged
<1>3. TossStep(k)
  BY <1>1, SMTT(30)
  DEF TossStep, Authenticate, TossApprove, TossReject, TossRepeat, TossCancel,
      TossExpire, ConsolePartialCancel, Redeliver, TossMove, TypeOK
<1>. QED
  BY <1>2, <1>3

(* The checkout implements the sale: whatever the interleaving, an order's *)
(* goods and money only move as module Sale allows.                        *)
THEOREM CheckoutImplementsSale ==
  ASSUME AdminsFollowFlow
  PROVE  Spec => ImplementsSale
<1>1. Init => ASale!Init
  BY CheckoutAssumption, SMTT(30)
  DEF CheckoutAssumption, Init, ASale!Init, goods, money, AtToss
<1>2. TypeOK /\ IInv /\ TypeOK' /\ [Next]_vars => [ASale!Next]_<<goods, money>>
  <2>. SUFFICES ASSUME TypeOK, IInv, TypeOK', [Next]_vars
                PROVE  [ASale!Next]_<<goods, money>>
    OBVIOUS
  <2>1. CASE Ordering \/ Paying \/ Undoing \/ Fulfilling \/ Webhook
    BY <2>1, AdminsFollowFlow, ShopSteps, ShopStepIsSaleStep
  <2>2. CASE Toss
    BY <2>2, TossSteps, TossStepIsSaleStep
  <2>3. CASE UNCHANGED vars
    BY <2>3 DEF vars, goods, money, AtToss
  <2>. QED
    BY <2>1, <2>2, <2>3 DEF Next
<1>3. Spec => [](TypeOK /\ IInv)
  BY AdminsFollowFlow, Invariance
<1>. QED
  BY <1>1, <1>2, <1>3, PTL DEF Spec, ImplementsSale, ASale!Spec, ASale!vars
-----------------------------------------------------------------------------
(* Three properties that hold as long as something else does not happen.   *)

(* Only an operator at Toss's console makes a charge a partial one.        *)
LEMMA PartialStep ==
  ASSUME ~ Console, TypeOK, NothingPartial, [Next]_vars
  PROVE  NothingPartial'
<1>. DEFINE Goal == NothingPartial'
<1>1. ASSUME payment' = payment, toss' = toss, hook' = hook PROVE Goal
  BY <1>1 DEF NothingPartial
<1>2. CASE Ordering
  <2>1. \A S \in SUBSET Orders : Release(S) =>
          \A o \in Orders : payment'[o] \in {payment[o], "PAID"}
    BY DEF Release
  <2>2. toss' = toss /\ hook' = hook
    BY <1>2 DEF Ordering, CreateBegin, CreateCommit, CreateFail, ReleasePending, remote
  <2>3. \/ payment' = payment
        \/ \E S \in SUBSET Orders : Release(S)
    BY <1>2 DEF Ordering, CreateBegin, CreateCommit, CreateFail, ReleasePending,
        shop, TypeOK
  <2>. QED
    BY <2>1, <2>2, <2>3 DEF NothingPartial
<1>3. CASE Paying
  BY <1>3, SMTT(30)
  DEF Paying, InitPayment, ConfirmCommit, ConfirmRefused, ConfirmCall,
      EndWithoutCommit, NothingPartial, TypeOK, shop, remote
<1>4. CASE Undoing
  BY <1>4, SMTT(30)
  DEF Undoing, CancelAtOnce, CancelCall, CancelCommit, RefundRead, RefundCall,
      RefundCommit, RefundNothing, RefundFail, LateRefundCommit,
      NothingPartial, TypeOK, shop, remote
<1>5. CASE Fulfilling
  BY <1>1, <1>5 DEF Fulfilling, InputShipment, UpdateStatus, remote
<1>6. CASE Webhook
  <2>1. ASSUME NEW h \in Handlers, NEW k \in Keys, WebhookFetch(h, k) PROVE Goal
    BY <2>1, SMTT(30) DEF WebhookFetch, NothingPartial, TypeOK, shop
  <2>2. ASSUME NEW h \in Handlers, Done(h), toss' = toss,
               \A o \in Orders : payment'[o] # "PARTIAL_CANCELLED"
        PROVE  Goal
    BY <2>2, SMTT(30) DEF Done, NoHook, NothingPartial, TypeOK
  <2>3. ASSUME NEW h \in Handlers, WebhookAnswer(h) PROVE Goal
    <3>1. ~ WebhookPartlyCancelled(h)
      BY DEF WebhookPartlyCancelled, Applies, NothingPartial
    <3>2. \/ payment' = payment
          \/ \E s \in {"PAID", "CANCELLED", "FAILED"}, o \in Orders \cup {OrderOf[hook[h].key]} :
               payment' = [payment EXCEPT ![o] = s]
      BY <2>3, <3>1
      DEF WebhookAnswer, WebhookIgnore, WebhookApproved, WebhookLateCall,
          WebhookCancelled, WebhookFailed, shop
    <3>3. \A o \in Orders : payment'[o] # "PARTIAL_CANCELLED"
      BY <3>2, SMTT(30) DEF NothingPartial, TypeOK
    <3>4. Done(h) /\ toss' = toss
      BY <2>3, <3>1
      DEF WebhookAnswer, WebhookIgnore, WebhookApproved, WebhookLateCall,
          WebhookCancelled, WebhookFailed, remote
    <3>. QED
      BY <2>2, <3>3, <3>4
  <2>4. ASSUME NEW h \in Handlers, WebhookError(h) PROVE Goal
    BY <2>2, <2>4 DEF WebhookError, NothingPartial, shop
  <2>. QED
    BY <1>6, <2>1, <2>3, <2>4 DEF Webhook
<1>7. CASE Toss
  BY <1>7, SMTT(30)
  DEF Toss, Authenticate, TossApprove, TossReject, TossRepeat, TossCancel,
      TossExpire, ConsolePartialCancel, Redeliver, TossMove, TossUnchanged,
      NothingPartial, TypeOK, shop
<1>8. CASE UNCHANGED vars
  BY <1>1, <1>8 DEF vars
<1>. QED
  BY <1>2, <1>3, <1>4, <1>5, <1>6, <1>7, <1>8 DEF Next

(* Whatever closes an order that is being fulfilled, its money is back:    *)
(* the transaction was told so by Toss, or a webhook saw it.               *)
THEOREM MoneyIsBackFirst ==
  ASSUME AdminsFollowFlow, ~ Console
  PROVE  Spec => PaidBackFirst
<1>. DEFINE Step == \A o \in Orders :
              order[o] \in Fulfilment /\ order'[o] \in Closed =>
                \A k \in Keys :
                  OrderOf[k] = o => toss'[k] \notin {"DONE", "PARTIAL_CANCELED"}
<1>1. Init => NothingPartial
  BY DEF Init, NothingPartial, NoHook
<1>2. TypeOK /\ NothingPartial /\ [Next]_vars => NothingPartial'
  BY PartialStep
<1>3. TypeOK /\ IInv /\ NothingPartial /\ [Next]_vars => Step
  <2>. SUFFICES ASSUME TypeOK, IInv, NothingPartial, [Next]_vars,
                       NEW o \in Orders, order[o] \in Fulfilment, order'[o] \in Closed,
                       NEW k \in Keys, OrderOf[k] = o
                PROVE  toss'[k] \notin {"DONE", "PARTIAL_CANCELED"}
    OBVIOUS
  <2>1. order'[o] # order[o]
    BY DEF Fulfilment, Closed
  <2>2. toss' = toss /\ ShopStep(o)
    <3>1. CASE Ordering \/ Paying \/ Undoing \/ Fulfilling \/ Webhook
      BY <3>1, ShopSteps
    <3>2. CASE Toss \/ UNCHANGED vars
      BY <2>1, <3>2, TossSteps DEF vars, shop
    <3>. QED
      BY <3>1, <3>2 DEF Next
  <2>3. PaidBack(o)
    BY <2>1, <2>2 DEF ShopStep, Fulfilment, Closed
  <2>4. payment[o] = "PAID"
    BY DEF IInv, FulfilmentIsPaid, NothingPartial
  <2>5. PICK j \in Keys : OrderOf[j] = o /\ toss[j] = "CANCELED"
    BY <2>3, <2>4 DEF PaidBack, AtToss
  <2>6. CASE toss[k] \in {"DONE", "PARTIAL_CANCELED"}
    <3>1. j = k
      BY <2>5, <2>6, SMTT(30) DEF IInv, ChargedOnce
    <3>. QED
      BY <2>5, <2>6, <3>1
  <2>. QED
    BY <2>2, <2>6
<1>4. Spec => [](TypeOK /\ IInv)
  BY AdminsFollowFlow, Invariance
<1>5. PaidBackFirst <=> [][Step]_vars
  BY DEF PaidBackFirst
<1>6. TypeOK /\ IInv /\ NothingPartial /\ [Next]_vars => [Step]_vars
  BY <1>3
<1>. HIDE DEF Step
<1>. QED
  BY <1>1, <1>2, <1>4, <1>5, <1>6, PTL DEF Spec

(* Nothing is refunded if nothing is delivered.                            *)
LEMMA RefundedStep ==
  ASSUME AdminsFollowFlow, NothingDelivered, TypeOK, NothingRefunded, [Next]_vars
  PROVE  NothingRefunded'
<1>. USE DEF NothingRefunded, TypeOK
<1>1. CASE Ordering
  <2>1. \A S, o : ReleasedOrder(S, o) \in {order[o], "PAID", "CANCELLED"}
    BY DEF ReleasedOrder
  <2>2. reading' = reading /\ busy' = busy
    BY <1>1 DEF Ordering, CreateBegin, CreateCommit, CreateFail, ReleasePending
  <2>3. ASSUME NEW c \in creating, CreateCommit(c), NEW o \in Orders
        PROVE  order'[o] \in {order[o], "PENDING", "PAID", "CANCELLED"}
    <3>1. PICK S : order' = [p \in Orders |->
                     IF p = c.new THEN "PENDING" ELSE ReleasedOrder(S, p)]
      BY <2>3, Zenon DEF CreateCommit
    <3>. HIDE DEF TypeOK, NothingRefunded
    <3>. QED
      BY <2>1, <3>1
  <2>4. ASSUME NEW q \in Orders, ReleasePending(q), NEW o \in Orders
        PROVE  order'[o] \in {order[o], "PENDING", "PAID", "CANCELLED"}
    <3>1. order' = [p \in Orders |-> ReleasedOrder({q}, p)]
      BY <2>4, Zenon DEF ReleasePending
    <3>. HIDE DEF TypeOK, NothingRefunded
    <3>. QED
      BY <2>1, <3>1
  <2>5. order' = order \/ (\E c \in creating : CreateCommit(c))
          \/ (\E q \in Orders : ReleasePending(q))
    BY <1>1 DEF Ordering, CreateBegin, CreateFail, shop
  <2>. QED
    BY <2>2, <2>3, <2>4, <2>5
<1>2. CASE Paying
  <2>1. ASSUME NEW k \in Keys, ConfirmCall(k) PROVE NothingRefunded'
    BY <2>1 DEF ConfirmCall, Call, shop
  <2>2. ASSUME NEW o \in Orders,
               \/ InitPayment(o) \/ ConfirmCommit(o) \/ ConfirmRefused(o)
               \/ EndWithoutCommit(o)
        PROVE  NothingRefunded'
    BY <2>2, SMTT(30)
    DEF InitPayment, ConfirmCommit, ConfirmRefused, EndWithoutCommit, Finish, shop, Idle
  <2>. QED
    BY <1>2, <2>1, <2>2 DEF Paying
<1>3. CASE Undoing
  BY <1>3, SMTT(30)
  DEF Undoing, CancelAtOnce, CancelCall, CancelCommit, RefundRead, RefundCall,
      RefundCommit, RefundNothing, RefundFail, LateRefundCommit, Call, Finish,
      RestoreAndCancel, shop, Idle
<1>4. CASE Fulfilling
  BY <1>4, SMTT(30)
  DEF Fulfilling, InputShipment, UpdateStatus, ManualSettable, NothingDelivered
<1>5. CASE Webhook
  <2>1. ASSUME NEW h \in Handlers, WebhookLateCall(h) PROVE NothingRefunded'
    BY <2>1, SMTT(30) DEF WebhookLateCall, Call, shop
  <2>2. ASSUME NEW h \in Handlers, WebhookAnswer(h), ~ WebhookLateCall(h)
        PROVE  /\ reading' = reading /\ busy' = busy
               /\ \A o \in Orders : order'[o] \in {order[o], "PAID", "CANCELLED"}
    BY <2>2, SMTT(30)
    DEF WebhookAnswer, WebhookIgnore, WebhookApproved, WebhookCancelled,
        WebhookPartlyCancelled, WebhookFailed, RestoreOnce, RestoreAndCancel, shop
  <2>3. ASSUME NEW h \in Handlers, WebhookError(h) \/ \E k \in Keys : WebhookFetch(h, k)
        PROVE  NothingRefunded'
    BY <2>3 DEF WebhookError, WebhookFetch, shop
  <2>. QED
    BY <1>5, <2>1, <2>2, <2>3 DEF Webhook
<1>6. CASE Toss
  BY <1>6
  DEF Toss, Authenticate, TossApprove, TossReject, TossRepeat, TossCancel,
      TossExpire, ConsolePartialCancel, Redeliver, TossUnchanged, shop
<1>7. CASE UNCHANGED vars
  BY <1>7 DEF vars
<1>. QED
  BY <1>1, <1>2, <1>3, <1>4, <1>5, <1>6, <1>7 DEF Next

(* Buyer, admin, sweeper, the next order and webhooks all put items back;  *)
(* of an order that is not delivered only one of them does.                *)
THEOREM ItemsGoBackOnce ==
  ASSUME AdminsFollowFlow, NothingDelivered
  PROVE  Spec => []ReturnedOnce
<1>1. Init => NothingRefunded /\ ReturnedOnce
  BY DEF Init, NothingRefunded, ReturnedOnce, Idle
<1>2. TypeOK /\ NothingRefunded /\ [Next]_vars => NothingRefunded'
  BY RefundedStep
<1>3. TypeOK /\ IInv /\ NothingRefunded /\ ReturnedOnce /\ [Next]_vars => ReturnedOnce'
  <2>. SUFFICES ASSUME TypeOK, IInv, NothingRefunded, ReturnedOnce, [Next]_vars,
                       NEW o \in Orders
                PROVE  returned'[o] <= 1
    BY DEF ReturnedOnce
  <2>1. returned[o] \in Nat /\ returned[o] <= 1
    BY DEF TypeOK, ReturnedOnce
  <2>2. ShopStep(o) \/ returned'[o] = returned[o]
    BY ShopSteps, TossSteps DEF Next, vars, shop
  <2>3. returned[o] > 0 => order[o] = "CANCELLED"
    BY DEF IInv, NoDoubleSale, Closed, NothingRefunded
  <2>. QED
    BY <2>1, <2>2, <2>3 DEF ShopStep
<1>4. Spec => [](TypeOK /\ IInv)
  BY AdminsFollowFlow, Invariance
<1>. QED
  BY <1>1, <1>2, <1>3, <1>4, PTL DEF Spec
(* A handler that ends leaves what the other handlers know of refusals,    *)
(* also if it enters its own paymentKey in the books.                      *)
LEMMA SeenStaysFinal ==
  ASSUME OneKeyEach, TypeOK, SeenIsFinal, NEW h \in Handlers, Done(h), toss' = toss,
         tid' = tid \/ \E k \in Keys : tid' = [tid EXCEPT ![OrderOf[k]] = k]
  PROVE  SeenIsFinal'
<1>1. ASSUME NEW k \in Keys, KnownTid(k) PROVE KnownTid(k)'
  BY <1>1, CheckoutAssumption DEF CheckoutAssumption, KnownTid, OneKeyEach, TypeOK
<1>2. ASSUME NEW g \in Handlers PROVE hook'[g] = NoHook \/ hook'[g] = hook[g]
  BY DEF Done, TypeOK
<1>3. ASSUME NEW g \in Handlers, hook[g] # NoHook PROVE hook[g].key \in Keys
  BY <1>3, SMTT(30) DEF TypeOK
<1>. QED
  BY <1>1, <1>2, <1>3, Zenon DEF SeenIsFinal

(* Nor does it overlook an approval, if it saw none, or saw one that is    *)
(* settled or that it takes over into a late refund or a new delivery.     *)
KeepsNotice(h, k) ==
  LET o == OrderOf[k]
      late == [op |-> "lateRefund", key |-> k]
  IN  toss[k] = "DONE" /\ order'[o] \in {"PENDING", "CANCELLED"} =>
        /\ order[o] \in {"PENDING", "CANCELLED"}
        /\ payment'[o] = payment[o]
        /\ busy'[o] \in {busy[o], late}
        /\ hook[h].key = k /\ hook[h].seen = "DONE" => k \in due' \/ busy'[o] = late

LEMMA ApprovalStaysNoticed ==
  ASSUME TypeOK, ApprovalIsNoticed, NEW h \in Handlers, hook[h] # NoHook, Done(h),
         toss' = toss, due \subseteq due',
         \A k \in Keys : KeepsNotice(h, k)
  PROVE  ApprovalIsNoticed'
<1>. SUFFICES ASSUME NEW k \in Keys, toss[k] = "DONE",
                     order'[OrderOf[k]] \in {"PENDING", "CANCELLED"}
              PROVE  payment'[OrderOf[k]] = "READY" /\ Noticed(k)'
  BY Zenon DEF ApprovalIsNoticed
<1>1. payment[OrderOf[k]] = "READY" /\ Noticed(k)
  BY DEF ApprovalIsNoticed, KeepsNotice
<1>2. \A g \in Handlers : g # h => hook'[g] = hook[g]
  BY DEF Done, TypeOK
<1>3. Noticed(k)'
  BY <1>1, <1>2 DEF Noticed, KeepsNotice
<1>. QED
  BY <1>1, <1>3 DEF KeepsNotice

LEMMA NoticedIsReady ==
  ASSUME ApprovalIsNoticed, NEW k \in Keys, toss[k] = "DONE",
         order[OrderOf[k]] \in {"PENDING", "CANCELLED"}
  PROVE  payment[OrderOf[k]] = "READY"
  BY DEF ApprovalIsNoticed

(* What a handler has just fetched is as it is at Toss.                    *)
LEMMA FetchedIsFinal ==
  ASSUME SeenIsFinal, toss' = toss, NEW h \in Handlers, NEW k \in Keys,
         \A g \in Handlers \ {h} : hook'[g] = hook[g],
         hook'[h].key = k, hook'[h].seen = toss'[k],
         hook'[h].byNumber = ~ KnownTid(k),
         \A j \in Keys : KnownTid(j)' <=> KnownTid(j),
         \A g \in Handlers : hook[g] # NoHook => hook[g].key \in Keys
  PROVE  SeenIsFinal'
<1>1. hook'[h].byNumber \/ KnownTid(k)'
  BY Zenon
<1>2. ASSUME NEW g \in Handlers \ {h}, hook'[g] # NoHook
      PROVE  /\ hook'[g] = hook[g] /\ hook[g] # NoHook
             /\ KnownTid(hook[g].key)' <=> KnownTid(hook[g].key)
  BY <1>2, Zenon
<1>. QED
  BY <1>1, <1>2, SMTT(30) DEF SeenIsFinal

LEMMA FetchKeepsFinal ==
  ASSUME TypeOK, SeenIsFinal, SeenWasTrue,
         NEW h \in Handlers, NEW k \in Keys, WebhookFetch(h, k)
  PROVE  SeenIsFinal'
<1>1. /\ toss' = toss /\ tid' = tid
      /\ hook' = [hook EXCEPT ![h] =
                    [key |-> k, seen |-> toss[k], byNumber |-> ~ KnownTid(k)]]
  BY DEF WebhookFetch, shop
<1>2. /\ DOMAIN hook = Handlers
      /\ \A g \in Handlers : hook[g] # NoHook => hook[g].key \in Keys
  BY SMTT(30) DEF TypeOK
<1>3. /\ \A g \in Handlers \ {h} : hook'[g] = hook[g]
      /\ hook'[h] = [key |-> k, seen |-> toss[k], byNumber |-> ~ KnownTid(k)]
  BY <1>1, <1>2, Zenon
<1>4. hook'[h].key = k /\ hook'[h].seen = toss'[k]
  BY <1>1, <1>3
<1>5. hook'[h].byNumber = ~ KnownTid(k)
  <2>. DEFINE b == ~ KnownTid(k)
  <2>1. hook'[h] = [key |-> k, seen |-> toss[k], byNumber |-> b]
    BY <1>3
  <2>. HIDE DEF b
  <2>2. hook'[h].byNumber = b
    BY <2>1, SMT
  <2>. QED
    BY <2>2 DEF b
<1>6. \A j \in Keys : KnownTid(j)' <=> KnownTid(j)
  BY <1>1 DEF KnownTid
<1>. QED
  BY <1>1, <1>2, <1>3, <1>4, <1>5, <1>6, FetchedIsFinal

(* With one paymentKey per order, the books follow it.                     *)
LEMMA BooksStep ==
  ASSUME OneKeyEach, AdminsFollowFlow, TypeOK, IInv, BooksFollowKey, [Next]_vars
  PROVE  BooksFollowKey'
<1>. USE CheckoutAssumption
     DEF CheckoutAssumption, TypeOK, IInv, LocksHold, NewIsNew, OrderFirst, SeenWasTrue,
         FulfilmentIsPaid, BooksFollowToss, RefundsComeLate, Open, AtToss, OneKeyEach,
         SafeToRelease, PaidStatuses, TossStatus, Fulfilment, Idle, NoHook,
         BooksFollowKey, RowsFollowKeys, SeenIsFinal, ApprovalIsNoticed, Noticed, KnownTid
<1>1. CASE Ordering
  <2>1. ASSUME NEW o \in Orders, CreateBegin(o) PROVE BooksFollowKey'
    BY <2>1, SMTT(30)
    DEF CreateBegin, shop, remote
  <2>2. ASSUME NEW c \in creating, CreateCommit(c) PROVE BooksFollowKey'
    BY <2>2, SMTT(30)
    DEF CreateCommit, Release, ReleasedOrder, FoundApproved, MayRelease, remote
  <2>3. ASSUME NEW c \in creating, CreateFail(c) PROVE BooksFollowKey'
    BY <2>3, SMTT(30)
    DEF CreateFail, shop, remote
  <2>4. ASSUME NEW o \in Orders, ReleasePending(o) PROVE BooksFollowKey'
    BY <2>4, SMTT(30)
    DEF ReleasePending, Release, ReleasedOrder, FoundApproved, MayRelease, remote
  <2>. QED
    BY <1>1, <2>1, <2>2, <2>3, <2>4 DEF Ordering
<1>2. CASE Paying
  <2>1. ASSUME NEW o \in Orders, InitPayment(o) PROVE BooksFollowKey'
    BY <2>1, SMTT(30)
    DEF InitPayment, remote
  <2>2. ASSUME NEW o \in Orders, ConfirmCommit(o) PROVE BooksFollowKey'
    BY <2>2, SMTT(30)
    DEF ConfirmCommit, Finish, remote
  <2>3. ASSUME NEW o \in Orders, ConfirmRefused(o) PROVE BooksFollowKey'
    BY <2>3, SMTT(30)
    DEF ConfirmRefused, Finish, shop, remote
  <2>4. ASSUME NEW k \in Keys, ConfirmCall(k) PROVE BooksFollowKey'
    BY <2>4, SMTT(30)
    DEF ConfirmCall, Call, RowsFree, shop
  <2>5. ASSUME NEW o \in Orders, EndWithoutCommit(o) PROVE BooksFollowKey'
    BY <2>5, SMTT(30)
    DEF EndWithoutCommit, RowsFree, Finish, shop
  <2>. QED
    BY <1>2, <2>1, <2>2, <2>3, <2>4, <2>5 DEF Paying
<1>3. CASE Undoing
  <2>1. ASSUME NEW o \in Orders, CancelAtOnce(o) PROVE BooksFollowKey'
    BY <2>1, SMTT(30)
    DEF CancelAtOnce, NothingToRefund, RestoreAndCancel, Cancellable, remote
  <2>2. ASSUME NEW o \in Orders, CancelCall(o) PROVE BooksFollowKey'
    BY <2>2, SMTT(30)
    DEF CancelCall, Call, RowsFree, shop
  <2>3. ASSUME NEW o \in Orders, CancelCommit(o) PROVE BooksFollowKey'
    BY <2>3, SMTT(30)
    DEF CancelCommit, RestoreAndCancel, Finish, remote
  <2>4. ASSUME NEW o \in Orders, RefundRead(o) PROVE BooksFollowKey'
    BY <2>4, SMTT(30)
    DEF RefundRead, shop, remote
  <2>5. ASSUME NEW o \in Orders, RefundCall(o) PROVE BooksFollowKey'
    BY <2>5, SMTT(30)
    DEF RefundCall, Call, RowsFree, shop
  <2>6. ASSUME NEW o \in Orders, RefundCommit(o) PROVE BooksFollowKey'
    BY <2>6, SMTT(30)
    DEF RefundCommit, Finish, remote
  <2>7. ASSUME NEW o \in Orders, RefundNothing(o) PROVE BooksFollowKey'
    BY <2>7, SMTT(30)
    DEF RefundNothing, remote
  <2>8. ASSUME NEW o \in Orders, RefundFail(o) PROVE BooksFollowKey'
    BY <2>8, SMTT(30)
    DEF RefundFail, shop, remote
  <2>9. ASSUME NEW o \in Orders, LateRefundCommit(o) PROVE BooksFollowKey'
    BY <2>9, SMTT(30)
    DEF LateRefundCommit, Finish, remote
  <2>. QED
    BY <1>3, <2>1, <2>2, <2>3, <2>4, <2>5, <2>6, <2>7, <2>8, <2>9 DEF Undoing
<1>4. CASE Fulfilling
  <2>1. ASSUME NEW o \in Orders, InputShipment(o) PROVE BooksFollowKey'
    BY <2>1, SMTT(30)
    DEF InputShipment, remote
  <2>2. ASSUME NEW o \in Orders, NEW to \in ManualSettable, UpdateStatus(o, to) PROVE BooksFollowKey'
    BY <2>2, SMTT(30)
    DEF UpdateStatus, ManualSettable, AdminsFollowFlow, remote
  <2>. QED
    BY <1>4, <2>1, <2>2 DEF Fulfilling
<1>5. CASE Toss
  <2>1. ASSUME NEW k \in Keys, Authenticate(k) PROVE BooksFollowKey'
    BY <2>1, SMTT(30)
    DEF Authenticate, TossMove, TossUnchanged, shop
  <2>2. ASSUME NEW k \in Keys, TossApprove(k) PROVE BooksFollowKey'
    <3>1. RowsFollowKeys' /\ SeenIsFinal'
      BY <2>2, SMTT(30) DEF TossApprove, TossMove, TossUnchanged, shop
    <3>2. toss[k] = "IN_PROGRESS"
      BY <2>2 DEF TossApprove
    <3>3. order[OrderOf[k]] \in {"PENDING", "CANCELLED"} => payment[OrderOf[k]] = "READY"
      <4>1. OrderOf[k] \in Orders /\ payment[OrderOf[k]] \in PaymentStatus \cup {"NONE"}
        OBVIOUS
      <4>2. payment[OrderOf[k]] # "PAID"
        BY <3>2, <4>1
      <4>3. payment[OrderOf[k]] \notin {"CANCELLED", "FAILED", "PARTIAL_CANCELLED", "NONE"}
        BY <3>2, <4>1
      <4>. QED
        BY <4>1, <4>2, <4>3 DEF PaymentStatus
    <3>4. ApprovalIsNoticed'
      BY <2>2, <3>3, SMTT(30) DEF TossApprove, TossMove, TossUnchanged, shop
    <3>. QED
      BY <3>1, <3>4
  <2>3. ASSUME NEW k \in Keys, TossReject(k) PROVE BooksFollowKey'
    BY <2>3, SMTT(30)
    DEF TossReject, TossMove, TossUnchanged, shop
  <2>4. ASSUME NEW k \in Keys, TossRepeat(k) PROVE BooksFollowKey'
    BY <2>4, SMTT(30)
    DEF TossRepeat, TossMove, TossUnchanged, shop
  <2>5. ASSUME NEW k \in Keys, TossCancel(k) PROVE BooksFollowKey'
    BY <2>5, SMTT(30)
    DEF TossCancel, TossMove, TossUnchanged, shop
  <2>6. ASSUME NEW k \in Keys, TossExpire(k) PROVE BooksFollowKey'
    BY <2>6, SMTT(30)
    DEF TossExpire, TossMove, TossUnchanged, shop
  <2>7. ASSUME NEW k \in Keys, ConsolePartialCancel(k) PROVE BooksFollowKey'
    BY <2>7, SMTT(30)
    DEF ConsolePartialCancel, TossMove, TossUnchanged, shop
  <2>8. ASSUME NEW k \in Keys, Redeliver(k) PROVE BooksFollowKey'
    BY <2>8, SMTT(30)
    DEF Redeliver, TossMove, TossUnchanged, shop
  <2>. QED
    BY <1>5, <2>1, <2>2, <2>3, <2>4, <2>5, <2>6, <2>7, <2>8 DEF Toss
<1>6. CASE Webhook
  <2>. HIDE DEF TypeOK, SeenIsFinal, ApprovalIsNoticed, SeenWasTrue, KnownTid
  <2>1. /\ order \in [Orders -> OrderStatus \cup {"NONE"}]
        /\ payment \in [Orders -> PaymentStatus \cup {"NONE"}]
        /\ tid \in [Orders -> Keys \cup {NoKey}]
        /\ busy \in [Orders -> [op : Calls, key : Keys] \cup {Idle}]
    BY DEF TypeOK
  <2>2. ASSUME NEW h \in Handlers, NEW k \in Keys, WebhookFetch(h, k)
        PROVE  BooksFollowKey'
    <3>1. /\ \A g \in Handlers \ {h} : hook'[g] = hook[g]
          /\ hook'[h] = [key |-> k, seen |-> toss[k], byNumber |-> ~ KnownTid(k)]
          /\ toss' = toss /\ tid' = tid /\ order' = order /\ payment' = payment
          /\ busy' = busy /\ due' = due \ {k}
      BY <2>2 DEF WebhookFetch, TypeOK, shop
    <3>2. RowsFollowKeys'
      BY <3>1
    <3>3. SeenIsFinal'
      BY <2>2, FetchKeepsFinal
    <3>4. ASSUME NEW j \in Keys, toss[j] = "DONE", Noticed(j) PROVE Noticed(j)'
      <4>1. hook[h] = NoHook
        BY <2>2 DEF WebhookFetch
      <4>. QED
        BY <3>1, <3>4, <4>1, SMTT(30)
    <3>5. ApprovalIsNoticed'
      BY <3>1, <3>4, Zenon DEF ApprovalIsNoticed
    <3>. QED
      BY <3>2, <3>3, <3>5
  <2>3. ASSUME NEW h \in Handlers, hook[h] # NoHook
        PROVE  LET k == hook[h].key
                   o == OrderOf[k]
               IN  /\ k \in Keys /\ o \in Orders
                   /\ order[o] # "NONE" /\ toss[k] # "NONE"
                   /\ hook[h].seen = "CANCELED" => toss[k] = "CANCELED"
                   /\ hook[h].byNumber \/ KnownTid(k)
                   /\ hook[h].seen \in {"ABORTED", "EXPIRED"} => toss[k] = hook[h].seen
                   /\ hook[h].seen = "PARTIAL_CANCELED" =>
                        toss[k] \in {"PARTIAL_CANCELED", "CANCELED"}
    BY <2>3, HookFacts DEF SeenIsFinal
  <2>4. ASSUME NEW h \in Handlers, WebhookIgnore(h) PROVE BooksFollowKey'
    <3>1. /\ hook[h] # NoHook /\ Done(h) /\ toss' = toss /\ due' = due
          /\ UNCHANGED <<shop, busy>>
      BY <2>4 DEF WebhookIgnore, remote
    <3>2. RowsFollowKeys' /\ SeenIsFinal'
      BY <3>1, SeenStaysFinal DEF shop
    <3>3. ASSUME hook[h].seen = "DONE", toss[hook[h].key] = "DONE",
                 order[OrderOf[hook[h].key]] \in {"PENDING", "CANCELLED"}
          PROVE  FALSE
      <4>1. payment[OrderOf[hook[h].key]] = "READY"
        BY <2>3, <3>1, <3>3, NoticedIsReady
      <4>2. ~ KnownTid(hook[h].key)
        BY <2>3, <3>1, <4>1 DEF KnownTid
      <4>. QED
        BY <2>3, <2>4, <3>1, <3>3, <4>1, <4>2 DEF WebhookIgnore, HasTarget, Overlooked, Settled
    <3>4. \A k \in Keys : KeepsNotice(h, k)
      BY <3>1, <3>3 DEF KeepsNotice, shop
    <3>5. ApprovalIsNoticed'
      BY <3>1, <3>4, ApprovalStaysNoticed
    <3>. QED
      BY <3>2, <3>5
  <2>5. ASSUME NEW h \in Handlers, WebhookApproved(h) PROVE BooksFollowKey'
    <3>. DEFINE k == hook[h].key
                o == OrderOf[k]
    <3>1. /\ hook[h] # NoHook /\ Done(h) /\ toss' = toss /\ due' = due /\ busy' = busy
          /\ payment' = [payment EXCEPT ![o] = "PAID"]
          /\ tid' = [tid EXCEPT ![o] = k]
          /\ order[o] # "CANCELLED"
          /\ order' = [order EXCEPT ![o] =
                         IF order[o] = "PENDING" THEN "PAID" ELSE order[o]]
      BY <2>1, <2>3, <2>5 DEF WebhookApproved, Applies, remote
    <3>2. k \in Keys /\ o \in Orders /\ order[o] # "NONE"
      BY <2>3, <3>1
    <3>3. SeenIsFinal'
      <4>1. \E j \in Keys : tid' = [tid EXCEPT ![OrderOf[j]] = j]
        BY <3>1, <3>2
      <4>. QED
        BY <3>1, <4>1, SeenStaysFinal
    <3>. HIDE DEF k, o
    <3>4. RowsFollowKeys'
      BY <2>1, <3>1, <3>2, SMTT(30) DEF o
    <3>5. \A j \in Keys : KeepsNotice(h, j)
      BY <2>1, <3>1, <3>2, SMTT(30) DEF k, o, KeepsNotice
    <3>6. ApprovalIsNoticed'
      BY <3>1, <3>5, ApprovalStaysNoticed
    <3>. QED
      BY <3>3, <3>4, <3>6
  <2>6. ASSUME NEW h \in Handlers, WebhookLateCall(h) PROVE BooksFollowKey'
    <3>1. /\ hook[h] # NoHook /\ Done(h) /\ toss' = toss /\ due' = due
          /\ busy' = [busy EXCEPT ![OrderOf[hook[h].key]] =
                        [op |-> "lateRefund", key |-> hook[h].key]]
          /\ UNCHANGED shop
      BY <2>6 DEF WebhookLateCall, Applies, Call
    <3>2. RowsFollowKeys' /\ SeenIsFinal'
      BY <3>1, SeenStaysFinal DEF shop
    <3>3. \A k \in Keys : KeepsNotice(h, k)
      BY <2>1, <2>3, <3>1, SMTT(30) DEF KeepsNotice, shop
    <3>4. ApprovalIsNoticed'
      BY <3>1, <3>3, ApprovalStaysNoticed
    <3>. QED
      BY <3>2, <3>4
  <2>7. ASSUME NEW h \in Handlers, NEW s \in {"CANCELLED", "PARTIAL_CANCELLED", "FAILED"},
               hook[h] # NoHook, Done(h), UNCHANGED <<tid, busy, remote>>,
               payment' = [payment EXCEPT ![OrderOf[hook[h].key]] = s],
               \/ order' = order
               \/ s # "PARTIAL_CANCELLED"
                    /\ order' = [order EXCEPT ![OrderOf[hook[h].key]] = "CANCELLED"],
               s # "PARTIAL_CANCELLED" => order'[OrderOf[hook[h].key]] = "CANCELLED",
               s = "CANCELLED" => hook[h].seen = "CANCELED",
               s = "PARTIAL_CANCELLED" => hook[h].seen = "PARTIAL_CANCELED",
               s = "FAILED" => hook[h].seen \in {"ABORTED", "EXPIRED"}
        PROVE  BooksFollowKey'
    <3>. DEFINE k == hook[h].key
                o == OrderOf[k]
    <3>1. /\ k \in Keys /\ o \in Orders /\ order[o] # "NONE"
          /\ s = "CANCELLED" => toss[k] = "CANCELED"
          /\ s = "FAILED" => toss[k] \in {"ABORTED", "EXPIRED"}
          /\ s = "PARTIAL_CANCELLED" => toss[k] \in {"PARTIAL_CANCELED", "CANCELED"}
      BY <2>3, <2>7
    <3>2. SeenIsFinal'
      BY <2>7, SeenStaysFinal DEF remote
    <3>3. toss' = toss /\ due' = due
      BY <2>7 DEF remote
    <3>4. /\ payment' = [payment EXCEPT ![o] = s] /\ tid' = tid /\ busy' = busy
          /\ order' = order \/ order' = [order EXCEPT ![o] = "CANCELLED"]
          /\ s = "PARTIAL_CANCELLED" => order' = order
          /\ s # "PARTIAL_CANCELLED" => order'[o] = "CANCELLED"
      BY <2>7
    <3>. HIDE DEF k, o
    <3>5. \A j \in Keys : OrderOf[j] = o => j = k
      BY <3>1 DEF o
    <3>6. s = "PARTIAL_CANCELLED" => order[o] # "PENDING"
      BY <3>1 DEF o
    <3>7. RowsFollowKeys'
      BY <2>1, <3>1, <3>3, <3>4, <3>5, <3>6, SMTT(30)
    <3>8. \A j \in Keys : KeepsNotice(h, j)
      BY <2>1, <2>7, <3>1, <3>3, <3>4, <3>5, SMTT(30) DEF KeepsNotice, k, o
    <3>9. ApprovalIsNoticed'
      BY <2>7, <3>3, <3>8, ApprovalStaysNoticed
    <3>. QED
      BY <3>2, <3>7, <3>9
  <2>8. ASSUME NEW h \in Handlers, WebhookCancelled(h) PROVE BooksFollowKey'
    <3>. DEFINE o == OrderOf[hook[h].key]
    <3>1. /\ hook[h] # NoHook /\ Done(h) /\ UNCHANGED <<tid, busy, remote>>
          /\ payment' = [payment EXCEPT ![o] = "CANCELLED"]
          /\ hook[h].seen = "CANCELED"
          /\ \/ order[o] = "CANCELLED" /\ order' = order
             \/ order' = [order EXCEPT ![o] = "CANCELLED"]
      BY <2>8
      DEF WebhookCancelled, Applies, RestoreOnce, RestoreAndCancel, remote
    <3>2. order'[o] = "CANCELLED"
      BY <2>1, <2>3, <3>1
    <3>. QED
      BY <2>7, <3>1, <3>2
  <2>9. ASSUME NEW h \in Handlers, WebhookPartlyCancelled(h) PROVE BooksFollowKey'
    BY <2>7, <2>9 DEF WebhookPartlyCancelled, Applies
  <2>10. ASSUME NEW h \in Handlers, WebhookFailed(h) PROVE BooksFollowKey'
    <3>. DEFINE o == OrderOf[hook[h].key]
    <3>1. /\ hook[h] # NoHook /\ Done(h) /\ UNCHANGED <<tid, busy, remote>>
          /\ payment' = [payment EXCEPT ![o] = "FAILED"]
          /\ hook[h].seen \in {"ABORTED", "EXPIRED"}
          /\ \/ order[o] = "CANCELLED" /\ order' = order
             \/ order' = [order EXCEPT ![o] = "CANCELLED"]
      BY <2>10
      DEF WebhookFailed, Applies, RestoreOnce, RestoreAndCancel, remote
    <3>2. order'[o] = "CANCELLED"
      BY <2>1, <2>3, <3>1
    <3>. QED
      BY <2>7, <3>1, <3>2
  <2>11. ASSUME NEW h \in Handlers, WebhookError(h) PROVE BooksFollowKey'
    <3>1. /\ hook[h] # NoHook /\ Done(h) /\ toss' = toss
          /\ due' = due \cup {hook[h].key} /\ UNCHANGED <<shop, busy>>
      BY <2>11 DEF WebhookError
    <3>2. RowsFollowKeys' /\ SeenIsFinal'
      BY <3>1, SeenStaysFinal DEF shop
    <3>3. \A k \in Keys : KeepsNotice(h, k)
      BY <3>1 DEF KeepsNotice, shop
    <3>4. ApprovalIsNoticed'
      BY <3>1, <3>3, ApprovalStaysNoticed
    <3>. QED
      BY <3>2, <3>4
  <2>. QED
    BY <1>6, <2>2, <2>4, <2>5, <2>6, <2>8, <2>9, <2>10, <2>11 DEF Webhook, WebhookAnswer
<1>7. CASE UNCHANGED vars
  BY <1>7, SMTT(30) DEF vars
<1>. QED
  BY <1>1, <1>2, <1>3, <1>4, <1>5, <1>6, <1>7 DEF Next

(* Money that arrives for a cancelled order is never overlooked, if the    *)
(* buyer does not open a second attempt.                                   *)
THEOREM LateMoneyIsNotMissed ==
  ASSUME AdminsFollowFlow, OneKeyEach
  PROVE  Spec => []LateMoneyIsNoticed
<1>1. Init => BooksFollowKey
  BY CheckoutAssumption
  DEF CheckoutAssumption, Init, BooksFollowKey, RowsFollowKeys, SeenIsFinal,
      ApprovalIsNoticed
<1>2. TypeOK /\ IInv /\ BooksFollowKey /\ [Next]_vars => BooksFollowKey'
  BY BooksStep
<1>3. BooksFollowKey => LateMoneyIsNoticed
  BY DEF BooksFollowKey, ApprovalIsNoticed, LateMoneyIsNoticed
<1>4. Spec => [](TypeOK /\ IInv)
  BY AdminsFollowFlow, Invariance
<1>. QED
  BY <1>1, <1>2, <1>3, <1>4, PTL DEF Spec
=============================================================================
