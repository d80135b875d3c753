--------------------------- MODULE Sweeper_proofs ---------------------------
(***************************************************************************)
(* The sweeper, proved for any number of orders, workers and restarts and  *)
(* any length of a pass: the items of an order are put back exactly when   *)
(* it is cancelled and once only, and an order is in the hands of one      *)
(* worker at most.                                                         *)
(***************************************************************************)
EXTENDS Sweeper, Lemmas

\* What the argument needs of the types: what a pass skips plays no part.
Shape ==
    /\ order \in [Orders -> {"PENDING", "PAID", "CANCELLED"}]
    /\ toss \in [Orders -> Verdicts]
    /\ restored \in [Orders -> Nat]
    /\ claim \in [Workers -> Orders \cup {0}]

SInv == Shape /\ RestoredOnce /\ OneWorkerPerOrder

-----------------------------------------------------------------------------
\* Orders are positive numbers, so that 0 stands for no order.
LEMMA OrdersArePositive == Orders \subseteq Nat /\ 0 \notin Orders
  BY BoundsAssumption DEF Orders

\* The order a claim locks is one of those the query may return.
LEMMA OldestIsOne ==
  ASSUME NEW S \in SUBSET Orders, S # {}
  PROVE  Oldest(S) \in S
<1>1. \E x \in S : \A y \in S : x <= y
  BY OrdersArePositive, Least
<1>. QED
  BY <1>1 DEF Oldest

\* In the initial states no order is held or cancelled.
LEMMA Initially == Init => SInv
  BY DEF Init, SInv, Shape, RestoredOnce, OneWorkerPerOrder

-----------------------------------------------------------------------------
\* A claim takes an unpaid order that no other worker holds.
LEMMA ClaimStep ==
  ASSUME SInv, NEW w \in Workers, Claim(w)
  PROVE  SInv'
<1>1. PICK o \in Orders : /\ order[o] = "PENDING" /\ ~Locked(o)
                          /\ claim' = [claim EXCEPT ![w] = o]
  <2>1. Claimable(w) \in SUBSET Orders /\ Claimable(w) # {}
    BY DEF Claim, Claimable
  <2>2. Oldest(Claimable(w)) \in Claimable(w)
    BY <2>1, OldestIsOne
  <2>. QED
    BY <2>2 DEF Claim, Claimable
<1>2. UNCHANGED <<order, toss, restored>>
  BY DEF Claim
<1>3. Shape'
  BY <1>1, <1>2 DEF SInv, Shape
<1>4. RestoredOnce'
  BY <1>2 DEF SInv, RestoredOnce
<1>5. OneWorkerPerOrder'
  <2>1. \A v \in Workers : claim'[v] = IF v = w THEN o ELSE claim[v]
    BY <1>1 DEF SInv, Shape
  <2>2. \A v \in Workers : claim[v] # o
    BY <1>1 DEF Locked
  <2>. QED
    BY <1>1, <1>2, <2>1, <2>2 DEF SInv, OneWorkerPerOrder
<1>. QED
  BY <1>3, <1>4, <1>5 DEF SInv

\* Whatever becomes of the order, its items are put back iff it is cancelled,
\* and the lock goes with the transaction.
LEMMA HandleStep ==
  ASSUME SInv, NEW w \in Workers, Handle(w)
  PROVE  SInv'
<1>. DEFINE o == claim[w]
<1>1. /\ o \in Orders /\ order[o] = "PENDING"
      /\ claim' = [claim EXCEPT ![w] = 0] /\ UNCHANGED toss
  BY DEF Handle, SInv, Shape, OneWorkerPerOrder
<1>2. /\ \A p \in Orders \ {o} : order'[p] = order[p] /\ restored'[p] = restored[p]
      /\ \/ order'[o] = "CANCELLED" /\ restored'[o] = restored[o] + 1
         \/ order'[o] \in {"PENDING", "PAID"} /\ restored'[o] = restored[o]
      /\ order' \in [Orders -> {"PENDING", "PAID", "CANCELLED"}]
      /\ restored' \in [Orders -> Nat]
  <2>1. CASE Release(w)
    BY <2>1, <1>1 DEF Release, SInv, Shape
  <2>2. CASE Settle(w)
    <3>1. PICK s \in AfterDone : order' = [order EXCEPT ![o] = s]
      BY <2>2 DEF Settle
    <3>. QED
      BY <2>2, <3>1, <1>1 DEF Settle, AfterDone, SInv, Shape
  <2>3. CASE Postpone(w) \/ Fail(w)
    BY <2>3, <1>1 DEF Postpone, Fail, SInv, Shape
  <2>. QED
    BY <2>1, <2>2, <2>3 DEF Handle
<1>. HIDE DEF o
<1>3. Shape'
  BY <1>1, <1>2 DEF SInv, Shape
<1>4. RestoredOnce'
  BY <1>1, <1>2 DEF SInv, Shape, RestoredOnce
<1>5. OneWorkerPerOrder'
  <2>1. \A v \in Workers : claim'[v] = IF v = w THEN 0 ELSE claim[v]
    BY <1>1 DEF SInv, Shape
  <2>2. \A v \in Workers \ {w} : claim[v] # 0 => claim[v] # o
    BY DEF o, SInv, OneWorkerPerOrder
  <2>3. ASSUME NEW v \in Workers, claim'[v] # 0 PROVE order'[claim'[v]] = "PENDING"
    <3>1. v # w /\ claim'[v] = claim[v] /\ claim[v] # o /\ claim[v] \in Orders
      BY <2>1, <2>2, <2>3 DEF SInv, Shape
    <3>. QED
      BY <2>3, <3>1, <1>2 DEF SInv, OneWorkerPerOrder
  <2>. QED
    BY <2>1, <2>3 DEF SInv, OneWorkerPerOrder
<1>. QED
  BY <1>3, <1>4, <1>5 DEF SInv

\* A worker that stops lets go of its order and has changed nothing else.
LEMMA RestartStep ==
  ASSUME SInv, NEW w \in Workers, Restart(w)
  PROVE  SInv'
<1>1. claim' = [claim EXCEPT ![w] = 0] /\ UNCHANGED <<order, toss, restored>>
  BY DEF Restart
<1>2. \A v \in Workers : claim'[v] = IF v = w THEN 0 ELSE claim[v]
  BY <1>1 DEF SInv, Shape
<1>. QED
  BY <1>1, <1>2 DEF SInv, Shape, RestoredOnce, OneWorkerPerOrder

\* A request ends only an order that no worker holds.
LEMMA RequestStep ==
  ASSUME SInv, NEW o \in Orders, Request(o)
  PROVE  SInv'
<1>1. /\ order[o] = "PENDING" /\ ~Locked(o) /\ UNCHANGED <<toss, claim>>
      /\ \A p \in Orders \ {o} : order'[p] = order[p] /\ restored'[p] = restored[p]
      /\ \/ order'[o] = "CANCELLED" /\ restored'[o] = restored[o] + 1
         \/ order'[o] = "PAID" /\ restored'[o] = restored[o]
      /\ order' \in [Orders -> {"PENDING", "PAID", "CANCELLED"}]
      /\ restored' \in [Orders -> Nat]
  BY DEF Request, SInv, Shape
<1>2. Shape'
  BY <1>1 DEF SInv, Shape
<1>3. RestoredOnce'
  BY <1>1 DEF SInv, Shape, RestoredOnce
<1>4. \A w \in Workers : claim[w] # o /\ claim[w] \in Orders \cup {0}
  BY <1>1 DEF Locked, SInv, Shape
<1>5. OneWorkerPerOrder'
  BY <1>1, <1>4 DEF SInv, OneWorkerPerOrder
<1>. QED
  BY <1>2, <1>3, <1>5 DEF SInv

\* The other steps touch neither the orders nor the locks.
LEMMA OtherSteps ==
  ASSUME SInv, UNCHANGED <<order, restored, claim>>, toss' \in [Orders -> Verdicts]
  PROVE  SInv'
  BY DEF SInv, Shape, RestoredOnce, OneWorkerPerOrder

\* Every step keeps the invariant.
LEMMA EveryStep == SInv /\ [Next]_vars => SInv'
<1>. SUFFICES ASSUME SInv, [Next]_vars PROVE SInv'
  OBVIOUS
<1>0. toss \in [Orders -> Verdicts]
  BY DEF SInv, Shape
<1>1. ASSUME NEW w \in Workers, Sweep(w) PROVE SInv'
  <2>1. CASE Break(w)
    BY <2>1, <1>0, OtherSteps DEF Break
  <2>. QED
    BY <1>1, <2>1, ClaimStep, HandleStep DEF Sweep
<1>2. CASE Expire
  BY <1>2, <1>0, OtherSteps DEF Expire
<1>3. ASSUME NEW o \in Orders, Answer(o) \/ Retry(o) PROVE SInv'
  BY <1>3, <1>0, OtherSteps DEF Answer, Retry, Verdicts
<1>4. CASE UNCHANGED vars
  BY <1>4, <1>0, OtherSteps DEF vars
<1>. QED
  BY <1>1, <1>2, <1>3, <1>4, RestartStep, RequestStep DEF Next

-----------------------------------------------------------------------------
\* Every step keeps the types of the remaining variables too.
LEMMA TypeStep == IInv /\ SInv' /\ [Next]_vars => TypeOK'
<1>. SUFFICES ASSUME IInv, SInv', [Next]_vars PROVE TypeOK'
  OBVIOUS
<1>. USE BoundsAssumption
<1>1. /\ order' \in [Orders -> {"PENDING", "PAID", "CANCELLED"}]
      /\ toss' \in [Orders -> Verdicts] /\ restored' \in [Orders -> Nat]
      /\ claim' \in [Workers -> Orders \cup {0}]
  BY DEF SInv, Shape
<1>2. /\ stale \in [Orders -> BOOLEAN] /\ skipped \in [Workers -> SUBSET Orders]
      /\ turns \in [Workers -> 0..MaxOrders] /\ restarts \in 0..MaxRestarts
      /\ claim \in [Workers -> Orders \cup {0}]
  BY DEF IInv, TypeOK
<1>3. ASSUME NEW w \in Workers, Sweep(w) PROVE TypeOK'
  <2>1. CASE Claim(w)
    BY <2>1, <1>1, <1>2 DEF Claim, TypeOK
  <2>2. CASE Handle(w)
    <3>1. claim[w] \in Orders /\ UNCHANGED <<stale, restarts>>
      BY <2>2, <1>2 DEF Handle
    <3>2. \/ UNCHANGED <<skipped, turns>>
          \/ Skip(w, claim[w])
          \/ EndPass(w)
      BY <2>2 DEF Handle, Release, Settle, Postpone, Fail
    <3>3. skipped' \in [Workers -> SUBSET Orders] /\ turns' \in [Workers -> 0..MaxOrders]
      BY <3>1, <3>2, <1>2 DEF Skip, EndPass
    <3>. QED
      BY <3>1, <3>3, <1>1, <1>2 DEF TypeOK
  <2>3. CASE Break(w)
    BY <2>3, <1>1, <1>2 DEF Break, EndPass, TypeOK
  <2>. QED
    BY <1>3, <2>1, <2>2, <2>3 DEF Sweep
<1>4. ASSUME NEW w \in Workers, Restart(w) PROVE TypeOK'
  BY <1>4, <1>1, <1>2 DEF Restart, EndPass, TypeOK
<1>5. CASE Expire
  BY <1>5, <1>1, <1>2 DEF Expire, TypeOK
<1>6. ASSUME NEW o \in Orders, Request(o) \/ Answer(o) \/ Retry(o) PROVE TypeOK'
  BY <1>6, <1>1, <1>2 DEF Request, Answer, Retry, TypeOK
<1>7. CASE UNCHANGED vars
  BY <1>7, <1>1, <1>2 DEF vars, TypeOK
<1>. QED
  BY <1>3, <1>4, <1>5, <1>6, <1>7 DEF Next

-----------------------------------------------------------------------------
\* The inductive invariant holds in every state of every behaviour: types, items
\* put back exactly when an order is cancelled, and an order in the hands of one
\* worker at most and unpaid while it is (abandoned_order_sweeper.py:8).
THEOREM Invariance == Spec => []IInv
<1>1. Init => IInv
  BY BoundsAssumption, Initially DEF Init, IInv, SInv, TypeOK, Verdicts
<1>2. IInv => SInv
  BY DEF IInv, SInv, TypeOK, Shape
<1>3. IInv /\ [Next]_vars => IInv'
  BY <1>2, EveryStep, TypeStep DEF IInv, SInv
<1>. QED
  BY <1>1, <1>3, PTL DEF Spec

\* The items of an order are put back once, and exactly when it is cancelled,
\* however many workers sweep and restart (abandoned_order_sweeper.py:8).
THEOREM StockReturnsOnce == Spec => []RestoredOnce
<1>1. IInv => RestoredOnce
  BY DEF IInv
<1>. QED
  BY <1>1, Invariance, PTL
=============================================================================
