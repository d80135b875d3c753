------------------------------ MODULE Sweeper ------------------------------
(***************************************************************************)
(* The sweeper of abandoned orders (app/order/abandoned_order_sweeper.py): *)
(* every gunicorn worker runs a pass over the unpaid orders past their     *)
(* payment time, oldest first, one transaction per order.  FOR UPDATE SKIP *)
(* LOCKED hands an order to one worker at a time; orders a pass could not  *)
(* settle are skipped for the rest of it; a pass settles MaxOrders at      *)
(* most.  An error that is not the gateway's PaymentGatewayUnknownError    *)
(* leaves release_pending_order as an exception and ends the pass.         *)
(*                                                                         *)
(* What release_pending_order does to the payments is module Checkout;     *)
(* here an order is only what the shop and Toss say of it.                 *)
(***************************************************************************)
EXTENDS Naturals, FiniteSets

CONSTANTS
    NOrders,      \* orders 1..NOrders, numbered by created_at
    Workers,
    MaxOrders,    \* max_orders, 50 in the code
    MaxRestarts   \* bound: worker processes restarted

ASSUME BoundsAssumption ==
    NOrders \in Nat /\ MaxOrders \in Nat \ {0} /\ MaxRestarts \in Nat

Orders == 1..NOrders

VARIABLES
    order,        \* status in the orders table
    stale,        \* is created_at before the cutoff
    toss,         \* what asking Toss for the order comes to
    restored,     \* history: how often its items were put back
    claim,        \* the order a worker's transaction has locked, 0 for none
    skipped,      \* orders this pass leaves alone
    turns,        \* orders this pass has claimed; 0 outside a pass
    restarts

vars == <<order, stale, toss, restored, claim, skipped, turns, restarts>>

\* "safe": never opened at Toss, or aborted or expired there.  "open": no
\* answer, or a payment still under way.  "done": approved.  "broken": the
\* answer makes the handler raise (a body that is no JSON, a date it cannot
\* parse, an error of the database).
Verdicts == {"safe", "open", "done", "broken"}

\* A charge is settled as paid, or its amount is wrong and it stays pending.
AfterDone == {"PAID", "PENDING"}

Init ==
    /\ order = [o \in Orders |-> "PENDING"]
    /\ stale = [o \in Orders |-> FALSE]
    /\ toss \in [Orders -> Verdicts]
    /\ restored = [o \in Orders |-> 0]
    /\ claim = [w \in Workers |-> 0]
    /\ skipped = [w \in Workers |-> {}]
    /\ turns = [w \in Workers |-> 0]
    /\ restarts = 0

Locked(o) == \E w \in Workers : claim[w] = o

\* Variant: FOR UPDATE is forgotten; two workers can hold one order.
Claimable_NoLock(w) ==
    {o \in Orders : order[o] = "PENDING" /\ stale[o] /\ o \notin skipped[w]}

\* The orders claim_stale_pending_order_id may return to w: the oldest of these.
Claimable(w) ==
    {o \in Orders : order[o] = "PENDING" /\ stale[o] /\ o \notin skipped[w] /\ ~Locked(o)}

Oldest(S) == CHOOSE o \in S : \A p \in S : o <= p

\* A turn of the loop: claim the oldest order and lock it.
Claim(w) ==
    /\ claim[w] = 0
    /\ turns[w] < MaxOrders
    /\ Claimable(w) # {}
    /\ claim' = [claim EXCEPT ![w] = Oldest(Claimable(w))]
    /\ turns' = [turns EXCEPT ![w] = @ + 1]
    /\ UNCHANGED <<order, stale, toss, restored, skipped, restarts>>

EndPass(w) ==
    /\ skipped' = [skipped EXCEPT ![w] = {}]
    /\ turns' = [turns EXCEPT ![w] = 0]

\* The loop ends: nothing to claim, or max_orders reached.  After the interval
\* run_periodically starts the next pass with an empty list.
Break(w) ==
    /\ claim[w] = 0
    /\ turns[w] > 0
    /\ turns[w] = MaxOrders \/ Claimable(w) = {}
    /\ EndPass(w)
    /\ UNCHANGED <<order, stale, toss, restored, claim, restarts>>

\* Variant: the order is not remembered, and is claimed again at once.
Skip_Forgotten(w, o) == UNCHANGED <<skipped, turns>>

Skip(w, o) ==
    /\ skipped' = [skipped EXCEPT ![w] = @ \cup {o}]
    /\ UNCHANGED turns

\* release_pending_order and the commit, for the four verdicts.
Release(w) ==
    LET o == claim[w] IN
    /\ toss[o] = "safe"
    /\ order' = [order EXCEPT ![o] = "CANCELLED"]
    /\ restored' = [restored EXCEPT ![o] = @ + 1]
    /\ UNCHANGED <<skipped, turns>>

Settle(w) ==
    LET o == claim[w] IN
    /\ toss[o] = "done"
    /\ \E s \in AfterDone : order' = [order EXCEPT ![o] = s]
    /\ Skip(w, o)
    /\ UNCHANGED restored

Postpone(w) ==
    /\ toss[claim[w]] = "open"
    /\ Skip(w, claim[w])
    /\ UNCHANGED <<order, restored>>

\* The exception leaves sweep_abandoned_orders; the transaction is rolled back.
Fail(w) ==
    /\ toss[claim[w]] = "broken"
    /\ EndPass(w)
    /\ UNCHANGED <<order, restored>>

Handle(w) ==
    /\ claim[w] # 0
    /\ Release(w) \/ Settle(w) \/ Postpone(w) \/ Fail(w)
    /\ claim' = [claim EXCEPT ![w] = 0]
    /\ UNCHANGED <<stale, toss, restarts>>

\* A worker process stops (deployment, gunicorn restart): its transaction rolls
\* back; the new process starts a new pass.
Restart(w) ==
    /\ turns[w] > 0 /\ restarts < MaxRestarts
    /\ restarts' = restarts + 1
    /\ claim' = [claim EXCEPT ![w] = 0]
    /\ EndPass(w)
    /\ UNCHANGED <<order, stale, toss, restored>>

\* The payment time of the oldest order still in time runs out.
Expire ==
    \E o \in Orders :
        /\ ~stale[o] /\ \A p \in 1..(o - 1) : stale[p]
        /\ stale' = [stale EXCEPT ![o] = TRUE]
        /\ UNCHANGED <<order, toss, restored, claim, skipped, turns, restarts>>

\* A request that locks the order (confirm, cancel, a webhook, get_order) ends it.
Request(o) ==
    /\ order[o] = "PENDING" /\ ~Locked(o)
    /\ \/ order' = [order EXCEPT ![o] = "PAID"] /\ UNCHANGED restored
       \/ /\ order' = [order EXCEPT ![o] = "CANCELLED"]
          /\ restored' = [restored EXCEPT ![o] = @ + 1]
    /\ UNCHANGED <<stale, toss, claim, skipped, turns, restarts>>

\* Toss comes to an answer for an open payment.
Answer(o) ==
    /\ order[o] = "PENDING" /\ toss[o] = "open"
    /\ toss' \in {[toss EXCEPT ![o] = v] : v \in {"safe", "done"}}
    /\ UNCHANGED <<order, stale, restored, claim, skipped, turns, restarts>>

\* The buyer begins another payment of an unpaid order, whoever has locked it here.
Retry(o) ==
    /\ order[o] = "PENDING" /\ toss[o] = "safe"
    /\ toss' = [toss EXCEPT ![o] = "open"]
    /\ UNCHANGED <<order, stale, restored, claim, skipped, turns, restarts>>

Sweep(w) == Claim(w) \/ Handle(w) \/ Break(w)

Next ==
    \/ \E w \in Workers : Sweep(w) \/ Restart(w)
    \/ Expire
    \/ \E o \in Orders : Request(o) \/ Answer(o) \/ Retry(o)

\* run_periodically keeps every worker sweeping, and time passes.  Nothing makes
\* Toss answer or a buyer come back.
Fairness == WF_vars(Expire) /\ \A w \in Workers : WF_vars(Sweep(w))

Spec == Init /\ [][Next]_vars
FairSpec == Spec /\ Fairness

-----------------------------------------------------------------------------
TypeOK ==
    /\ order \in [Orders -> {"PENDING", "PAID", "CANCELLED"}]
    /\ stale \in [Orders -> BOOLEAN] /\ toss \in [Orders -> Verdicts]
    /\ restored \in [Orders -> Nat]
    /\ claim \in [Workers -> Orders \cup {0}]
    /\ skipped \in [Workers -> SUBSET Orders]
    /\ turns \in [Workers -> 0..MaxOrders] /\ restarts \in 0..MaxRestarts

\* Several workers, requests and restarts put the items of an order back once,
\* and exactly when it is cancelled (abandoned_order_sweeper.py:8).
RestoredOnce == \A o \in Orders : restored[o] = IF order[o] = "CANCELLED" THEN 1 ELSE 0

\* An order is being handled by one worker at most, and is still unpaid while it is.
OneWorkerPerOrder ==
    /\ \A v, w \in Workers : claim[v] = claim[w] /\ v # w => claim[v] = 0
    /\ \A w \in Workers : claim[w] # 0 => order[claim[w]] = "PENDING"

\* The inductive invariant.  RestoredOnce alone is not one: that a worker cancels
\* an order only once rests on the order being unpaid while it is held.
IInv == TypeOK /\ RestoredOnce /\ OneWorkerPerOrder

\* Orders that keep a pass from reaching o: older, still pending, not safe.
Obstacles(o) == {p \in 1..(o - 1) : order[p] = "PENDING" /\ toss[p] # "safe"}

\* An order that is safe to release is released, or paid again at Toss.
Released(o) == toss[o] = "safe" ~> order[o] # "PENDING" \/ toss[o] # "safe"

\* Older orders that do not fill a pass.
Few(o) == {S \in SUBSET (1..(o - 1)) : Cardinality(S) < MaxOrders}

\* As long as the older orders that cannot be settled are among a few, and none of
\* them makes the handler raise, an abandoned order that is safe to release is
\* released, whatever workers, requests and (finitely many) restarts do.
SafeOrdersAreReleased ==
    \A o \in Orders : \A S \in Few(o) :
        [](Obstacles(o) \subseteq S /\ \A p \in Obstacles(o) : toss[p] # "broken")
        => Released(o)

\* One order that fails does not keep the others from being released
\* (abandoned_order_sweeper.py:7).
FailureHurtsNoOther ==
    \A o \in Orders : \A S \in Few(o) : [](Obstacles(o) \subseteq S) => Released(o)
=============================================================================
