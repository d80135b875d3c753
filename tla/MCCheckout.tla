----------------------------- MODULE MCCheckout -----------------------------
(* Instances of Checkout for TLC. *)
EXTENDS Checkout

CONSTANTS o1, o2, k1, k2, h1, h2, u1

OneOrder == {o1}
TwoOrders == {o1, o2}
OneBuyer == [o \in Orders |-> u1]
KeysOfOne == [k \in Keys |-> o1]

(* Admins move orders within fulfilment, in either direction.              *)
FlowMoves == Fulfilment \X ManualSettable
(* ... or never mark an order as delivered.                                *)
UndeliveredMoves == Fulfilment \X (ManualSettable \ {"DELIVERED"})
(* ... or move them forward only.                                          *)
ForwardMoves == {<<"PAID", "PREPARING">>, <<"PREPARING", "SHIPPING">>,
                 <<"SHIPPING", "DELIVERED">>}
(* ... or do all that update_status lets them do.                          *)
AnyMoves == OrderStatus \X ManualSettable
=============================================================================
