---------------------------- MODULE MCRowLocks ----------------------------
(* Instances of RowLocks for TLC. *)
EXTENDS RowLocks, TLC

CONSTANTS t1, t2, t3, o1, o2, p1, p2

(* The lines of the two orders name the products in opposite orders.       *)
MixedItems == [o \in Orders |-> IF o = o1 THEN <<p1, p2>> ELSE <<p2, p1>>]

(* The database may find the products of a basket in either order.         *)
AnyScan == {<<p1>>, <<p1, p2>>, <<p2, p1>>}

(* One buyer has left nothing, an order, or both orders behind.            *)
AnyLeft == {<<>>, <<o1>>, <<o1, o2>>, <<o2, o1>>}

Same == Permutations({t1, t2, t3})
=============================================================================
