---------------------------- MODULE MCInventory ----------------------------
(* Instances of Inventory for TLC. *)
EXTENDS Inventory

CONSTANTS p1, p2, o1, o2, o3, u1, u2

Item(p, n) == [product |-> p, quantity |-> n]

(* Two orders of one buyer, one of another.                                *)
TwoBuyers == [o \in Orders |-> IF o = o3 THEN u2 ELSE u1]

TwoAndOne == [p \in Products |-> IF p = p1 THEN 2 ELSE 1]

(* Every product in at most one line.                                      *)
DistinctLines == {<<Item(p1, 2)>>,
                  <<Item(p2, 1), Item(p1, 1)>>, <<Item(p1, 2), Item(p2, 1)>>}
(* The same product in two lines.                                          *)
RepeatedLines == DistinctLines \cup {<<Item(p1, 1), Item(p1, 2)>>}

NoEdits == {}
(* One field at a time.                                                    *)
AnyEdits == [stock : {0, 2}, status : {NoChange}]
              \cup [stock : {NoChange}, status : ProductStatus]
=============================================================================
