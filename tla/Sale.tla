-------------------------------- MODULE Sale --------------------------------
(***************************************************************************)
(* What the shop promises about an order, whatever happens to its          *)
(* requests: where the ordered goods are and where the money is.           *)
(***************************************************************************)
CONSTANT Orders

VARIABLES
  goods,  \* "shelf", "reserved" for the order, "sold" to it, or "returned"
  money   \* "none", "taken" from the buyer, or "refunded"

vars == <<goods, money>>

Init ==
  /\ goods = [o \in Orders |-> "shelf"]
  /\ money = [o \in Orders |-> "none"]

GoodsTo(o, g) == goods'[o] = g /\ money'[o] = money[o]
MoneyTo(o, m) == money'[o] = m /\ goods'[o] = goods[o]

Reserve(o) == goods[o] = "shelf" /\ GoodsTo(o, "reserved")

Sell(o) == goods[o] = "reserved" /\ money[o] = "taken" /\ GoodsTo(o, "sold")

PutBack(o) == goods[o] \in {"reserved", "sold"} /\ GoodsTo(o, "returned")

Take(o) == goods[o] # "shelf" /\ money[o] = "none" /\ MoneyTo(o, "taken")

GiveBack(o) ==
  goods[o] \in {"sold", "returned"} /\ money[o] = "taken" /\ MoneyTo(o, "refunded")

Rest(o) == goods'[o] = goods[o] /\ money'[o] = money[o]

(* One transaction may release several orders and reserve another.         *)
Next ==
  /\ goods' \in [Orders -> {"shelf", "reserved", "sold", "returned"}]
  /\ money' \in [Orders -> {"none", "taken", "refunded"}]
  /\ \A o \in Orders :
       Reserve(o) \/ Sell(o) \/ PutBack(o) \/ Take(o) \/ GiveBack(o) \/ Rest(o)

Spec == Init /\ [][Next]_vars
=============================================================================
