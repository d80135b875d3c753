------------------------------- MODULE Pricing -------------------------------
(***************************************************************************)
(* What an order costs (order_service.py, core/shipping.py).  A buyer asks *)
(* for a quote and orders later; create_order computes the amount again,   *)
(* from the prices it finds, and copies them into its items.  Meanwhile the*)
(* console changes prices and takes products off sale.  Stock is module    *)
(* Inventory; amounts are in thousands of won.                             *)
(***************************************************************************)
EXTENDS Naturals, Sequences, FiniteSets, Functions

CONSTANTS
    Products,
    Prices,
    Quantities,   \* 1..10 in the code
    Zipcodes,     \* "near" is one of DIRECT_DELIVERY_PREFIXES
    MaxLines,     \* bound: lines of a request
    MaxOrders     \* bound: orders

VARIABLES
    product,      \* id -> [price, active]
    request,      \* the buyer's: [items, method, zipcode], for quote and order
    quote,        \* the amount he was quoted, 0 for none and once prices change
    orders        \* what is stored

vars == <<product, request, quote, orders>>

Methods == {"PARCEL", "FREIGHT", "DIRECT"}
Fee == [PARCEL |-> 5, FREIGHT |-> 60, DIRECT |-> 40]
Discount == [PARCEL |-> 0, FREIGHT |-> 0, DIRECT |-> 20]

NoQuote == 0

\* The lines of a request may name a product twice.
Lines == [product : Products, quantity : Quantities]
Requests == [items : UNION {[1..n -> Lines] : n \in 1..MaxLines},
             method : Methods, zipcode : Zipcodes]

Init ==
    /\ product \in [Products -> [price : Prices, active : {TRUE}]]
    /\ request \in Requests
    /\ quote = NoQuote
    /\ orders = {}

ItemsTotal(items, price) ==
    SumFunction([i \in DOMAIN items |-> price[i] * items[i].quantity])

Deliverable(r) == r.method = "DIRECT" => r.zipcode = "near"
OnSale(r) == \A i \in DOMAIN r.items : product[r.items[i].product].active
Current(r) == [i \in DOMAIN r.items |-> product[r.items[i].product].price]

GetQuote ==
    /\ Deliverable(request) /\ OnSale(request)
    /\ quote' = ItemsTotal(request.items, Current(request))
                + Fee[request.method] - Discount[request.method]
    /\ UNCHANGED <<product, request, orders>>

Order(r, total) ==
    [items |-> r.items, price_snapshot |-> Current(r), shipping_fee |-> Fee[r.method],
     discount_amount |-> Discount[r.method], total_amount |-> total]

\* Variant: the discount is stored, but not taken off.
CreateOrder_NoDiscount ==
    LET r == request IN
    /\ Deliverable(r) /\ OnSale(r) /\ Cardinality(orders) < MaxOrders
    /\ orders' = orders \cup {Order(r, ItemsTotal(r.items, Current(r)) + Fee[r.method])}
    /\ UNCHANGED <<product, request, quote>>

CreateOrder ==
    LET r == request IN
    /\ Deliverable(r) /\ OnSale(r) /\ Cardinality(orders) < MaxOrders
    /\ orders' = orders \cup {Order(r, ItemsTotal(r.items, Current(r))
                                       + Fee[r.method] - Discount[r.method])}
    /\ UNCHANGED <<product, request, quote>>

\* update_product and delete_product of the console.
UpdateProduct ==
    /\ \E p \in Products, price \in Prices, active \in BOOLEAN :
           product' = [product EXCEPT ![p] = [price |-> price, active |-> active]]
    /\ quote' = NoQuote
    /\ UNCHANGED <<request, orders>>

Next == GetQuote \/ CreateOrder \/ UpdateProduct

Spec == Init /\ [][Next]_vars

-----------------------------------------------------------------------------
\* The amount of an order is what its items, as they were stored, and its fee
\* and discount add up to, whatever became of the prices (order/models.py:44).
TotalFollowsItems ==
    \A o \in orders :
        o.total_amount + o.discount_amount
            = ItemsTotal(o.items, o.price_snapshot) + o.shipping_fee

\* A buyer who orders what he was quoted pays the quote, as long as the console
\* has not changed a product since (order_service.py:66 and 137 compute it twice).
QuoteIsCharged ==
    [][orders' # orders /\ quote # NoQuote =>
          \A o \in orders' \ orders : o.total_amount = quote]_vars
=============================================================================
