------------------------------ MODULE Listing ------------------------------
(***************************************************************************)
(* Reading a list page by page (GET /products and the lists of the console)*)
(* while products come and go and change their prices.  Each page is a     *)
(* query of its own: the products on sale that match the filter, sorted,   *)
(* from offset (page - 1) * size on.  Where the sort leaves the order open *)
(* the database may order each query differently; get_list therefore sorts *)
(* by id last.                                                             *)
(***************************************************************************)
EXTENDS Naturals, Sequences, FiniteSets, SequencesExt

CONSTANTS
    Products,    \* ids, numbered as they are created
    Prices,
    Size,        \* products on a page
    MaxEdited    \* bound: products that change while the reader reads

VARIABLES
    shelf,       \* id -> [price, active], the products there are
    sort,        \* the reader's parameters: sort and
    min_price,   \*   lowest price
    page,        \* the page the reader asks for next
    seen,        \* history: ids the reader was shown
    total_pages, \* of the last answer
    first,       \* history: ids that matched when page 1 was read
    edited,      \* history: ids whose price or status has changed
    yielded      \* history: has a product given up its place before another

vars == <<shelf, sort, min_price, page, seen, total_pages, first, edited, yielded>>

Sorts == {"latest", "price_asc", "price_desc"}

Matches == {p \in DOMAIN shelf : shelf[p].active /\ shelf[p].price >= min_price}

\* Variant: the sort key without the id at the end.
Before_NoTieBreak(p, q) ==
    CASE sort = "price_asc"  -> shelf[p].price <= shelf[q].price
      [] sort = "price_desc" -> shelf[p].price >= shelf[q].price
      [] OTHER -> p > q

Before(p, q) ==
    CASE sort = "price_asc"  -> \/ shelf[p].price < shelf[q].price
                                \/ shelf[p].price = shelf[q].price /\ p < q
      [] sort = "price_desc" -> \/ shelf[p].price > shelf[q].price
                                \/ shelf[p].price = shelf[q].price /\ p < q
      [] OTHER -> p > q

\* The orders in which the database may deliver a query.
Orderings == {s \in SetToSeqs(Matches) : \A i, j \in DOMAIN s : i < j => Before(s[i], s[j])}

Offset(n) == (n - 1) * Size

\* build_page_meta
TotalPages(total) == (total + Size - 1) \div Size

Init ==
    /\ \E n \in Products : shelf \in [1..n -> [price : Prices, active : BOOLEAN]]
    /\ sort \in Sorts /\ min_price \in Prices
    /\ page = 1 /\ seen = {} /\ total_pages = 0
    /\ first = {} /\ edited = {} /\ yielded = FALSE

\* One request of the reader: the count and the page.
ReadPage ==
    /\ page = 1 \/ page <= total_pages
    /\ \E s \in Orderings :
           seen' = seen \cup
               {s[i] : i \in DOMAIN s \cap ((Offset(page) + 1)..(Offset(page) + Size))}
    /\ total_pages' = TotalPages(Cardinality(Matches))
    /\ page' = page + 1
    /\ first' = IF page = 1 THEN Matches ELSE first
    /\ UNCHANGED <<shelf, sort, min_price, edited, yielded>>

\* The console adds a product.
CreateProduct ==
    /\ Cardinality(DOMAIN shelf) + 1 \in Products
    /\ \E price \in Prices :
           shelf' = Append(shelf, [price |-> price, active |-> TRUE])
    /\ UNCHANGED <<sort, min_price, page, seen, total_pages, first, edited, yielded>>

\* It stands before a product of the list and no longer does after the step.
Yields(p) ==
    /\ p \in Matches
    /\ \E q \in Matches \ {p} : Before(p, q) /\ ~(p \in Matches' /\ Before(p, q)')

\* A PATCH of the console, or its DELETE (INACTIVE), changes price or status; an
\* order changes the status when it takes the last piece or brings it back.
UpdateProduct ==
    /\ UNCHANGED <<sort, min_price, page, seen, total_pages, first>>
    /\ \E p \in DOMAIN shelf, price \in Prices, active \in BOOLEAN :
           /\ shelf' = [shelf EXCEPT ![p] = [price |-> price, active |-> active]]
           /\ p \in edited \/ Cardinality(edited) < MaxEdited
           /\ edited' = edited \cup {p}
           /\ yielded' = (yielded \/ Yields(p))

Next == ReadPage \/ CreateProduct \/ UpdateProduct

Spec == Init /\ [][Next]_vars

-----------------------------------------------------------------------------
\* A reader who turns the pages to the last one has been shown every product
\* that was on the list when he began and has not changed itself, though others
\* are added, come back, or move up to the front meanwhile.  (A product that
\* leaves the list, or moves towards its end, lets those behind it move up, past
\* the reader: pages by offset miss them.)
NothingMissed ==
    ~yielded /\ page > 1 /\ page > total_pages => first \ edited \subseteq seen

\* No page but those total_pages announces holds anything: the pages of a list
\* that does not change cover it.
PagesCover ==
    \A s \in Orderings : \A i \in DOMAIN s :
        \E n \in 1..TotalPages(Cardinality(Matches)) : Offset(n) < i /\ i <= Offset(n) + Size
=============================================================================
