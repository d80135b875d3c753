-------------------------------- MODULE Shop --------------------------------
(***************************************************************************)
(* The components of the shop around its orders.  The help desk is this    *)
(* module's own, the others are instances.  They have no table in common   *)
(* that one writes and another reads for a decision, but for the products, *)
(* and each has what it reads of those as a variable of its own.  So their *)
(* steps interleave.                                                       *)
(***************************************************************************)
EXTENDS HelpDesk, Integers, FiniteSets

CONSTANTS
    Buyers,
    MaxAddresses,               \* MAX_ADDRESSES_PER_USER, 10 in the code
    Wares, Quantities, MaxStock,    \* products in a cart
    Ids, Fields, Values,        \* rows that the console edits
    Urls, MaxImages,            \* images of a product
    Listed, Prices, Size, MaxEdited,    \* products on a list, on a page of it
    Priced, Pieces, Zipcodes, MaxLines, MaxOrders,  \* products in an order
    Amounts, Day, Week, ZoneOffset, MaxTick, MaxSales,  \* orders in a figure
    MaxRows, MaxImageRows       \* bounds: rows ever inserted

\* Products are numbered as they are created, and a page has room.
ASSUME ListsAssumption ==
    /\ Size \in Nat \ {0}
    /\ Listed \subseteq Nat /\ Prices \subseteq Nat

\* One puts at least one piece in a cart; an address book holds some addresses.
ASSUME LimitsAssumption ==
    /\ MaxStock \in Nat /\ Quantities \subseteq Nat \ {0} /\ Pieces \subseteq Nat \ {0}
    /\ MaxAddresses \in Nat \ {0} /\ MaxRows \in Nat
    /\ IsFiniteSet(Handlers)

\* There are so many members, and an amount is a number.
ASSUME FiguresAssumption == IsFiniteSet(Buyers) /\ Amounts \subseteq Int

VARIABLES
    rows, lastAddress, addressRequest,
    cart, lastLine, favorites, product, basketRequest,
    record, recordRequest,
    images, lastImage, imageRequest,
    shelf, sort, min_price, page, seen, total_pages, first, edited, yielded,
    priceList, ask, quote, sales,
    now, orders

Book   == <<rows, lastAddress, addressRequest>>
Tray   == <<cart, lastLine, favorites, product, basketRequest>>
Desk   == <<contact, mails, request>>
Editor == <<record, recordRequest>>
Frames == <<images, lastImage, imageRequest>>
Pages  == <<shelf, sort, min_price, page, seen, total_pages, first, edited, yielded>>
Till   == <<priceList, ask, quote, sales>>
Report == <<now, orders>>
shopVars == <<Book, Tray, Desk, Editor, Frames, Pages, Till, Report>>

A == INSTANCE Addresses WITH Users <- Buyers, MaxId <- MaxRows,
         lastId <- lastAddress, request <- addressRequest
B == INSTANCE Basket WITH Users <- Buyers, Products <- Wares, MaxId <- MaxRows,
         lastId <- lastLine, request <- basketRequest
R == INSTANCE Records WITH request <- recordRequest
G == INSTANCE Gallery WITH MaxId <- MaxImageRows, lastId <- lastImage,
         request <- imageRequest
L == INSTANCE Listing WITH Products <- Listed
P == INSTANCE Pricing WITH Products <- Priced, Quantities <- Pieces,
         product <- priceList, request <- ask, orders <- sales
F == INSTANCE Figures WITH Users <- Buyers, MaxOrders <- MaxSales

ShopInit ==
    A!Init /\ B!Init /\ Init /\ R!Init /\ G!Init /\ L!Init /\ P!Init /\ F!Init

AddressStep ==
    A!Next /\ UNCHANGED <<Tray, Desk, Editor, Frames, Pages, Till, Report>>
BasketStep ==
    B!Next /\ UNCHANGED <<Book, Desk, Editor, Frames, Pages, Till, Report>>
HelpStep ==
    Next /\ UNCHANGED <<Book, Tray, Editor, Frames, Pages, Till, Report>>
RecordStep ==
    R!Next /\ UNCHANGED <<Book, Tray, Desk, Frames, Pages, Till, Report>>
GalleryStep ==
    G!Next /\ UNCHANGED <<Book, Tray, Desk, Editor, Pages, Till, Report>>
ListingStep ==
    L!Next /\ UNCHANGED <<Book, Tray, Desk, Editor, Frames, Till, Report>>
PricingStep ==
    P!Next /\ UNCHANGED <<Book, Tray, Desk, Editor, Frames, Pages, Report>>
FiguresStep ==
    F!Next /\ UNCHANGED <<Book, Tray, Desk, Editor, Frames, Pages, Till>>

ShopNext ==
    \/ AddressStep \/ BasketStep \/ HelpStep \/ RecordStep
    \/ GalleryStep \/ ListingStep \/ PricingStep \/ FiguresStep

ShopSpec == ShopInit /\ [][ShopNext]_shopVars

-----------------------------------------------------------------------------
\* Whatever requests race, the rows are of the kind the other queries expect: an
\* address book exceeds its limit by less than the requests that overlap, a user
\* has one cart row per product, which asks for no more than the shop has had of
\* it, the pages of a list cover it, and the amount of an order is what its items
\* add up to (address_service.py:21, cart_service.py:79, order/models.py:44).
ShopTypeOK ==
    /\ A!TypeOK /\ A!LimitPlusRaces
    /\ B!OneLinePerProduct /\ B!WithinStockSeen
    /\ L!PagesCover /\ P!TotalFollowsItems

\* Two replacements at once can leave both lists, but the images of a product
\* that has any include one with number 0: it always has a thumbnail.
ThumbnailExists == G!ThumbnailExists

\* A reader who turns the pages to the last one has been shown every product
\* that was on the list when he began and has not changed itself, though others
\* are added, come back, or move up to the front meanwhile.  (A product that
\* leaves the list, or moves towards its end, lets those behind it move up, past
\* the reader: pages by offset miss them.)
NothingMissed == L!NothingMissed

\* However many defaults earlier races left, a request for the default that no
\* other request of its user overlaps leaves its row as the only one.
LoneDefaultHeals == A!LoneDefaultHeals

\* A request that no other of its user overlaps does what it was asked: it adds
\* to the quantity or sets it, removes the row, or adds or removes the favorite.
LoneRequestTakesEffect == B!LoneRequestTakesEffect

\* A user has one default address at most (address/models.py:71).  Two tabs at
\* once can break it.
OneDefault == A!OneDefault

\* Two admins who edit different fields of one row do not undo each other's
\* change: a PATCH changes no field its body does not name, and the second of two
\* requests to register a category (admin_catalog_service.py:131) changes nothing.
UnnamedFieldsStay == R!UnnamedFieldsStay

\* A buyer who orders what he was quoted pays the quote, as long as the console
\* has not changed a product since (order_service.py:66 and 137 compute it twice).
QuoteIsCharged == P!QuoteIsCharged

\* Every page of the console shows the same money: the chart of a range adds up to
\* the headline above it, by day and by week and wherever the range begins (sales_
\* service.py:28 and 57), what the dashboard calls today is the range from today on
\* (dashboard_service.py:32), and the purchases of the members are all sales
\* (admin_members_repository.py:28).
FiguresAgree == F!FiguresAgree

\* The last point of the chart by day is today's (docs/todo.md:193).  The time
\* zone of the database can break it.
TodayIsOnChart == F!TodayIsOnChart
=============================================================================
