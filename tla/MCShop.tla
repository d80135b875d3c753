------------------------------- MODULE MCShop -------------------------------
(***************************************************************************)
(* Shop for TLC: each behaviour exercises one component, named by part,    *)
(* with two requests at a time, and leaves the others in an initial state. *)
(***************************************************************************)
EXTENDS Shop, TLC

CONSTANTS u1, u2, h1, h2

VARIABLES part

\* ShopInit; one initial state will do for the components that stand still.
MCInit ==
    /\ part \in {"addresses", "basket", "help", "records", "gallery", "listing",
                "pricing", "figures"}
    /\ A!Init /\ Init /\ R!Init /\ F!Init
    /\ B!Init
    /\ part # "basket"  => \A p \in DOMAIN product : product[p].stock = 0
    /\ G!Init
    /\ part # "gallery" => images = <<>>
    /\ L!Init
    /\ part # "listing" => DOMAIN shelf = {1} /\ shelf[1] = [price |-> 1, active |-> TRUE]
                           /\ sort = "latest" /\ min_price = 1
    /\ P!Init
    /\ part # "pricing" => /\ \A p \in DOMAIN priceList : priceList[p].price = 1
                           /\ ask.items = <<[product |-> 1, quantity |-> 2]>>
                           /\ ask.method = "PARCEL" /\ ask.zipcode = "near"

MCNext ==
    /\ UNCHANGED part
    /\ \/ part = "addresses" /\ AddressStep
       \/ part = "basket"    /\ BasketStep
       \/ part = "help"      /\ HelpStep
       \/ part = "records"   /\ RecordStep
       \/ part = "gallery"   /\ GalleryStep
       \/ part = "listing"   /\ ListingStep
       \/ part = "pricing"   /\ PricingStep
       \/ part = "figures"   /\ FiguresStep

MCSpec == MCInit /\ [][MCNext]_<<part, shopVars>>

\* Users and handlers are interchangeable.
Symmetry == Permutations(Buyers) \cup Permutations(Handlers)
=============================================================================
