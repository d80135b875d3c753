------------------------------ MODULE Gallery ------------------------------
(***************************************************************************)
(* The images of a product (replace_images and update_image of app/catalog *)
(* /admin_catalog_service.py).  A replacement deletes the images it can see*)
(* and inserts its list, numbered from 0; the image with number 0 is the   *)
(* thumbnail.  The DELETE of one transaction waits for the rows another one*)
(* has deleted, but does not see the rows that one has inserted since.     *)
(***************************************************************************)
EXTENDS Naturals, Sequences, FiniteSets, Requests

CONSTANTS
    Urls,
    MaxImages,   \* images in one request, 10 in the code
    MaxId        \* bound: rows ever inserted

VARIABLES
    images,      \* id -> [url, sort_order]
    lastId,
    request

vars == <<images, lastId, request>>

Active(h) == h \in Busy(request)

Lists == UNION {[1..n -> Urls] : n \in 0..MaxImages}

\* Variant: numbered from 1.
Numbered_FromOne(list, id) ==
    [i \in {id + n : n \in DOMAIN list} |-> [url |-> list[i - id], sort_order |-> i - id]]

\* The rows of create_product, or those of a replacement, from id + 1 on.
Numbered(list, id) ==
    [i \in {id + n : n \in DOMAIN list} |-> [url |-> list[i - id], sort_order |-> i - id - 1]]

Init ==
    /\ \E list \in Lists : images = Numbered(list, 0)
    /\ lastId = Cardinality(DOMAIN images)
    /\ request = [h \in Handlers |-> Idle]

\* user: all requests are about the one product.
Received(op, id, list, sees) ==
    [op |-> op, user |-> "product", id |-> id, list |-> list, sees |-> sees, alone |-> TRUE]

\* The DELETE of replace_images starts.
ReplaceImages(h) ==
    /\ ~Active(h)
    /\ \E list \in Lists : request' = Begun(request, h, Received("replace", 0, list, DOMAIN images))
    /\ UNCHANGED <<images, lastId>>

UpdateImage(h) ==
    /\ ~Active(h)
    /\ \E id \in DOMAIN images, u \in Urls :
           request' = Begun(request, h, Received("update", id, <<u>>, {id}))
    /\ UNCHANGED <<images, lastId>>

CommitReplace(h) ==
    LET r == request[h]
        new == Numbered(r.list, lastId) IN
    /\ Active(h) /\ r.op = "replace"
    /\ lastId + Len(r.list) <= MaxId
    /\ lastId' = lastId + Len(r.list)
    /\ images' = [i \in (DOMAIN images \ r.sees) \cup DOMAIN new |->
                     IF i \in DOMAIN new THEN new[i] ELSE images[i]]
    /\ request' = Ended(request, h)

\* A row that is gone makes the UPDATE fail.
CommitUpdate(h) ==
    LET r == request[h] IN
    /\ Active(h) /\ r.op = "update"
    /\ images' = IF r.id \in DOMAIN images THEN [images EXCEPT ![r.id].url = r.list[1]]
                 ELSE images
    /\ request' = Ended(request, h)
    /\ UNCHANGED lastId

Next == \E h \in Handlers :
            ReplaceImages(h) \/ UpdateImage(h) \/ CommitReplace(h) \/ CommitUpdate(h)

Spec == Init /\ [][Next]_vars

-----------------------------------------------------------------------------
\* Two replacements at once can leave both lists, but the images of a product
\* that has any include one with number 0: it always has a thumbnail.
ThumbnailExists ==
    images # <<>> => \E i \in DOMAIN images : images[i].sort_order = 0
=============================================================================
