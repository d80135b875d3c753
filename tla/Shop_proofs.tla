---------------------------- MODULE Shop_proofs ----------------------------
(***************************************************************************)
(* The components around the orders, proved for any number of users,       *)
(* products, rows and requests at once.                                    *)
(***************************************************************************)
EXTENDS Shop, Sequences, Lemmas

\* A handler that was idle starts on a request.
LEMMA ItBegins ==
  ASSUME NEW h \in Handlers, NEW q, h \notin Busy(q), NEW r, NEW after, after = Begun(q, h, r)
  PROVE  Begins(Handlers, Idle, q, h, r, after)
<1>1. Idle = Rq(Handlers)!Idle /\ q[h] = Idle
  BY DEF Idle, Rq!Idle, Busy
<1>2. Begun(q, h, r) = Rq(Handlers)!Begun(q, h, r)
  BY DEF Begun, Busy, Idle, Rq!Begun, Rq!Busy, Rq!Idle
<1>. QED
  BY <1>1, <1>2 DEF Begins

\* Each component goes its way, whatever the others do.
LEMMA EachByItself ==
  ShopSpec => /\ A!Spec /\ B!Spec /\ Spec /\ R!Spec
              /\ G!Spec /\ L!Spec /\ P!Spec /\ F!Spec
<1>1. ShopInit => /\ A!Init /\ B!Init /\ Init /\ R!Init
                  /\ G!Init /\ L!Init /\ P!Init /\ F!Init
  BY DEF ShopInit
<1>. USE DEF ShopNext, AddressStep, BasketStep, HelpStep, RecordStep, GalleryStep,
             ListingStep, PricingStep, FiguresStep, shopVars
<1>2. [ShopNext]_shopVars => [A!Next]_(A!vars)
  BY DEF Book, A!vars
<1>3. [ShopNext]_shopVars => [B!Next]_(B!vars)
  BY DEF Tray, B!vars
<1>4. [ShopNext]_shopVars => [R!Next]_(R!vars)
  BY DEF Editor, R!vars
<1>5. [ShopNext]_shopVars => [G!Next]_(G!vars)
  BY DEF Frames, G!vars
<1>6. [ShopNext]_shopVars => [L!Next]_(L!vars)
  BY DEF Pages, L!vars
<1>7. [ShopNext]_shopVars => [P!Next]_(P!vars)
  BY DEF Till, P!vars
<1>8. [ShopNext]_shopVars => [F!Next]_(F!vars)
  BY DEF Report, F!vars
<1>9. [ShopNext]_shopVars => [Next]_vars
  BY DEF Desk, vars
<1>. QED
  BY <1>1, <1>2, <1>3, <1>4, <1>5, <1>6, <1>7, <1>8, <1>9, PTL
  DEF ShopSpec, A!Spec, B!Spec, Spec, R!Spec, G!Spec, L!Spec, P!Spec, F!Spec

(***************************************************************************)
(* Prices.                                                                 *)
(***************************************************************************)
Charge(r) == P!ItemsTotal(r.items, P!Current(r)) + P!Fee[r.method] - P!Discount[r.method]

\* A quote in force is what the items cost at the prices of now.
Quoted == quote = P!NoQuote \/ quote = Charge(ask)

\* A buyer who orders what he was quoted pays the quote, as long as the console
\* has not changed a product since (order_service.py:66 and 137).
THEOREM ChargedAsQuoted == ShopSpec => QuoteIsCharged
<1>. DEFINE Charged == sales' # sales /\ quote # P!NoQuote =>
                           \A o \in sales' \ sales : o.total_amount = quote
<1>1. P!Init => Quoted
  BY DEF P!Init, Quoted
<1>2. ASSUME Quoted, [P!Next]_(P!vars) PROVE Quoted'
  <2>1. CASE P!GetQuote
    <3>1. Charge(ask)' = Charge(ask)
      BY <2>1 DEF P!GetQuote, Charge, P!Current
    <3>2. quote' = Charge(ask)
      BY <2>1 DEF P!GetQuote, Charge
    <3>. QED
      BY <3>1, <3>2 DEF Quoted
  <2>2. CASE P!CreateOrder \/ UNCHANGED P!vars
    <3>1. UNCHANGED <<priceList, ask, quote>>
      BY <2>2 DEF P!CreateOrder, P!vars
    <3>2. Charge(ask)' = Charge(ask)
      BY <3>1 DEF Charge, P!Current
    <3>. QED
      BY <1>2, <3>1, <3>2 DEF Quoted
  <2>3. CASE P!UpdateProduct
    BY <2>3 DEF P!UpdateProduct, Quoted
  <2>. QED
    BY <1>2, <2>1, <2>2, <2>3 DEF P!Next
<1>3. ASSUME Quoted, P!Next PROVE Charged
  <2>1. CASE P!CreateOrder
    <3>1. sales' = sales \cup {P!Order(ask, Charge(ask))}
      BY <2>1 DEF P!CreateOrder, Charge
    <3>2. P!Order(ask, Charge(ask)).total_amount = Charge(ask)
      BY DEF P!Order
    <3>. QED
      BY <1>3, <3>1, <3>2 DEF Quoted
  <2>. QED
    BY <1>3, <2>1 DEF P!Next, P!GetQuote, P!UpdateProduct
<1>4. QuoteIsCharged <=> [][Charged]_(P!vars)
  BY DEF QuoteIsCharged, P!QuoteIsCharged
<1>. HIDE DEF Charged
<1>. QED
  BY <1>1, <1>2, <1>3, <1>4, EachByItself, PTL DEF P!Spec

(***************************************************************************)
(* Rows that the console edits.                                            *)
(***************************************************************************)
LEMMA RecordBooks ==
  /\ R!Idle = Idle
  /\ R!Busy(recordRequest) = Busy(recordRequest)
  /\ \A h, r : R!Begun(recordRequest, h, r) = Begun(recordRequest, h, r)
BY DEF R!Idle, Idle, R!Busy, Busy, R!Begun, Begun

Recorded == DOMAIN recordRequest = Handlers /\ Marked(Handlers, Idle, recordRequest)

LEMMA RecordStarts ==
  ASSUME Recorded, NEW h \in Handlers,
         \E id \in Ids : R!Create(h, id) \/ R!Update(h, id) \/ R!Delete(h, id)
  PROVE  Recorded' /\ \A g \in Handlers : recordRequest'[g] = Idle => recordRequest[g] = Idle
<1>. DEFINE q == recordRequest
            after == recordRequest'
<1>1. PICK op, id, read, changes : R!Start(h, R!Received(op, id, read, changes))
  BY DEF R!Create, R!Update, R!Delete
<1>. DEFINE r == R!Received(op, id, read, changes)
<1>2. {"user", "alone"} \subseteq DOMAIN r
  BY DEF R!Received
<1>3. h \notin Busy(q) /\ after = Begun(q, h, r) /\ Marked(Handlers, Idle, q)
  BY <1>1, RecordBooks DEF R!Start, R!Active, Recorded
<1>. HIDE DEF q, after, r
<1>0. Begins(Handlers, Idle, q, h, r, after)
  BY <1>3, ItBegins
<1>4. /\ Marked(Handlers, Idle, after) /\ DOMAIN after = Handlers
      /\ \A g \in Handlers : after[g] = Idle <=> g # h /\ q[g] = Idle
  BY <1>0, <1>2, <1>3, BegunGoesOn
<1>. QED
  BY <1>4 DEF Recorded, q, after

\* A PATCH changes no field its body does not name, and a second request to register
\* a category changes nothing (admin_catalog_service.py:131).
THEOREM OthersFieldsStay == ShopSpec => UnnamedFieldsStay
<1>. DEFINE Stays == \A h \in Handlers :
          LET r == recordRequest[h] IN
          R!Active(h) /\ r.op \in {"create", "update"} /\ recordRequest'[h] = R!Idle =>
              \A id \in DOMAIN record : \A f \in Fields :
                  r.op = "create" \/ id # r.user \/ f \notin DOMAIN r.changes =>
                      id \in DOMAIN record' /\ record'[id][f] = record[id][f]
<1>1. R!Init => Recorded
  BY RecordBooks DEF R!Init, Recorded, Marked
<1>2. ASSUME NEW h \in Handlers, R!Commit(h)
      PROVE  recordRequest' = [recordRequest EXCEPT ![h] = Idle]
  BY <1>2, RecordBooks DEF R!Commit, R!Ended
<1>3. ASSUME Recorded, [R!Next]_(R!vars) PROVE Recorded'
  <2>1. ASSUME NEW h \in Handlers, R!Commit(h) PROVE Recorded'
    BY <1>2, <1>3, <2>1 DEF Recorded, Marked
  <2>2. CASE UNCHANGED R!vars
    BY <1>3, <2>2 DEF Recorded, Marked, R!vars
  <2>. QED
    BY <1>3, <2>1, <2>2, RecordStarts DEF R!Next
<1>4. ASSUME Recorded, R!Next PROVE Stays
  <2>. SUFFICES ASSUME NEW h \in Handlers, R!Active(h), recordRequest'[h] = R!Idle,
                       recordRequest[h].op \in {"create", "update"},
                       NEW id \in DOMAIN record, NEW f \in Fields,
                       \/ recordRequest[h].op = "create"
                       \/ id # recordRequest[h].user
                       \/ f \notin DOMAIN recordRequest[h].changes
                PROVE  id \in DOMAIN record' /\ record'[id][f] = record[id][f]
    OBVIOUS
  <2>1. recordRequest[h] # Idle /\ recordRequest'[h] = Idle
    BY RecordBooks DEF R!Active, Busy
  <2>2. PICK g \in Handlers : R!Commit(g)
    BY <1>4, <2>1, RecordStarts DEF R!Next
  <2>3. g = h
    BY <1>2, <1>4, <2>1, <2>2 DEF Recorded
  <2>. DEFINE r == recordRequest[h]
  <2>4. CASE r.op = "create" /\ R!CommitCreate(r)
    BY <2>4 DEF R!CommitCreate
  <2>5. CASE r.op = "update" /\ R!CommitUpdate(r)
    BY <2>5 DEF R!CommitUpdate, R!Written
  <2>. QED
    BY <2>2, <2>3, <2>4, <2>5 DEF R!Commit
<1>5. UnnamedFieldsStay <=> [][Stays]_(R!vars)
  BY DEF UnnamedFieldsStay, R!UnnamedFieldsStay
<1>. HIDE DEF Stays
<1>. QED
  BY <1>1, <1>3, <1>4, <1>5, EachByItself, PTL DEF R!Spec

(***************************************************************************)
(* Images.                                                                 *)
(***************************************************************************)
LEMMA ImageBooks ==
  /\ G!Idle = Idle
  /\ G!Busy(imageRequest) = Busy(imageRequest)
  /\ \A h, r : G!Begun(imageRequest, h, r) = Begun(imageRequest, h, r)
BY DEF G!Idle, Idle, G!Busy, Busy, G!Begun, Begun

ImageFields == {"url", "sort_order"}

\* The rows of one list have consecutive ids, so that the number of a row tells the
\* id of the first of its list, which has number 0.
First(rows0, i) == i - rows0[i].sort_order

Batched(rows0, last) ==
    \A i \in DOMAIN rows0 :
        /\ i \in 1..last /\ DOMAIN rows0[i] = ImageFields /\ rows0[i].sort_order \in Nat
        /\ First(rows0, i) \in DOMAIN rows0
        /\ rows0[First(rows0, i)].sort_order = 0

ImageEntries == {"op", "user", "id", "list", "sees", "alone"}

IsList(list) == DOMAIN list = 1..Len(list) /\ Len(list) \in Nat

\* What a replacement has seen of a list it has seen from the first row on.
Sees(r, rows0, last) ==
    /\ DOMAIN r = ImageEntries
    /\ r.op = "replace" =>
          /\ IsList(r.list)
          /\ r.sees \subseteq 1..last
          /\ \A i \in DOMAIN rows0 : i \in r.sees <=> First(rows0, i) \in r.sees

\* The inductive invariant.
GInv ==
    /\ lastImage \in Nat
    /\ Batched(images, lastImage)
    /\ DOMAIN imageRequest = Handlers
    /\ \A h \in Handlers : imageRequest[h] # Idle => Sees(imageRequest[h], images, lastImage)

LEMMA ListsAreLists == \A list \in G!Lists : IsList(list)
<1>. SUFFICES ASSUME NEW n \in 0..MaxImages, NEW list \in [1..n -> Urls] PROVE IsList(list)
  BY DEF G!Lists
<1>1. n \in Nat /\ Len(list) = n /\ DOMAIN list = 1..n
  OBVIOUS
<1>. QED
  BY <1>1 DEF IsList

\* The n rows of a list.
Consecutive(new, id, n) ==
    /\ DOMAIN new = (id + 1)..(id + n)
    /\ \A i \in DOMAIN new : DOMAIN new[i] = ImageFields /\ new[i].sort_order = i - id - 1

LEMMA NumberedRows ==
  ASSUME NEW list, IsList(list), NEW id \in Nat
  PROVE  Consecutive(G!Numbered(list, id), id, Len(list))
<1>. DEFINE new == G!Numbered(list, id)
            n == Len(list)
<1>1. n \in Nat /\ DOMAIN list = 1..n
  BY DEF IsList
<1>. HIDE DEF n
<1>2. new = [i \in {id + k : k \in 1..n} |-> [url |-> list[i - id], sort_order |-> i - id - 1]]
  BY <1>1 DEF G!Numbered
<1>3. {id + k : k \in 1..n} = (id + 1)..(id + n)
  <2>1. ASSUME NEW i \in (id + 1)..(id + n) PROVE \E k \in 1..n : i = id + k
    <3>1. i - id \in 1..n /\ i = id + (i - id)
      BY <1>1
    <3>. QED
      BY <3>1
  <2>2. \A k \in 1..n : id + k \in (id + 1)..(id + n)
    BY <1>1
  <2>. QED
    BY <2>1, <2>2
<1>. DEFINE ids == (id + 1)..(id + n)
<1>5. new = [i \in ids |-> [url |-> list[i - id], sort_order |-> i - id - 1]]
  BY <1>2, <1>3
<1>4. Consecutive(new, id, n)
  BY <1>5 DEF ImageFields, Consecutive
<1>. QED
  BY <1>4 DEF n

LEMMA ImagesAtFirst == G!Init => GInv
<1>. SUFFICES ASSUME G!Init PROVE GInv
  OBVIOUS
<1>1. PICK list \in G!Lists : images = G!Numbered(list, 0)
  BY DEF G!Init
<1>. DEFINE n == Len(list)
<1>2. IsList(list) /\ n \in Nat
  BY ListsAreLists DEF IsList
<1>. HIDE DEF n
<1>3. /\ DOMAIN images = 1..n
      /\ \A i \in 1..n : DOMAIN images[i] = ImageFields /\ images[i].sort_order = i - 1
  <2>1. Consecutive(images, 0, n)
    BY <1>1, <1>2, NumberedRows DEF n
  <2>2. (0 + 1)..(0 + n) = 1..n /\ \A i \in 1..n : i - 0 - 1 = i - 1
    BY <1>2
  <2>. QED
    BY <2>1, <2>2 DEF Consecutive
<1>4. lastImage = n
  <2>1. \A S : G!Cardinality(S) = Cardinality(S)
    BY DEF G!Cardinality, Cardinality
  <2>2. Cardinality(1..n) = n
    BY <1>2, FS_Interval
  <2>. QED
    BY <1>3, <2>1, <2>2 DEF G!Init
<1>5. Batched(images, lastImage)
  BY <1>2, <1>3, <1>4 DEF Batched, First
<1>. QED
  BY <1>2, <1>4, <1>5, ImageBooks DEF G!Init, GInv

\* A request starts.
LEMMA ImageStart ==
  ASSUME GInv, NEW h \in Handlers, G!ReplaceImages(h) \/ G!UpdateImage(h)
  PROVE  GInv'
<1>. DEFINE q == imageRequest
            after == imageRequest'
<1>1. PICK r : /\ after = G!Begun(q, h, r) /\ h \notin G!Busy(q)
               /\ \/ \E list \in G!Lists : r = G!Received("replace", 0, list, DOMAIN images)
                  \/ \E id, u : r = G!Received("update", id, <<u>>, {id})
  BY DEF G!ReplaceImages, G!UpdateImage, G!Active
<1>2. UNCHANGED <<images, lastImage>>
  BY DEF G!ReplaceImages, G!UpdateImage
<1>3. Sees(r, images, lastImage)
  <2>1. CASE \E list \in G!Lists : r = G!Received("replace", 0, list, DOMAIN images)
    <3>1. PICK list \in G!Lists : r = G!Received("replace", 0, list, DOMAIN images)
      BY <2>1
    <3>2. DOMAIN r = ImageEntries /\ r.list = list /\ r.sees = DOMAIN images
      BY <3>1 DEF G!Received, ImageEntries
    <3>. QED
      BY <3>2, ListsAreLists DEF Sees, GInv, Batched
  <2>2. CASE \E id, u : r = G!Received("update", id, <<u>>, {id})
    BY <2>2 DEF G!Received, ImageEntries, Sees
  <2>. QED
    BY <1>1, <2>1, <2>2
<1>4. \A g \in Handlers : q[g] # Idle => Sees(q[g], images, lastImage)
  BY DEF GInv
<1>5. after = Begun(q, h, r) /\ h \notin Busy(q)
  BY <1>1, ImageBooks
<1>6. ASSUME NEW s, Sees(s, images, lastImage), NEW b
      PROVE  Sees([s EXCEPT !.alone = b], images, lastImage)
  <2>. DEFINE t == [s EXCEPT !.alone = b]
  <2>1. DOMAIN t = ImageEntries /\ t.op = s.op /\ t.list = s.list /\ t.sees = s.sees
    BY <1>6 DEF Sees, ImageEntries
  <2>. HIDE DEF t
  <2>2. Sees(t, images, lastImage)
    BY <1>6, <2>1 DEF Sees
  <2>. QED
    BY <2>2 DEF t
<1>. HIDE DEF q, after
<1>0. Begins(Handlers, Idle, q, h, r, after)
  BY <1>5, ItBegins
<1>7. Started(Handlers, Idle, q, h, r, after)
  BY <1>0, <1>5, BegunIs
<1>8. \A g \in Handlers : after[g] # Idle => Sees(after[g], images, lastImage)
  BY <1>3, <1>4, <1>6, <1>7 DEF Started
<1>9. DOMAIN after = Handlers
  BY <1>7 DEF Started
<1>. QED
  BY <1>2, <1>8, <1>9 DEF GInv, after

\* A replacement ends: the lists it has seen go as a whole, and its own comes.
LEMMA ImageReplace ==
  ASSUME GInv, NEW h \in Handlers, G!CommitReplace(h)
  PROVE  GInv'
<1>. DEFINE r == imageRequest[h]
            n == Len(r.list)
            new == G!Numbered(r.list, lastImage)
            q == imageRequest
            after == imageRequest'
<1>1. /\ r # Idle /\ r.op = "replace" /\ lastImage' = lastImage + n
      /\ images' = [i \in (DOMAIN images \ r.sees) \cup DOMAIN new |->
                       IF i \in DOMAIN new THEN new[i] ELSE images[i]]
      /\ after = [q EXCEPT ![h] = Idle]
  BY ImageBooks DEF G!CommitReplace, G!Active, G!Ended, Busy
<1>2. /\ Sees(r, images, lastImage) /\ lastImage \in Nat /\ DOMAIN q = Handlers
      /\ \A g \in Handlers : q[g] # Idle => Sees(q[g], images, lastImage)
      /\ Batched(images, lastImage)
  BY <1>1 DEF GInv
<1>3. n \in Nat /\ r.sees \subseteq 1..lastImage
      /\ \A i \in DOMAIN images : i \in r.sees <=> First(images, i) \in r.sees
  BY <1>1, <1>2 DEF Sees, IsList
<1>4. /\ DOMAIN new = (lastImage + 1)..(lastImage + n)
      /\ \A i \in DOMAIN new : DOMAIN new[i] = ImageFields /\ new[i].sort_order = i - lastImage - 1
  <2>1. Consecutive(new, lastImage, n)
    BY <1>1, <1>2, NumberedRows DEF Sees
  <2>. HIDE DEF new
  <2>. QED
    BY <2>1 DEF Consecutive
<1>. HIDE DEF r, n, new, q, after
<1>. DEFINE kept == DOMAIN images \ r.sees
            fresh == (lastImage + 1)..(lastImage + n)
<1>5. /\ DOMAIN images' = kept \cup fresh
      /\ \A i \in kept : i \notin fresh /\ images'[i] = images[i]
      /\ \A i \in fresh : images'[i] = new[i]
  <2>1. images' = [i \in kept \cup fresh |-> IF i \in fresh THEN new[i] ELSE images[i]]
    BY <1>1, <1>4
  <2>2. ASSUME NEW i \in kept PROVE i \notin fresh
    <3>1. i \in 1..lastImage /\ lastImage \in Nat
      BY <1>2 DEF Batched
    <3>. QED
      BY <1>3, <3>1
  <2>. HIDE DEF kept, fresh
  <2>. QED
    BY <2>1, <2>2
<1>6. \A i \in kept : /\ First(images', i) = First(images, i)
                      /\ First(images, i) \in kept
  BY <1>2, <1>3, <1>5 DEF Batched, First
<1>7. \A i \in fresh : /\ DOMAIN images'[i] = ImageFields
                       /\ images'[i].sort_order = i - lastImage - 1
                       /\ First(images', i) = lastImage + 1
  BY <1>2, <1>4, <1>5 DEF First
<1>8. Batched(images', lastImage')
  <2>1. ASSUME NEW i \in kept
        PROVE  /\ i \in 1..lastImage' /\ DOMAIN images'[i] = ImageFields
               /\ images'[i].sort_order \in Nat
               /\ First(images', i) \in DOMAIN images'
               /\ images'[First(images', i)].sort_order = 0
    <3>1. i \in DOMAIN images /\ i \in 1..lastImage'
      BY <1>1, <1>2, <1>3 DEF Batched
    <3>2. First(images', i) = First(images, i) /\ First(images, i) \in kept
      BY <1>6
    <3>3. images'[First(images, i)] = images[First(images, i)] /\ images'[i] = images[i]
      BY <1>5, <3>2
    <3>. HIDE DEF kept, fresh
    <3>. QED
      BY <1>2, <1>5, <3>1, <3>2, <3>3 DEF Batched
  <2>2. ASSUME NEW i \in fresh
        PROVE  /\ i \in 1..lastImage' /\ DOMAIN images'[i] = ImageFields
               /\ images'[i].sort_order \in Nat
               /\ First(images', i) \in DOMAIN images'
               /\ images'[First(images', i)].sort_order = 0
    <3>1. lastImage + 1 \in fresh /\ i \in 1..lastImage' /\ i - lastImage - 1 \in Nat
      BY <1>1, <1>2, <1>3
    <3>2. images'[lastImage + 1].sort_order = (lastImage + 1) - lastImage - 1
      BY <1>7, <3>1
    <3>3. (lastImage + 1) - lastImage - 1 = 0
      BY <1>2
    <3>. HIDE DEF kept, fresh
    <3>. QED
      BY <1>5, <1>7, <3>1, <3>2, <3>3
  <2>. HIDE DEF kept, fresh
  <2>. QED
    BY <1>5, <2>1, <2>2 DEF Batched
<1>9. ASSUME NEW g \in Handlers, after[g] # Idle PROVE Sees(after[g], images', lastImage')
  <2>. DEFINE s == q[g]
  <2>1. after[g] = s /\ Sees(s, images, lastImage)
    BY <1>1, <1>2, <1>9
  <2>. HIDE DEF s
  <2>2. ASSUME s.op = "replace"
        PROVE  /\ s.sees \subseteq 1..lastImage'
               /\ \A i \in DOMAIN images' : i \in s.sees <=> First(images', i) \in s.sees
    <3>1. /\ s.sees \subseteq 1..lastImage
          /\ \A i \in DOMAIN images : i \in s.sees <=> First(images, i) \in s.sees
      BY <2>1, <2>2 DEF Sees
    <3>2. s.sees \subseteq 1..lastImage'
      BY <1>1, <1>2, <1>3, <3>1
    <3>3. \A i \in fresh : i \notin s.sees /\ First(images', i) \notin s.sees
      BY <1>2, <1>7, <3>1
    <3>. QED
      BY <1>5, <1>6, <3>1, <3>2, <3>3
  <2>. HIDE DEF kept, fresh
  <2>. QED
    BY <2>1, <2>2 DEF Sees
<1>. QED
  BY <1>1, <1>2, <1>3, <1>8, <1>9 DEF GInv, after

\* An update leaves the numbers.
LEMMA ImageUpdate ==
  ASSUME GInv, NEW h \in Handlers, G!CommitUpdate(h)
  PROVE  GInv'
<1>. DEFINE r == imageRequest[h]
            q == imageRequest
            after == imageRequest'
<1>1. /\ after = [q EXCEPT ![h] = Idle] /\ lastImage' = lastImage
      /\ \/ images' = [images EXCEPT ![r.id].url = r.list[1]] /\ r.id \in DOMAIN images
         \/ images' = images
  BY ImageBooks DEF G!CommitUpdate, G!Ended
<1>2. \A i \in DOMAIN images : DOMAIN images[i] = ImageFields
  BY DEF GInv, Batched
<1>. HIDE DEF r
<1>3. /\ DOMAIN images' = DOMAIN images
      /\ \A i \in DOMAIN images : DOMAIN images'[i] = ImageFields
                                  /\ images'[i].sort_order = images[i].sort_order
  BY <1>1, <1>2 DEF ImageFields
<1>4. \A i \in DOMAIN images : First(images', i) = First(images, i)
  BY <1>3 DEF First
<1>5. Batched(images', lastImage')
  BY <1>1, <1>3, <1>4 DEF GInv, Batched
<1>6. \A g \in Handlers : after[g] # Idle => after[g] = q[g]
  BY <1>1 DEF GInv
<1>7. \A g \in Handlers : after[g] # Idle => Sees(after[g], images', lastImage')
  BY <1>1, <1>3, <1>4, <1>6 DEF GInv, Sees
<1>. QED
  BY <1>1, <1>5, <1>7 DEF GInv

\* Two replacements at once can leave both lists, but never a part of one: a
\* product that has images has a thumbnail.
THEOREM ThumbnailStays == ShopSpec => []ThumbnailExists
<1>1. ASSUME GInv, [G!Next]_(G!vars) PROVE GInv'
  <2>1. CASE UNCHANGED G!vars
    BY <1>1, <2>1 DEF GInv, G!vars
  <2>. QED
    BY <1>1, <2>1, ImageStart, ImageReplace, ImageUpdate DEF G!Next
<1>2. GInv => ThumbnailExists
  <2>. SUFFICES ASSUME GInv, images # <<>> PROVE \E i \in DOMAIN images : images[i].sort_order = 0
    BY DEF ThumbnailExists, G!ThumbnailExists
  <2>1. DOMAIN images # {}
    OBVIOUS
  <2>. QED
    BY <2>1 DEF GInv, Batched
<1>. QED
  BY <1>1, <1>2, ImagesAtFirst, EachByItself, PTL DEF G!Spec

(***************************************************************************)
(* Lists, read page by page.                                               *)
(***************************************************************************)
Rows == DOMAIN shelf

\* Products are numbered as they come, and have prices.
Shelved ==
    /\ Len(shelf) \in Nat /\ Rows = 1..Len(shelf)
    /\ \A p \in Rows : shelf[p].price \in Nat

\* The products that come before p on the list.
Ahead(p) == {q \in L!Matches : L!Before(q, p)}

\* The inductive invariant: while nothing gives up its place, what the reader has
\* not seen and nobody has changed comes after the pages he has read, and there are
\* more of them.
LInv ==
    /\ Shelved /\ page \in Nat \ {0} /\ total_pages \in Nat
    /\ page = 1 => first = {}
    /\ ~yielded =>
          /\ first \ edited \subseteq L!Matches
          /\ \A p \in (first \ edited) \ seen :
                /\ Cardinality(Ahead(p)) >= L!Offset(page)
                /\ page <= total_pages

LEMMA MatchesAreFinite ==
  ASSUME Shelved
  PROVE  /\ L!Matches \subseteq Rows
         /\ IsFiniteSet(L!Matches) /\ Cardinality(L!Matches) \in Nat
         /\ \A S : L!Cardinality(S) = Cardinality(S)
<1>1. L!Matches \subseteq Rows
  BY DEF L!Matches, Rows
<1>2. IsFiniteSet(Rows)
  BY FS_Interval DEF Shelved
<1>3. IsFiniteSet(L!Matches)
  BY <1>1, <1>2, FS_Subset
<1>4. \A S : L!Cardinality(S) = Cardinality(S)
  BY DEF L!Cardinality, Cardinality
<1>. QED
  BY <1>1, <1>3, <1>4, FS_CardinalityType

\* The list has one order.
LEMMA BeforeIsStrict ==
  ASSUME Shelved, NEW p \in Rows, NEW q \in Rows, L!Before(p, q)
  PROVE  ~L!Before(q, p)
<1>1. p \in Nat /\ q \in Nat /\ shelf[p].price \in Nat /\ shelf[q].price \in Nat
  BY DEF Shelved
<1>2. CASE sort = "price_asc"
  BY <1>1, <1>2 DEF L!Before
<1>3. CASE sort = "price_desc"
  BY <1>1, <1>3 DEF L!Before
<1>4. CASE sort \notin {"price_asc", "price_desc"}
  BY <1>1, <1>4 DEF L!Before
<1>. QED
  BY <1>2, <1>3, <1>4

\* In it a product has as many ahead of it as its place says.
LEMMA Place ==
  ASSUME Shelved, NEW s \in L!Orderings, NEW p \in L!Matches
  PROVE  \E i \in 1..Cardinality(L!Matches) :
            i \in DOMAIN s /\ s[i] = p /\ Cardinality(Ahead(p)) = i - 1
<1>. DEFINE M == L!Matches
            n == Cardinality(M)
            D == 1..n
<1>1. M \subseteq Rows /\ IsFiniteSet(M) /\ n \in Nat /\ \A S : L!Cardinality(S) = Cardinality(S)
  BY MatchesAreFinite
<1>2. /\ s \in [D -> M]
      /\ \A i, j \in D : i # j => s[i] # s[j]
      /\ \A i, j \in D : i < j => L!Before(s[i], s[j])
  BY <1>1 DEF L!Orderings, L!SetToSeqs
<1>. HIDE DEF M, n
<1>3. s \in Injection(D, M)
  BY <1>2 DEF Injection, IsInjective
<1>4. IsFiniteSet(D) /\ Cardinality(D) = n
  BY <1>1, FS_Interval
<1>5. s \in Surjection(D, M)
  BY <1>1, <1>3, <1>4, FS_Injection DEF n
<1>6. PICK i \in D : s[i] = p
  BY <1>5 DEF Surjection, M
<1>. DEFINE E == 1..(i - 1)
            f == [j \in E |-> s[j]]
<1>7. \A j \in E : j \in D /\ j < i
  BY <1>1
<1>8. \A j \in E : f[j] \in Ahead(p)
  BY <1>2, <1>6, <1>7 DEF Ahead, M
<1>9. ASSUME NEW q \in Ahead(p) PROVE \E j \in E : f[j] = q
  <2>1. q \in M /\ L!Before(q, p)
    BY DEF Ahead, M
  <2>2. PICK j \in D : s[j] = q
    BY <1>5, <2>1 DEF Surjection
  <2>3. p \in Rows /\ q \in Rows
    BY <1>1, <2>1 DEF M
  <2>4. ~L!Before(p, q)
    BY <2>1, <2>3, BeforeIsStrict
  <2>5. j # i
    BY <1>6, <2>1, <2>2, <2>4
  <2>6. ~(i < j)
    BY <1>2, <1>6, <2>2, <2>4
  <2>7. j \in E
    BY <1>1, <2>5, <2>6
  <2>. QED
    BY <2>2, <2>7
<1>10. f \in Surjection(E, Ahead(p))
  BY <1>8, <1>9 DEF Surjection
<1>11. f \in Injection(E, Ahead(p))
  BY <1>2, <1>7, <1>8 DEF Injection, IsInjective
<1>12. IsFiniteSet(E) /\ Cardinality(E) = i - 1
  BY <1>1, FS_Interval
<1>13. Cardinality(Ahead(p)) = Cardinality(E)
  <2>. HIDE DEF E, f
  <2>. QED
    BY <1>10, <1>11, <1>12, FS_Surjection
<1>. QED
  BY <1>2, <1>6, <1>12, <1>13 DEF n, M

\* The next page begins where this one ends.
LEMMA NextOffset ==
  ASSUME NEW n \in Nat \ {0}
  PROVE  /\ L!Offset(n) \in Nat /\ L!Offset(n + 1) = L!Offset(n) + Size
         /\ L!Offset(1) = 0
<1>. USE ListsAssumption
<1>1. (n - 1) * Size \in Nat /\ ((n + 1) - 1) * Size = (n - 1) * Size + Size /\ (1 - 1) * Size = 0
  OBVIOUS
<1>. QED
  BY <1>1 DEF L!Offset

LEMMA PagesCounted ==
  ASSUME NEW total \in Nat
  PROVE  L!TotalPages(total) \in Nat
<1>. USE ListsAssumption
<1>1. total + Size - 1 \in Nat
  OBVIOUS
<1>. QED
  BY <1>1 DEF L!TotalPages

\* A place after n pages is on a later page that there is.
LEMMA PagesReach ==
  ASSUME NEW n \in Nat, NEW total \in Nat, n * Size < total
  PROVE  n + 1 <= L!TotalPages(total)
<1>. USE ListsAssumption
<1>. DEFINE t == total + Size - 1
            d == t \div Size
<1>1. t \in Nat /\ d \in Nat
  OBVIOUS
<1>2. t < (d + 1) * Size
  OBVIOUS
<1>3. (n + 1) * Size <= t
  OBVIOUS
<1>. HIDE DEF d, t
<1>4. (n + 1) * Size < (d + 1) * Size
  BY <1>1, <1>2, <1>3
<1>5. n + 1 < d + 1
  BY <1>1, <1>4
<1>. QED
  BY <1>1, <1>5 DEF L!TotalPages, d, t

LEMMA PageRead ==
  ASSUME LInv, L!ReadPage
  PROVE  LInv'
<1>1. PICK s \in L!Orderings :
        seen' = seen \cup {s[i] : i \in DOMAIN s \cap ((L!Offset(page) + 1)..(L!Offset(page) + Size))}
  BY DEF L!ReadPage
<1>2. /\ page' = page + 1 /\ first' = IF page = 1 THEN L!Matches ELSE first
      /\ total_pages' = L!TotalPages(L!Cardinality(L!Matches))
      /\ UNCHANGED <<shelf, sort, min_price, edited, yielded>>
  BY DEF L!ReadPage
<1>3. Shelved /\ Shelved'
  BY <1>2 DEF LInv, Shelved, Rows
<1>4. /\ L!Matches' = L!Matches /\ \A p : Ahead(p)' = Ahead(p)
  BY <1>2 DEF L!Matches, Ahead, L!Before
<1>5. page \in Nat \ {0} /\ page' \in Nat \ {0} /\ page' # 1
  BY <1>2 DEF LInv
<1>6. ASSUME ~yielded, NEW p \in (first' \ edited) \ seen'
      PROVE  Cardinality(Ahead(p)) >= L!Offset(page') /\ page' <= total_pages'
  <2>. DEFINE n == Cardinality(L!Matches)
              off == L!Offset(page)
  <2>1. p \in L!Matches /\ (page = 1 \/ p \in (first \ edited) \ seen)
    BY <1>1, <1>2, <1>6 DEF LInv
  <2>2. PICK i \in 1..n : i \in DOMAIN s /\ s[i] = p /\ Cardinality(Ahead(p)) = i - 1
    BY <1>3, <2>1, Place
  <2>3. n \in Nat /\ total_pages' = L!TotalPages(n)
    BY <1>2, <1>3, MatchesAreFinite
  <2>4. off \in Nat /\ L!Offset(page') = off + Size /\ (page = 1 => off = 0)
    BY <1>2, <1>5, NextOffset
  <2>5. i - 1 >= off
    <3>1. CASE page = 1
      BY <2>3, <2>4, <3>1
    <3>2. CASE page # 1
      BY <1>6, <2>1, <2>2, <3>2 DEF LInv
    <3>. QED
      BY <3>1, <3>2
  <2>6. i \notin (off + 1)..(off + Size)
    BY <1>1, <1>6, <2>2
  <2>7. i > off + Size
    BY <2>3, <2>4, <2>5, <2>6, ListsAssumption
  <2>8. page * Size = off + Size
    BY <1>5, ListsAssumption DEF L!Offset
  <2>9. page + 1 <= L!TotalPages(n)
    BY <1>5, <2>3, <2>4, <2>7, <2>8, PagesReach, ListsAssumption
  <2>. QED
    BY <1>2, <2>2, <2>3, <2>4, <2>7, <2>9, ListsAssumption
<1>7. ~yielded => first' \ edited \subseteq L!Matches
  BY <1>2 DEF LInv
<1>8. total_pages' \in Nat
  BY <1>2, <1>3, MatchesAreFinite, PagesCounted
<1>. QED
  BY <1>2, <1>3, <1>4, <1>5, <1>6, <1>7, <1>8 DEF LInv

LEMMA ProductAdded ==
  ASSUME LInv, L!CreateProduct
  PROVE  LInv'
<1>1. PICK price \in Prices : shelf' = Append(shelf, [price |-> price, active |-> TRUE])
  BY DEF L!CreateProduct
<1>2. UNCHANGED <<sort, min_price, page, seen, total_pages, first, edited, yielded>>
  BY DEF L!CreateProduct
<1>. DEFINE n == Len(shelf)
<1>3. n \in Nat /\ Rows = 1..n /\ Shelved
  BY DEF LInv, Shelved
<1>4. Len(shelf') = n + 1 /\ Rows' = 1..(n + 1) /\ shelf'[n + 1].price = price
      /\ \A p \in 1..n : shelf'[p] = shelf[p]
  BY <1>1, <1>3 DEF Rows
<1>. HIDE DEF n
<1>5. Shelved'
  BY <1>3, <1>4, ListsAssumption DEF Shelved
<1>6. L!Matches \subseteq L!Matches' /\ L!Matches \subseteq 1..n
  BY <1>2, <1>3, <1>4 DEF L!Matches, Rows
<1>7. \A p, q \in 1..n : L!Before(p, q) => L!Before(p, q)'
  BY <1>2, <1>4 DEF L!Before
<1>8. ASSUME NEW p \in L!Matches PROVE Cardinality(Ahead(p)) <= Cardinality(Ahead(p)')
  <2>1. Ahead(p) \subseteq Ahead(p)'
    BY <1>6, <1>7 DEF Ahead
  <2>2. Ahead(p)' \subseteq Rows' /\ IsFiniteSet(Rows')
    <3>1. Ahead(p)' \subseteq Rows'
      BY DEF Ahead, L!Matches, Rows
    <3>2. IsFiniteSet(1..(n + 1))
      BY <1>3, FS_Interval
    <3>. QED
      BY <1>4, <3>1, <3>2
  <2>3. IsFiniteSet(Ahead(p)')
    BY <2>2, FS_Subset
  <2>. QED
    BY <2>1, <2>3, FS_Subset
<1>9. ASSUME NEW p \in L!Matches
      PROVE  Cardinality(Ahead(p)) \in Nat /\ Cardinality(Ahead(p)') \in Nat
  <2>1. Ahead(p) \subseteq Rows /\ Ahead(p)' \subseteq Rows'
    BY DEF Ahead, L!Matches, Rows
  <2>2. IsFiniteSet(1..n) /\ IsFiniteSet(1..(n + 1))
    BY <1>3, FS_Interval
  <2>3. IsFiniteSet(Rows) /\ IsFiniteSet(Rows')
    BY <1>3, <1>4, <2>2
  <2>. QED
    BY <2>1, <2>3, FS_Subset, FS_CardinalityType
<1>10. L!Offset(page) \in Nat
  BY NextOffset DEF LInv
<1>11. ASSUME ~yielded, NEW p \in (first \ edited) \ seen PROVE Cardinality(Ahead(p)') >= L!Offset(page)
  <2>1. p \in L!Matches /\ Cardinality(Ahead(p)) >= L!Offset(page)
    BY <1>11 DEF LInv
  <2>. QED
    BY <1>8, <1>9, <1>10, <2>1
<1>. QED
  BY <1>2, <1>5, <1>6, <1>11 DEF LInv

\* A product that changes and lets nothing behind it move up leaves as many ahead of
\* every other as there were.
LEMMA ProductChanged ==
  ASSUME LInv, L!UpdateProduct
  PROVE  LInv'
<1>1. PICK p \in Rows, price \in Prices, active \in BOOLEAN :
        /\ shelf' = [shelf EXCEPT ![p] = [price |-> price, active |-> active]]
        /\ edited' = edited \cup {p}
        /\ yielded' = (yielded \/ L!Yields(p))
  BY DEF L!UpdateProduct, Rows
<1>2. UNCHANGED <<sort, min_price, page, seen, total_pages, first>>
  BY DEF L!UpdateProduct
<1>3. Shelved /\ Len(shelf) \in Nat /\ Rows = 1..Len(shelf)
  BY DEF LInv, Shelved
<1>4. /\ Rows' = Rows /\ Len(shelf') = Len(shelf)
      /\ shelf'[p].price = price
      /\ \A q \in Rows \ {p} : shelf'[q] = shelf[q]
  BY <1>1, <1>3 DEF Rows
<1>5. Shelved'
  BY <1>3, <1>4, ListsAssumption DEF Shelved
<1>6. \A q \in Rows \ {p} : q \in L!Matches <=> q \in L!Matches'
  BY <1>2, <1>4 DEF L!Matches, Rows
<1>7. \A q, r \in Rows \ {p} : L!Before(q, r) <=> L!Before(q, r)'
  BY <1>2, <1>4 DEF L!Before
<1>8. ASSUME ~yielded', NEW q \in L!Matches, q # p
      PROVE  Ahead(q) \subseteq Ahead(q)'
  <2>. SUFFICES ASSUME NEW r \in L!Matches, L!Before(r, q)
                PROVE  r \in L!Matches' /\ L!Before(r, q)'
    BY DEF Ahead
  <2>1. q \in Rows /\ r \in Rows
    BY DEF L!Matches, Rows
  <2>2. CASE r = p
    BY <1>1, <1>8, <2>2 DEF L!Yields
  <2>3. CASE r # p
    BY <1>6, <1>7, <1>8, <2>1, <2>3
  <2>. QED
    BY <2>2, <2>3
<1>9. ASSUME ~yielded', NEW q \in L!Matches, q # p
      PROVE  /\ Cardinality(Ahead(q)) \in Nat /\ Cardinality(Ahead(q)') \in Nat
             /\ Cardinality(Ahead(q)) <= Cardinality(Ahead(q)')
  <2>1. Ahead(q)' \subseteq Rows' /\ IsFiniteSet(Rows')
    BY <1>5, FS_Interval DEF Ahead, L!Matches, Rows, Shelved
  <2>2. IsFiniteSet(Ahead(q)')
    BY <2>1, FS_Subset
  <2>3. Ahead(q) \subseteq Ahead(q)'
    BY <1>8, <1>9
  <2>. QED
    BY <2>2, <2>3, FS_Subset, FS_CardinalityType
<1>10. L!Offset(page) \in Nat
  BY NextOffset DEF LInv
<1>11. ASSUME ~yielded', NEW q \in first \ edited'
       PROVE  /\ q \in L!Matches /\ q # p /\ q \in L!Matches'
  <2>1. ~yielded /\ q \in first \ edited /\ q # p
    BY <1>1, <1>11
  <2>2. q \in L!Matches
    BY <2>1 DEF LInv
  <2>. QED
    BY <1>6, <2>1, <2>2 DEF L!Matches, Rows
<1>12. ASSUME ~yielded', NEW q \in (first \ edited') \ seen
       PROVE  Cardinality(Ahead(q)') >= L!Offset(page) /\ page <= total_pages
  <2>1. ~yielded /\ q \in (first \ edited) \ seen
    BY <1>1, <1>12
  <2>2. Cardinality(Ahead(q)) >= L!Offset(page) /\ page <= total_pages
    BY <2>1 DEF LInv
  <2>. QED
    BY <1>9, <1>10, <1>11, <1>12, <2>2
<1>13. page \in Nat \ {0} /\ total_pages \in Nat /\ (page = 1 => first = {})
  BY DEF LInv
<1>. QED
  BY <1>2, <1>5, <1>11, <1>12, <1>13 DEF LInv

LEMMA ListsStay == ShopSpec => []LInv
<1>1. L!Init => LInv
  <2>. SUFFICES ASSUME L!Init PROVE LInv
    OBVIOUS
  <2>1. PICK n \in Listed : shelf \in [1..n -> [price : Prices, active : BOOLEAN]]
    BY DEF L!Init
  <2>2. n \in Nat /\ Len(shelf) = n /\ Rows = 1..n
    BY <2>1, ListsAssumption DEF Rows
  <2>3. Shelved
    BY <2>1, <2>2, ListsAssumption DEF Shelved
  <2>. QED
    BY <2>3 DEF L!Init, LInv
<1>2. ASSUME LInv, UNCHANGED L!vars PROVE LInv'
  BY <1>2 DEF LInv, L!vars, Shelved, Rows, L!Matches, Ahead, L!Before
<1>3. LInv /\ [L!Next]_(L!vars) => LInv'
  BY <1>2, PageRead, ProductAdded, ProductChanged DEF L!Next
<1>. QED
  BY <1>1, <1>3, EachByItself, PTL DEF L!Spec

\* A reader who turns the pages to the last one has been shown every product that
\* was on the list when he began and has not changed itself, though others are
\* added, come back, or move up to the front meanwhile: every page is sorted by id
\* last (get_list).
THEOREM EverythingShown == ShopSpec => []NothingMissed
<1>1. LInv => NothingMissed
  BY DEF LInv, NothingMissed, L!NothingMissed
<1>. QED
  BY <1>1, ListsStay, PTL

(***************************************************************************)
(* The address book.                                                       *)
(***************************************************************************)
LEMMA AddressBooks ==
  /\ A!Idle = Idle
  /\ A!Busy(addressRequest) = Busy(addressRequest)
  /\ \A h, r : A!Begun(addressRequest, h, r) = Begun(addressRequest, h, r)
BY DEF A!Idle, Idle, A!Busy, Busy, A!Begun, Begun

Booked(rs, last) ==
    \A i \in DOMAIN rs :
        /\ i \in 1..last /\ DOMAIN rs[i] = {"user", "is_default"}
        /\ rs[i].user \in Buyers /\ rs[i].is_default \in BOOLEAN

DefaultsOf(rs, u) == {i \in DOMAIN rs : rs[i].user = u /\ rs[i].is_default}

AddressEntries == {"op", "user", "id", "set", "aim", "holds", "at", "alone"}

\* A request is about rows of its own user.  If no other request of his overlaps it,
\* its row is still there, and it clears all the defaults he has.
Mine(r, rs, last) ==
    /\ DOMAIN r = AddressEntries
    /\ r.op \in {"create", "update", "delete"} /\ r.user \in Buyers
    /\ r.set \in {"on", "off", "keep"} /\ r.at \in {"clear", "clearing", "write"}
    /\ r.op = "delete" => r.set = "keep"
    /\ r.op # "create" => r.id \in 1..last /\ (r.id \in DOMAIN rs => rs[r.id].user = r.user)
    /\ \A i \in r.aim \cup r.holds : i \in 1..last /\ (i \in DOMAIN rs => rs[i].user = r.user)
    /\ r.alone =>
          /\ r.op = "update" => r.id \in DOMAIN rs
          /\ r.at = "clearing" => r.aim = DefaultsOf(rs, r.user)
          /\ r.set = "on" /\ r.at = "write" => r.holds = DefaultsOf(rs, r.user)

\* Two requests do not clear the same row.
Disjoint(q) ==
    \A g, h \in Handlers :
        g # h /\ q[g] # Idle /\ q[h] # Idle => q[g].holds \cap q[h].holds = {}

\* The inductive invariant.
BookInv ==
    /\ lastAddress \in Nat
    /\ Booked(rows, lastAddress)
    /\ DOMAIN addressRequest = Handlers
    /\ \A h \in Handlers : addressRequest[h] # Idle => Mine(addressRequest[h], rows, lastAddress)
    /\ Apart(Handlers, Idle, addressRequest) /\ Disjoint(addressRequest)

\* A step that writes rows of user u only.
Touches(rs, last, after, u) ==
    /\ \A i \in DOMAIN rs : rs[i].user # u => i \in DOMAIN after /\ after[i] = rs[i]
    /\ \A i \in DOMAIN after \cap DOMAIN rs : after[i].user = rs[i].user
    /\ \A i \in DOMAIN after \ DOMAIN rs : i \notin 1..last /\ after[i].user = u

\* It is no matter for a request of another user, nor for one that overlaps it.
LEMMA MineMeanwhile ==
  ASSUME NEW r, NEW rs, NEW last \in Nat, Mine(r, rs, last), NEW after, NEW u, Touches(rs, last, after, u),
         r.user = u => ~r.alone, NEW next \in Nat, last <= next
  PROVE  Mine(r, after, next)
<1>1. \A i \in 1..last : i \in 1..next
  OBVIOUS
<1>2. r.user # u => DefaultsOf(after, r.user) = DefaultsOf(rs, r.user)
  BY DEF Touches, DefaultsOf
<1>3. \A i \in 1..last : i \in DOMAIN after => i \in DOMAIN rs /\ after[i].user = rs[i].user
  BY DEF Touches
<1>4. r.alone /\ r.op = "update" => r.id \in DOMAIN after
  BY DEF Mine, Touches
<1>. QED
  BY <1>1, <1>2, <1>3, <1>4 DEF Mine

LEMMA MineMarked ==
  ASSUME NEW r, NEW rs, NEW last, Mine(r, rs, last), NEW b, b => r.alone
  PROVE  Mine([r EXCEPT !.alone = b], rs, last) /\ [r EXCEPT !.alone = b].holds = r.holds
<1>. DEFINE t == [r EXCEPT !.alone = b]
<1>1. /\ DOMAIN t = AddressEntries /\ t.op = r.op /\ t.user = r.user /\ t.id = r.id
      /\ t.set = r.set /\ t.aim = r.aim /\ t.holds = r.holds /\ t.at = r.at /\ (t.alone => r.alone)
  BY DEF Mine, AddressEntries
<1>. HIDE DEF t
<1>2. Mine(t, rs, last)
  BY <1>1 DEF Mine
<1>. QED
  BY <1>1, <1>2 DEF t

\* A request starts; it holds nothing yet.
LEMMA AddressStart ==
  ASSUME BookInv, NEW h \in Handlers, NEW r, Mine(r, rows, lastAddress), r.alone, r.holds = {},
         A!Start(h, r)
  PROVE  BookInv' /\ \A g \in Handlers : addressRequest'[g] = Idle => addressRequest[g] = Idle
<1>. DEFINE q == addressRequest
            after == addressRequest'
<1>1. /\ h \notin Busy(q) /\ after = Begun(q, h, r) /\ UNCHANGED <<rows, lastAddress>>
  BY AddressBooks DEF A!Start, A!Active
<1>2. /\ Apart(Handlers, Idle, q) /\ Disjoint(q)
      /\ \A g \in Handlers : q[g] # Idle => Mine(q[g], rows, lastAddress)
  BY DEF BookInv
<1>3. Marked(Handlers, Idle, q) /\ {"user", "alone"} \subseteq DOMAIN r /\ q[h] = Idle
  BY <1>1, <1>2 DEF Marked, Mine, AddressEntries, Busy
<1>. HIDE DEF q, after
<1>0. Begins(Handlers, Idle, q, h, r, after)
  BY <1>1, ItBegins
<1>4. /\ Apart(Handlers, Idle, after) /\ Started(Handlers, Idle, q, h, r, after)
      /\ \A g \in Handlers : after[g] = Idle <=> g # h /\ q[g] = Idle
  BY <1>0, <1>1, <1>2, <1>3, BegunApart, BegunIs, BegunGoesOn
<1>5. ASSUME NEW g \in Handlers, after[g] # Idle
      PROVE  /\ Mine(after[g], rows, lastAddress)
             /\ g = h => after[g].holds = {}
             /\ g # h => q[g] # Idle /\ after[g].holds = q[g].holds
  <2>1. CASE g = h
    <3>1. PICK b : after[h] = [r EXCEPT !.alone = b]
      BY <1>4 DEF Started
    <3>. DEFINE t == [r EXCEPT !.alone = b]
    <3>2. Mine(t, rows, lastAddress) /\ t.holds = r.holds
      BY MineMarked
    <3>. HIDE DEF t
    <3>3. after[g] = t
      BY <2>1, <3>1 DEF t
    <3>. QED
      BY <2>1, <3>2, <3>3
  <2>2. CASE g # h /\ after[g] = q[g]
    BY <1>2, <1>5, <2>2
  <2>3. CASE g # h /\ q[g] # Idle /\ after[g] = [q[g] EXCEPT !.alone = FALSE]
    <3>. DEFINE t == [q[g] EXCEPT !.alone = FALSE]
    <3>1. Mine(q[g], rows, lastAddress)
      BY <1>2, <2>3
    <3>2. Mine(t, rows, lastAddress) /\ t.holds = q[g].holds
      BY <3>1, MineMarked
    <3>. HIDE DEF t
    <3>3. after[g] = t
      BY <2>3 DEF t
    <3>. QED
      BY <2>3, <3>2, <3>3
  <2>. QED
    BY <1>4, <2>1, <2>2, <2>3 DEF Started
<1>6. Disjoint(after)
  BY <1>2, <1>5 DEF Disjoint
<1>7. DOMAIN after = Handlers
  BY <1>4 DEF Started
<1>. QED
  BY <1>1, <1>4, <1>5, <1>6, <1>7 DEF BookInv, after, q

\* One goes on, without writing.
LEMMA AddressNext ==
  ASSUME BookInv, NEW h \in Handlers, NEW s, addressRequest' = [addressRequest EXCEPT ![h] = s],
         UNCHANGED <<rows, lastAddress>>, Mine(s, rows, lastAddress), addressRequest[h] # Idle,
         s.user = addressRequest[h].user, s.alone => addressRequest[h].alone,
         \A g \in Handlers \ {h} : addressRequest[g] # Idle => s.holds \cap addressRequest[g].holds = {}
  PROVE  BookInv' /\ s # Idle
<1>. DEFINE q == addressRequest
            after == addressRequest'
<1>1. after[h] = s /\ DOMAIN after = Handlers /\ \A g \in Handlers \ {h} : after[g] = q[g]
  BY DEF BookInv
<1>2. Continued(Handlers, Idle, q, after)
  BY <1>1 DEF Continued
<1>3. Apart(Handlers, Idle, after)
  BY <1>2, ContinuedApart DEF BookInv
<1>4. Disjoint(after)
  BY <1>1 DEF BookInv, Disjoint
<1>5. s # Idle
  BY DEF Mine, AddressEntries, Idle
<1>. QED
  BY <1>1, <1>3, <1>4, <1>5 DEF BookInv

\* One ends, and has written rows of its user only.
LEMMA AddressEnd ==
  ASSUME BookInv, NEW h \in Handlers, addressRequest' = [addressRequest EXCEPT ![h] = Idle],
         addressRequest[h] # Idle, lastAddress' \in Nat, lastAddress <= lastAddress',
         Booked(rows', lastAddress'),
         Touches(rows, lastAddress, rows', addressRequest[h].user)
  PROVE  BookInv'
<1>. DEFINE q == addressRequest
            after == addressRequest'
            u == q[h].user
<1>1. /\ DOMAIN after = Handlers /\ after[h] = Idle /\ \A g \in Handlers \ {h} : after[g] = q[g]
      /\ lastAddress \in Nat
  BY DEF BookInv
<1>2. Continued(Handlers, Idle, q, after)
  BY <1>1 DEF Continued
<1>3. Apart(Handlers, Idle, after)
  BY <1>2, ContinuedApart DEF BookInv
<1>4. Disjoint(after)
  BY <1>1 DEF BookInv, Disjoint
<1>5. ASSUME NEW g \in Handlers, after[g] # Idle PROVE Mine(after[g], rows', lastAddress')
  <2>1. g # h /\ after[g] = q[g] /\ Mine(q[g], rows, lastAddress)
    BY <1>1, <1>5 DEF BookInv
  <2>2. q[g].user = u => ~q[g].alone
    BY <1>1, <1>5, <2>1 DEF BookInv, Apart
  <2>. QED
    BY <1>1, <2>1, <2>2, MineMeanwhile
<1>. QED
  BY <1>1, <1>3, <1>4, <1>5 DEF BookInv

\* What clear_default leaves of the rows.
LEMMA ClearedRows ==
  ASSUME BookInv, NEW h \in Handlers, addressRequest[h] # Idle
  PROVE  LET r == addressRequest[h]
             c == A!Cleared(r)
         IN /\ DOMAIN c = DOMAIN rows
            /\ \A i \in DOMAIN rows :
                  /\ DOMAIN c[i] = {"user", "is_default"} /\ c[i].user = rows[i].user
                  /\ c[i].is_default \in BOOLEAN
                  /\ c[i].is_default <=> rows[i].is_default /\ i \notin r.holds
                  /\ i \notin r.holds => c[i] = rows[i]
                  /\ rows[i].user # r.user => i \notin r.holds
<1>. DEFINE r == addressRequest[h]
            c == A!Cleared(r)
<1>1. /\ DOMAIN c = DOMAIN rows
      /\ \A i \in DOMAIN rows : c[i] = IF i \in r.holds THEN [rows[i] EXCEPT !.is_default = FALSE]
                                       ELSE rows[i]
  BY DEF A!Cleared
<1>2. Booked(rows, lastAddress) /\ Mine(r, rows, lastAddress)
  BY DEF BookInv
<1>. HIDE DEF c, r
<1>. SUFFICES ASSUME NEW i \in DOMAIN rows
              PROVE  /\ DOMAIN c[i] = {"user", "is_default"} /\ c[i].user = rows[i].user
                     /\ c[i].is_default \in BOOLEAN
                     /\ c[i].is_default <=> rows[i].is_default /\ i \notin r.holds
                     /\ i \notin r.holds => c[i] = rows[i]
                     /\ rows[i].user # r.user => i \notin r.holds
  BY <1>1 DEF c, r
<1>3. rows[i].user # r.user => i \notin r.holds
  BY <1>2 DEF Mine
<1>4. DOMAIN rows[i] = {"user", "is_default"} /\ rows[i].is_default \in BOOLEAN
  BY <1>2 DEF Booked
<1>5. CASE i \in r.holds
  <2>. DEFINE t == [rows[i] EXCEPT !.is_default = FALSE]
  <2>1. /\ DOMAIN t = {"user", "is_default"} /\ t.user = rows[i].user
        /\ t.is_default \in BOOLEAN /\ ~t.is_default
    BY <1>4
  <2>2. c[i] = t
    BY <1>1, <1>5
  <2>. HIDE DEF t
  <2>. QED
    BY <1>3, <1>5, <2>1, <2>2
<1>6. CASE i \notin r.holds
  <2>1. c[i] = rows[i]
    BY <1>1, <1>6
  <2>. QED
    BY <1>3, <1>4, <1>6, <2>1
<1>. QED
  BY <1>5, <1>6

\* What a commit leaves: rows of its user only, and if nothing overlapped a request
\* for the default, its row as the only one.
Written(r, after, last) ==
    /\ last \in Nat /\ lastAddress <= last /\ Booked(after, last)
    /\ Touches(rows, lastAddress, after, r.user)
    /\ r.alone /\ r.set = "on" => \E i : DefaultsOf(after, r.user) = {i}

LEMMA CreateWrites ==
  ASSUME BookInv, NEW h \in Handlers, A!CommitCreate(h)
  PROVE  Written(addressRequest[h], rows', lastAddress') /\ addressRequest[h] # Idle
<1>. DEFINE r == addressRequest[h]
            c == A!Cleared(r)
            n == lastAddress + 1
<1>1. /\ r # Idle /\ r.op = "create" /\ r.at = "write" /\ lastAddress' = n
      /\ rows' = [i \in DOMAIN rows \cup {n} |->
                     IF i = n THEN [user |-> r.user, is_default |-> r.set = "on"] ELSE c[i]]
  BY AddressBooks DEF A!CommitCreate, A!Active, Busy
<1>2. Booked(rows, lastAddress) /\ Mine(r, rows, lastAddress) /\ lastAddress \in Nat
  BY <1>1 DEF BookInv
<1>3. /\ DOMAIN c = DOMAIN rows
      /\ \A i \in DOMAIN rows :
            /\ DOMAIN c[i] = {"user", "is_default"} /\ c[i].user = rows[i].user
            /\ c[i].is_default \in BOOLEAN
            /\ c[i].is_default <=> rows[i].is_default /\ i \notin r.holds
            /\ i \notin r.holds => c[i] = rows[i]
            /\ rows[i].user # r.user => i \notin r.holds
  BY <1>1, ClearedRows
<1>. HIDE DEF r, c
<1>4. n \in Nat /\ n \notin 1..lastAddress /\ n \in 1..n /\ 1..lastAddress \subseteq 1..n
  BY <1>2
<1>5. n \notin DOMAIN rows /\ r.user \in Buyers
  BY <1>2, <1>4 DEF Booked, Mine
<1>. HIDE DEF n
<1>6. /\ DOMAIN rows' = DOMAIN rows \cup {n}
      /\ \A i \in DOMAIN rows : rows'[i] = c[i]
      /\ rows'[n] = [user |-> r.user, is_default |-> r.set = "on"]
  BY <1>1, <1>5
<1>7. /\ DOMAIN rows'[n] = {"user", "is_default"} /\ rows'[n].user = r.user
      /\ rows'[n].is_default \in BOOLEAN /\ (rows'[n].is_default <=> r.set = "on")
  <2>. DEFINE b == r.set = "on"
  <2>1. b \in BOOLEAN /\ rows'[n] = [user |-> r.user, is_default |-> b]
    BY <1>6
  <2>2. rows'[n].is_default \in BOOLEAN /\ (rows'[n].is_default <=> b)
    <3>. HIDE DEF b
    <3>. QED
      BY <2>1
  <2>. QED
    BY <1>6, <2>2
<1>8. Booked(rows', n)
  BY <1>2, <1>3, <1>4, <1>5, <1>6, <1>7 DEF Booked
<1>9. Touches(rows, lastAddress, rows', r.user)
  BY <1>3, <1>4, <1>5, <1>6, <1>7 DEF Touches
<1>10. ASSUME r.alone, r.set = "on" PROVE DefaultsOf(rows', r.user) = {n}
  <2>1. r.holds = DefaultsOf(rows, r.user)
    BY <1>1, <1>2, <1>10 DEF Mine
  <2>2. \A i \in DOMAIN rows : i \notin DefaultsOf(rows', r.user)
    BY <1>3, <1>6, <2>1 DEF DefaultsOf
  <2>. QED
    BY <1>6, <1>7, <1>10, <2>2 DEF DefaultsOf
<1>11. lastAddress <= n /\ lastAddress' = n
  BY <1>1, <1>2 DEF n
<1>. QED
  BY <1>1, <1>4, <1>8, <1>9, <1>10, <1>11 DEF Written, r

LEMMA UpdateWrites ==
  ASSUME BookInv, NEW h \in Handlers, A!CommitUpdate(h)
  PROVE  Written(addressRequest[h], rows', lastAddress') /\ addressRequest[h] # Idle
<1>. DEFINE r == addressRequest[h]
            c == A!Cleared(r)
            b == r.set = "on"
<1>1. /\ r # Idle /\ r.op = "update" /\ r.at = "write" /\ lastAddress' = lastAddress
      /\ rows' = IF r.id \notin DOMAIN rows THEN rows
                 ELSE IF r.set = "keep" THEN c
                 ELSE [c EXCEPT ![r.id].is_default = b]
  BY AddressBooks DEF A!CommitUpdate, A!Active, Busy
<1>2. /\ Booked(rows, lastAddress) /\ Mine(r, rows, lastAddress) /\ lastAddress \in Nat
      /\ lastAddress <= lastAddress
  BY <1>1 DEF BookInv
<1>3. /\ DOMAIN c = DOMAIN rows
      /\ \A i \in DOMAIN rows :
            /\ DOMAIN c[i] = {"user", "is_default"} /\ c[i].user = rows[i].user
            /\ c[i].is_default \in BOOLEAN
            /\ c[i].is_default <=> rows[i].is_default /\ i \notin r.holds
            /\ i \notin r.holds => c[i] = rows[i]
            /\ rows[i].user # r.user => i \notin r.holds
  BY <1>1, ClearedRows
<1>4. b \in BOOLEAN /\ (b <=> r.set = "on") /\ (r.id \in DOMAIN rows => rows[r.id].user = r.user)
  BY <1>1, <1>2 DEF Mine
<1>. HIDE DEF r, c, b
<1>5. CASE r.id \notin DOMAIN rows
  <2>1. rows' = rows
    BY <1>1, <1>5
  <2>2. ~r.alone
    BY <1>1, <1>2, <1>5 DEF Mine
  <2>. QED
    BY <1>1, <1>2, <2>1, <2>2 DEF Written, Touches, r
<1>6. CASE r.id \in DOMAIN rows /\ r.set = "keep"
  <2>1. rows' = c
    BY <1>1, <1>6
  <2>2. Booked(c, lastAddress) /\ Touches(rows, lastAddress, c, r.user)
    BY <1>2, <1>3 DEF Booked, Touches
  <2>. QED
    BY <1>1, <1>2, <1>6, <2>1, <2>2 DEF Written, r
<1>7. CASE r.id \in DOMAIN rows /\ r.set # "keep"
  <2>. DEFINE w == rows'
              t == [c[r.id] EXCEPT !.is_default = b]
  <2>1. w = [c EXCEPT ![r.id] = t]
    BY <1>1, <1>7
  <2>2. /\ DOMAIN t = {"user", "is_default"} /\ t.user = r.user
        /\ t.is_default \in BOOLEAN /\ (t.is_default <=> b)
    BY <1>3, <1>4, <1>7
  <2>. HIDE DEF w, t
  <2>3. /\ DOMAIN w = DOMAIN rows /\ w[r.id] = t
        /\ \A i \in DOMAIN rows \ {r.id} : w[i] = c[i]
    BY <1>3, <1>7, <2>1
  <2>4. Booked(w, lastAddress) /\ Touches(rows, lastAddress, w, r.user)
    BY <1>2, <1>3, <1>4, <1>7, <2>2, <2>3 DEF Booked, Touches
  <2>5. ASSUME r.alone, r.set = "on" PROVE DefaultsOf(w, r.user) = {r.id}
    <3>1. r.holds = DefaultsOf(rows, r.user)
      BY <1>1, <1>2, <2>5 DEF Mine
    <3>2. \A i \in DOMAIN rows \ {r.id} : i \notin DefaultsOf(w, r.user)
      BY <1>3, <2>3, <3>1 DEF DefaultsOf
    <3>. QED
      BY <1>4, <1>7, <2>2, <2>3, <2>5, <3>2 DEF DefaultsOf
  <2>. QED
    BY <1>1, <1>2, <2>4, <2>5 DEF Written, r, w
<1>. QED
  BY <1>5, <1>6, <1>7

LEMMA DeleteWrites ==
  ASSUME BookInv, NEW h \in Handlers, A!CommitDelete(h)
  PROVE  Written(addressRequest[h], rows', lastAddress') /\ addressRequest[h] # Idle
<1>. DEFINE r == addressRequest[h]
<1>1. /\ r # Idle /\ r.op = "delete" /\ lastAddress' = lastAddress
      /\ rows' = [i \in DOMAIN rows \ {r.id} |-> rows[i]]
  BY AddressBooks DEF A!CommitDelete, A!Active, Busy
<1>2. /\ Booked(rows, lastAddress) /\ Mine(r, rows, lastAddress) /\ lastAddress \in Nat
      /\ lastAddress <= lastAddress
  BY <1>1 DEF BookInv
<1>. HIDE DEF r
<1>3. r.set # "on" /\ (r.id \in DOMAIN rows => rows[r.id].user = r.user)
  BY <1>1, <1>2 DEF Mine
<1>4. DOMAIN rows' = DOMAIN rows \ {r.id} /\ \A i \in DOMAIN rows' : rows'[i] = rows[i]
  BY <1>1
<1>5. Booked(rows', lastAddress)
  BY <1>2, <1>4 DEF Booked
<1>6. Touches(rows, lastAddress, rows', r.user)
  BY <1>3, <1>4 DEF Touches
<1>. QED
  BY <1>1, <1>2, <1>3, <1>5, <1>6 DEF Written, r

\* What the requests that start have read.
LEMMA ReceivedIsMine ==
  ASSUME NEW op \in {"create", "update", "delete"}, NEW u \in Buyers, NEW id,
         NEW set \in {"on", "off", "keep"}, op = "delete" => set = "keep",
         op # "create" => id \in DOMAIN rows /\ rows[id].user = u, Booked(rows, lastAddress)
  PROVE  LET r == A!Received(op, u, id, set) IN
         Mine(r, rows, lastAddress) /\ r.alone /\ r.holds = {}
<1>. DEFINE r == A!Received(op, u, id, set)
<1>1. /\ DOMAIN r = AddressEntries
      /\ r.op = op /\ r.user = u /\ r.id = id /\ r.set = set /\ r.aim = {} /\ r.holds = {}
      /\ r.at \in {"clear", "write"} /\ (set = "on" => r.at = "clear") /\ r.alone
  BY DEF A!Received, AddressEntries
<1>. HIDE DEF r
<1>2. op # "create" => id \in 1..lastAddress
  BY DEF Booked
<1>3. Mine(r, rows, lastAddress)
  BY <1>1, <1>2 DEF Mine
<1>. QED
  BY <1>1, <1>3 DEF r

\* No request ends but by its commit.
GoesOn == \A g \in Handlers : addressRequest'[g] = Idle => addressRequest[g] = Idle

LEMMA AddressReceived ==
  ASSUME BookInv, NEW h \in Handlers, NEW u \in Buyers,
         A!StartCreate(h, u) \/ A!StartUpdate(h, u) \/ A!StartDelete(h, u)
  PROVE  \E r : /\ A!Start(h, r) /\ Mine(r, rows, lastAddress) /\ r.alone /\ r.holds = {}
               /\ r.user = u /\ (r.op = "create" => A!StartCreate(h, u))
<1>0. Booked(rows, lastAddress) /\ A!Of(u) = {i \in DOMAIN rows : rows[i].user = u}
  BY DEF BookInv, A!Of
<1>1. ASSUME NEW op \in {"create", "update", "delete"}, NEW id,
             NEW set \in {"on", "off", "keep"}, op = "delete" => set = "keep",
             op # "create" => id \in A!Of(u), A!Start(h, A!Received(op, u, id, set)),
             op = "create" => A!StartCreate(h, u)
      PROVE  \E r : /\ A!Start(h, r) /\ Mine(r, rows, lastAddress) /\ r.alone /\ r.holds = {}
                   /\ r.user = u /\ (r.op = "create" => A!StartCreate(h, u))
  <2>. DEFINE r == A!Received(op, u, id, set)
  <2>1. Mine(r, rows, lastAddress) /\ r.alone /\ r.holds = {}
    BY <1>0, <1>1, ReceivedIsMine
  <2>2. r.user = u /\ r.op = op
    BY DEF A!Received
  <2>. HIDE DEF r
  <2>3. A!Start(h, r)
    BY <1>1 DEF r
  <2>. QED
    BY <1>1, <2>1, <2>2, <2>3
<1>2. CASE A!StartCreate(h, u)
  <2>1. PICK set \in {"on", "off"} : A!Start(h, A!Received("create", u, 0, set))
    BY <1>2 DEF A!StartCreate
  <2>. QED
    BY <1>1, <1>2, <2>1
<1>3. CASE A!StartUpdate(h, u)
  <2>1. PICK id \in A!Of(u), set \in A!Settings :
            A!Start(h, A!Received("update", u, id,
                          IF set = "off" /\ ~rows[id].is_default THEN "keep" ELSE set))
    BY <1>3 DEF A!StartUpdate
  <2>. DEFINE s == IF set = "off" /\ ~rows[id].is_default THEN "keep" ELSE set
  <2>2. s \in {"on", "off", "keep"}
    BY <2>1 DEF A!Settings
  <2>3. A!Start(h, A!Received("update", u, id, s))
    BY <2>1
  <2>. HIDE DEF s
  <2>. QED
    BY <1>1, <2>1, <2>2, <2>3
<1>4. CASE A!StartDelete(h, u)
  <2>1. PICK id \in A!Of(u) : A!Start(h, A!Received("delete", u, id, "keep"))
    BY <1>4 DEF A!StartDelete
  <2>. QED
    BY <1>1, <2>1
<1>. QED
  BY <1>2, <1>3, <1>4

LEMMA AddressStarts ==
  ASSUME BookInv, NEW h \in Handlers, NEW u \in Buyers,
         A!StartCreate(h, u) \/ A!StartUpdate(h, u) \/ A!StartDelete(h, u)
  PROVE  BookInv' /\ GoesOn
BY AddressReceived, AddressStart DEF GoesOn

LEMMA ClearingStarts ==
  ASSUME BookInv, NEW h \in Handlers, A!StartClear(h)
  PROVE  BookInv' /\ GoesOn
<1>. DEFINE q == addressRequest
            r == q[h]
            aim == A!Aim(h)
            s == [r EXCEPT !.at = "clearing", !.aim = aim]
<1>1. /\ r # Idle /\ r.at = "clear" /\ UNCHANGED <<rows, lastAddress>>
      /\ addressRequest' = [q EXCEPT ![h].at = "clearing", ![h].aim = aim]
  BY AddressBooks DEF A!StartClear, A!Active, Busy
<1>2. Mine(r, rows, lastAddress) /\ Booked(rows, lastAddress) /\ DOMAIN q = Handlers
  BY <1>1 DEF BookInv
<1>3. aim = DefaultsOf(rows, r.user)
  BY DEF A!Aim, A!Defaults, A!Of, DefaultsOf
<1>4. /\ DOMAIN s = AddressEntries /\ s.op = r.op /\ s.user = r.user /\ s.id = r.id
      /\ s.set = r.set /\ s.aim = aim /\ s.holds = r.holds /\ s.at = "clearing"
      /\ (s.alone <=> r.alone)
  BY <1>2 DEF Mine, AddressEntries
<1>5. addressRequest' = [q EXCEPT ![h] = s]
  BY <1>1, <1>2
<1>. HIDE DEF s, aim, r
<1>6. \A i \in aim : i \in 1..lastAddress /\ rows[i].user = r.user
  BY <1>2, <1>3 DEF DefaultsOf, Booked
<1>7. Mine(s, rows, lastAddress)
  BY <1>2, <1>3, <1>4, <1>6 DEF Mine
<1>8. \A g \in Handlers \ {h} : q[g] # Idle => s.holds \cap q[g].holds = {}
  BY <1>1, <1>4 DEF BookInv, Disjoint, r
<1>9. BookInv' /\ s # Idle
  BY <1>1, <1>4, <1>5, <1>7, <1>8, AddressNext DEF r
<1>. QED
  BY <1>2, <1>5, <1>9 DEF GoesOn

LEMMA ClearingEnds ==
  ASSUME BookInv, NEW h \in Handlers, A!ClearDefault(h)
  PROVE  BookInv' /\ GoesOn
<1>. DEFINE q == addressRequest
            r == q[h]
            found == {i \in r.aim \cap DOMAIN rows : rows[i].is_default}
            s == [r EXCEPT !.at = "write", !.holds = found]
<1>1. /\ r # Idle /\ r.at = "clearing" /\ UNCHANGED <<rows, lastAddress>>
      /\ r.aim \cap A!Held(h) = {}
      /\ addressRequest' = [q EXCEPT ![h].at = "write", ![h].holds = found]
  BY AddressBooks DEF A!ClearDefault, A!Active, Busy
<1>2. Mine(r, rows, lastAddress) /\ Booked(rows, lastAddress) /\ DOMAIN q = Handlers
  BY <1>1 DEF BookInv
<1>3. /\ DOMAIN s = AddressEntries /\ s.op = r.op /\ s.user = r.user /\ s.id = r.id
      /\ s.set = r.set /\ s.aim = r.aim /\ s.holds = found /\ s.at = "write"
      /\ (s.alone <=> r.alone)
  BY <1>2 DEF Mine, AddressEntries
<1>4. addressRequest' = [q EXCEPT ![h] = s]
  BY <1>1, <1>2
<1>5. found \subseteq r.aim /\ (r.aim = DefaultsOf(rows, r.user) => found = r.aim)
  BY DEF DefaultsOf
<1>6. \A g \in Handlers \ {h} : q[g] # Idle => q[g].holds \subseteq A!Held(h)
  BY AddressBooks DEF A!Held, A!Active, Busy
<1>. HIDE DEF s, found, r
<1>7. Mine(s, rows, lastAddress)
  BY <1>1, <1>2, <1>3, <1>5 DEF Mine
<1>8. \A g \in Handlers \ {h} : q[g] # Idle => s.holds \cap q[g].holds = {}
  BY <1>1, <1>3, <1>5, <1>6
<1>9. BookInv' /\ s # Idle
  BY <1>1, <1>3, <1>4, <1>7, <1>8, AddressNext DEF r
<1>. QED
  BY <1>2, <1>4, <1>9 DEF GoesOn

LEMMA AddressCommits ==
  ASSUME BookInv, NEW h \in Handlers, A!CommitCreate(h) \/ A!CommitUpdate(h) \/ A!CommitDelete(h)
  PROVE  /\ BookInv' /\ Written(addressRequest[h], rows', lastAddress')
         /\ \A g \in Handlers \ {h} : addressRequest'[g] = addressRequest[g]
<1>1. addressRequest' = [addressRequest EXCEPT ![h] = Idle]
  BY AddressBooks DEF A!CommitCreate, A!CommitUpdate, A!CommitDelete, A!Done, A!Ended
<1>2. Written(addressRequest[h], rows', lastAddress') /\ addressRequest[h] # Idle
  BY CreateWrites, UpdateWrites, DeleteWrites
<1>3. BookInv'
  BY <1>1, <1>2, AddressEnd DEF Written
<1>. QED
  BY <1>1, <1>2, <1>3 DEF BookInv

LEMMA BooksAtFirst == A!Init => BookInv
<1>. SUFFICES ASSUME A!Init PROVE BookInv
  OBVIOUS
<1>1. DOMAIN rows = {} /\ lastAddress = 0 /\ addressRequest = [h \in Handlers |-> Idle]
  BY AddressBooks DEF A!Init
<1>. QED
  BY <1>1 DEF BookInv, Booked, Apart, Disjoint

LEMMA BooksStay == BookInv /\ [A!Next]_(A!vars) => BookInv'
<1>1. ASSUME BookInv, UNCHANGED A!vars PROVE BookInv'
  BY <1>1 DEF A!vars, BookInv
<1>. QED
  BY <1>1, AddressStarts, ClearingStarts, ClearingEnds, AddressCommits DEF A!Next

\* However many defaults earlier races left, a request for the default that no
\* other request of its user overlaps leaves its row as the only one
\* (address_service.py:58).
THEOREM DefaultHeals == ShopSpec => LoneDefaultHeals
<1>. DEFINE Healed == \A h \in Handlers :
                          /\ A!Active(h) /\ addressRequest'[h] = A!Idle
                          /\ addressRequest[h].set = "on" /\ addressRequest[h].alone
                          => A!Cardinality({i \in DOMAIN rows' :
                                 rows'[i].user = addressRequest[h].user /\ rows'[i].is_default}) = 1
<1>1. ASSUME BookInv, NEW h \in Handlers, NEW k \in Handlers,
             A!CommitCreate(h) \/ A!CommitUpdate(h) \/ A!CommitDelete(h),
             A!Active(k), addressRequest'[k] = A!Idle,
             addressRequest[k].set = "on", addressRequest[k].alone
      PROVE  A!Cardinality(DefaultsOf(rows', addressRequest[k].user)) = 1
  <2>1. k = h
    BY <1>1, AddressBooks, AddressCommits DEF A!Active, Busy
  <2>2. PICK i : DefaultsOf(rows', addressRequest[k].user) = {i}
    BY <1>1, <2>1, AddressCommits DEF Written
  <2>3. Cardinality({i}) = 1
    BY FS_Singleton
  <2>. QED
    BY <2>2, <2>3 DEF A!Cardinality, Cardinality
<1>2. BookInv /\ GoesOn => Healed
  BY AddressBooks DEF GoesOn, A!Active, Busy
<1>3. ASSUME BookInv, A!Next PROVE Healed
  <2>1. CASE \E h \in Handlers : A!CommitCreate(h) \/ A!CommitUpdate(h) \/ A!CommitDelete(h)
    BY <1>1, <1>3, <2>1 DEF DefaultsOf
  <2>2. CASE \E h \in Handlers : \/ A!StartClear(h) \/ A!ClearDefault(h)
                                 \/ \E u \in Buyers : \/ A!StartCreate(h, u)
                                                      \/ A!StartUpdate(h, u) \/ A!StartDelete(h, u)
    BY <1>2, <1>3, <2>2, AddressStarts, ClearingStarts, ClearingEnds
  <2>. QED
    BY <1>3, <2>1, <2>2 DEF A!Next
<1>4. LoneDefaultHeals <=> [][Healed]_(A!vars)
  BY DEF LoneDefaultHeals, A!LoneDefaultHeals
<1>. HIDE DEF Healed
<1>. QED
  BY <1>3, <1>4, BooksAtFirst, BooksStay, EachByItself, PTL DEF A!Spec

(***************************************************************************)
(* The cart.                                                               *)
(***************************************************************************)
LEMMA BasketBooks ==
  /\ B!Idle = Idle
  /\ B!Busy(basketRequest) = Busy(basketRequest)
  /\ \A h, r : B!Begun(basketRequest, h, r) = Begun(basketRequest, h, r)
BY DEF B!Idle, Idle, B!Busy, Busy, B!Begun, Begun

LinesOf(cs, u, p) == {i \in DOMAIN cs : cs[i].user = u /\ cs[i].product = p}

\* The rows; a user has one for a product.
Carted(cs, last) ==
    /\ \A i \in DOMAIN cs :
          /\ i \in 1..last /\ DOMAIN cs[i] = {"user", "product", "quantity"}
          /\ cs[i].user \in Buyers /\ cs[i].product \in Wares /\ cs[i].quantity \in 1..MaxStock
    /\ \A i, j \in DOMAIN cs : cs[i].user = cs[j].user /\ cs[i].product = cs[j].product => i = j

BasketEntries == {"op", "user", "product", "id", "asked", "quantity", "alone"}

\* A request is about its user's row for its product.  If no other request of his
\* overlaps it, what it has read of the row still holds.
Theirs(r, cs, last) ==
    /\ DOMAIN r = BasketEntries
    /\ r.op \in {"add", "update", "same", "remove", "favorite", "unfavorite"}
    /\ r.user \in Buyers /\ r.product \in Wares
    /\ r.id \in 0..last /\ (r.op \in {"update", "same", "remove"} => r.id # 0)
    /\ r.id \in DOMAIN cs => cs[r.id].user = r.user /\ cs[r.id].product = r.product
    /\ r.op \in {"add", "update"} => r.quantity \in 1..MaxStock
    /\ r.alone =>
          /\ r.op = "add" /\ r.id = 0 =>
                 LinesOf(cs, r.user, r.product) = {} /\ r.quantity = r.asked
          /\ r.op = "add" /\ r.id # 0 =>
                 r.id \in DOMAIN cs /\ r.quantity = cs[r.id].quantity + r.asked
          /\ r.op = "update" => r.id \in DOMAIN cs /\ r.quantity = r.asked
          /\ r.op = "same" => r.id \in DOMAIN cs /\ cs[r.id].quantity = r.asked

\* The inductive invariant.
BasketInv ==
    /\ lastLine \in Nat
    /\ Carted(cart, lastLine)
    /\ DOMAIN product = Wares /\ \A p \in Wares : product[p].stock \in 0..MaxStock
    /\ DOMAIN basketRequest = Handlers
    /\ \A h \in Handlers : basketRequest[h] # Idle => Theirs(basketRequest[h], cart, lastLine)
    /\ Apart(Handlers, Idle, basketRequest)

\* A step that writes rows of user u only.
Fills(cs, last, after, u) ==
    /\ \A i \in DOMAIN cs : cs[i].user # u => i \in DOMAIN after /\ after[i] = cs[i]
    /\ \A i \in DOMAIN after \cap DOMAIN cs :
          after[i].user = cs[i].user /\ after[i].product = cs[i].product
    /\ \A i \in DOMAIN after \ DOMAIN cs : i \notin 0..last /\ after[i].user = u

\* It is no matter for a request of another user, nor for one that overlaps it.
LEMMA TheirsMeanwhile ==
  ASSUME NEW r, NEW cs, NEW last \in Nat, Theirs(r, cs, last), NEW after, NEW u, Fills(cs, last, after, u),
         r.user = u => ~r.alone, NEW next \in Nat, last <= next
  PROVE  Theirs(r, after, next)
<1>1. \A i \in 0..last : i \in 0..next
  OBVIOUS
<1>2. \A i \in 0..last : i \in DOMAIN after =>
          i \in DOMAIN cs /\ after[i].user = cs[i].user /\ after[i].product = cs[i].product
  BY DEF Fills
<1>3. r.user # u => LinesOf(after, r.user, r.product) = LinesOf(cs, r.user, r.product)
  BY DEF Fills, LinesOf
<1>4. r.id \in DOMAIN cs /\ r.user # u => r.id \in DOMAIN after /\ after[r.id] = cs[r.id]
  BY DEF Fills, Theirs
<1>. QED
  BY <1>1, <1>2, <1>3, <1>4 DEF Theirs

LEMMA TheirsMarked ==
  ASSUME NEW r, NEW cs, NEW last, Theirs(r, cs, last), NEW b, b => r.alone
  PROVE  Theirs([r EXCEPT !.alone = b], cs, last)
<1>. DEFINE t == [r EXCEPT !.alone = b]
<1>1. /\ DOMAIN t = BasketEntries /\ t.op = r.op /\ t.user = r.user /\ t.id = r.id
      /\ t.product = r.product /\ t.asked = r.asked /\ t.quantity = r.quantity
      /\ (t.alone => r.alone)
  BY DEF Theirs, BasketEntries
<1>. HIDE DEF t
<1>2. Theirs(t, cs, last)
  BY <1>1 DEF Theirs
<1>. QED
  BY <1>2 DEF t

\* A request starts.
LEMMA BasketStart ==
  ASSUME BasketInv, NEW h \in Handlers, NEW r, Theirs(r, cart, lastLine), r.alone, B!Start(h, r)
  PROVE  BasketInv' /\ \A g \in Handlers : basketRequest'[g] = Idle => basketRequest[g] = Idle
<1>. DEFINE q == basketRequest
            after == basketRequest'
<1>1. /\ h \notin Busy(q) /\ after = Begun(q, h, r) /\ UNCHANGED <<cart, lastLine, product>>
  BY BasketBooks DEF B!Start, B!Active
<1>2. Apart(Handlers, Idle, q) /\ \A g \in Handlers : q[g] # Idle => Theirs(q[g], cart, lastLine)
  BY DEF BasketInv
<1>3. Marked(Handlers, Idle, q) /\ {"user", "alone"} \subseteq DOMAIN r /\ q[h] = Idle
  BY <1>1, <1>2 DEF Marked, Theirs, BasketEntries, Busy
<1>. HIDE DEF q, after
<1>0. Begins(Handlers, Idle, q, h, r, after)
  BY <1>1, ItBegins
<1>4. /\ Apart(Handlers, Idle, after) /\ Started(Handlers, Idle, q, h, r, after)
      /\ \A g \in Handlers : after[g] = Idle <=> g # h /\ q[g] = Idle
  BY <1>0, <1>1, <1>2, <1>3, BegunApart, BegunIs, BegunGoesOn
<1>5. ASSUME NEW g \in Handlers, after[g] # Idle PROVE Theirs(after[g], cart, lastLine)
  <2>1. CASE g = h
    <3>1. PICK b : after[h] = [r EXCEPT !.alone = b]
      BY <1>4 DEF Started
    <3>. DEFINE t == [r EXCEPT !.alone = b]
    <3>2. Theirs(t, cart, lastLine)
      BY TheirsMarked
    <3>. HIDE DEF t
    <3>3. after[g] = t
      BY <2>1, <3>1 DEF t
    <3>. QED
      BY <3>2, <3>3
  <2>2. CASE g # h /\ after[g] = q[g]
    BY <1>2, <1>5, <2>2
  <2>3. CASE g # h /\ q[g] # Idle /\ after[g] = [q[g] EXCEPT !.alone = FALSE]
    <3>. DEFINE t == [q[g] EXCEPT !.alone = FALSE]
    <3>1. Theirs(q[g], cart, lastLine)
      BY <1>2, <2>3
    <3>2. Theirs(t, cart, lastLine)
      BY <3>1, TheirsMarked
    <3>. HIDE DEF t
    <3>3. after[g] = t
      BY <2>3 DEF t
    <3>. QED
      BY <3>2, <3>3
  <2>. QED
    BY <1>4, <2>1, <2>2, <2>3 DEF Started
<1>6. DOMAIN after = Handlers
  BY <1>4 DEF Started
<1>. QED
  BY <1>1, <1>4, <1>5, <1>6 DEF BasketInv, after, q

\* One ends, and has written rows of its user only.
LEMMA BasketEnd ==
  ASSUME BasketInv, NEW h \in Handlers, basketRequest' = [basketRequest EXCEPT ![h] = Idle],
         basketRequest[h] # Idle, lastLine' \in Nat, lastLine <= lastLine', UNCHANGED product,
         Carted(cart', lastLine'), Fills(cart, lastLine, cart', basketRequest[h].user)
  PROVE  BasketInv' /\ \A g \in Handlers \ {h} : basketRequest'[g] = basketRequest[g]
<1>. DEFINE q == basketRequest
            after == basketRequest'
            u == q[h].user
<1>1. /\ DOMAIN after = Handlers /\ after[h] = Idle /\ \A g \in Handlers \ {h} : after[g] = q[g]
      /\ lastLine \in Nat
  BY DEF BasketInv
<1>2. Continued(Handlers, Idle, q, after)
  BY <1>1 DEF Continued
<1>3. Apart(Handlers, Idle, after)
  BY <1>2, ContinuedApart DEF BasketInv
<1>4. ASSUME NEW g \in Handlers, after[g] # Idle PROVE Theirs(after[g], cart', lastLine')
  <2>1. g # h /\ after[g] = q[g] /\ Theirs(q[g], cart, lastLine)
    BY <1>1, <1>4 DEF BasketInv
  <2>2. q[g].user = u => ~q[g].alone
    BY <1>1, <1>4, <2>1 DEF BasketInv, Apart
  <2>. QED
    BY <1>1, <2>1, <2>2, TheirsMeanwhile
<1>. QED
  BY <1>1, <1>3, <1>4 DEF BasketInv

\* No request ends but by its commit.
TrayGoesOn == \A g \in Handlers : basketRequest'[g] = Idle => basketRequest[g] = Idle

\* The row that was found, and what it holds.
LEMMA RowFound ==
  ASSUME BasketInv, NEW u \in Buyers, NEW p \in Wares
  PROVE  /\ B!Lines(u, p) = LinesOf(cart, u, p)
         /\ B!Lines(u, p) = {} => B!Held(u, p) = 0
         /\ \A i \in B!Lines(u, p) : /\ (CHOOSE k \in B!Lines(u, p) : TRUE) = i
                                     /\ i \in DOMAIN cart /\ B!Held(u, p) = cart[i].quantity
<1>1. B!Lines(u, p) = LinesOf(cart, u, p)
  BY DEF B!Lines, LinesOf
<1>2. ASSUME NEW i \in B!Lines(u, p)
      PROVE  (CHOOSE k \in B!Lines(u, p) : TRUE) = i
  <2>1. (CHOOSE k \in B!Lines(u, p) : TRUE) \in B!Lines(u, p)
    OBVIOUS
  <2>. QED
    BY <1>1, <2>1 DEF BasketInv, Carted, LinesOf
<1>3. \A i \in B!Lines(u, p) : i \in DOMAIN cart /\ B!Held(u, p) = cart[i].quantity
  BY <1>1, <1>2 DEF B!Held, LinesOf
<1>4. B!Lines(u, p) = {} => B!Held(u, p) = 0
  BY DEF B!Held
<1>. QED
  BY <1>1, <1>2, <1>3, <1>4

LEMMA ReceivedFields ==
  ASSUME NEW op, NEW u, NEW p, NEW id, NEW asked, NEW quantity
  PROVE  LET r == B!Received(op, u, p, id, asked, quantity) IN
         /\ DOMAIN r = BasketEntries /\ r.op = op /\ r.user = u /\ r.product = p /\ r.id = id
         /\ r.asked = asked /\ r.quantity = quantity /\ r.alone
BY DEF B!Received, BasketEntries

LEMMA AddsItem ==
  ASSUME BasketInv, NEW h \in Handlers, NEW u \in Buyers, NEW p \in Wares, NEW n \in Quantities,
         B!AddItem(h, u, p, n)
  PROVE  BasketInv' /\ TrayGoesOn
<1>. DEFINE sum == B!Held(u, p) + n
            id == IF B!Lines(u, p) = {} THEN 0 ELSE CHOOSE i \in B!Lines(u, p) : TRUE
            r == B!Received("add", u, p, id, n, sum)
<1>1. B!Start(h, r) /\ sum <= product[p].stock
  BY DEF B!AddItem
<1>2. /\ product[p].stock \in 0..MaxStock /\ n \in Nat \ {0} /\ MaxStock \in Nat
      /\ Carted(cart, lastLine) /\ lastLine \in Nat
  BY LimitsAssumption DEF BasketInv
<1>3. /\ DOMAIN r = BasketEntries /\ r.op = "add" /\ r.user = u /\ r.product = p /\ r.id = id
      /\ r.asked = n /\ r.quantity = sum /\ r.alone
  BY ReceivedFields
<1>. HIDE DEF r
<1>4. CASE B!Lines(u, p) = {}
  <2>1. id = 0 /\ sum = n /\ LinesOf(cart, u, p) = {} /\ 0 \notin DOMAIN cart
    BY <1>2, <1>4, RowFound DEF Carted
  <2>. HIDE DEF id, sum
  <2>2. sum \in 1..MaxStock /\ id \in 0..lastLine
    BY <1>1, <1>2, <2>1
  <2>3. Theirs(r, cart, lastLine)
    BY <1>3, <2>1, <2>2 DEF Theirs
  <2>. QED
    BY <1>1, <1>3, <2>3, BasketStart DEF TrayGoesOn
<1>5. CASE B!Lines(u, p) # {}
  <2>1. PICK i \in B!Lines(u, p) : TRUE
    BY <1>5
  <2>2. /\ id = i /\ i \in DOMAIN cart /\ sum = cart[i].quantity + n
        /\ cart[i].user = u /\ cart[i].product = p
    BY <1>5, <2>1, RowFound DEF LinesOf
  <2>3. i \in 1..lastLine /\ cart[i].quantity \in 1..MaxStock
    BY <1>2, <2>2 DEF Carted
  <2>4. sum \in 1..MaxStock
    BY <1>1, <1>2, <2>2, <2>3
  <2>5. i \in 0..lastLine /\ i # 0
    BY <1>2, <2>3
  <2>. HIDE DEF id, sum
  <2>6. Theirs(r, cart, lastLine)
    BY <1>3, <2>2, <2>4, <2>5 DEF Theirs
  <2>. QED
    BY <1>1, <1>3, <2>6, BasketStart DEF TrayGoesOn
<1>. QED
  BY <1>4, <1>5

LEMMA UpdatesItem ==
  ASSUME BasketInv, NEW h \in Handlers, NEW u \in Buyers, NEW i \in DOMAIN cart,
         \/ B!RemoveItem(h, u, i)
         \/ \E n \in Quantities : B!UpdateItem(h, u, i, n)
  PROVE  BasketInv' /\ TrayGoesOn
<1>1. /\ i \in 1..lastLine /\ cart[i].product \in Wares /\ lastLine \in Nat /\ MaxStock \in Nat
      /\ cart[i].user = u /\ product[cart[i].product].stock \in 0..MaxStock
  BY LimitsAssumption DEF BasketInv, Carted, B!RemoveItem, B!UpdateItem
<1>2. i \in 0..lastLine /\ i # 0
  BY <1>1
<1>3. ASSUME NEW op \in {"update", "same", "remove"}, NEW n, NEW q,
             op = "update" => q \in 1..MaxStock /\ q = n, op = "same" => cart[i].quantity = n,
             B!Start(h, B!Received(op, u, cart[i].product, i, n, q))
      PROVE  BasketInv' /\ TrayGoesOn
  <2>. DEFINE r == B!Received(op, u, cart[i].product, i, n, q)
  <2>1. /\ DOMAIN r = BasketEntries /\ r.op = op /\ r.user = u /\ r.product = cart[i].product
        /\ r.id = i /\ r.asked = n /\ r.quantity = q /\ r.alone
    BY ReceivedFields
  <2>. HIDE DEF r
  <2>2. Theirs(r, cart, lastLine)
    BY <1>1, <1>2, <1>3, <2>1 DEF Theirs
  <2>3. B!Start(h, r)
    BY <1>3 DEF r
  <2>. QED
    BY <2>1, <2>2, <2>3, BasketStart DEF TrayGoesOn
<1>4. CASE B!RemoveItem(h, u, i)
  <2>1. B!Start(h, B!Received("remove", u, cart[i].product, i, 0, 0))
    BY <1>4 DEF B!RemoveItem
  <2>. QED
    BY <1>3, <2>1
<1>5. ASSUME NEW n \in Quantities, B!UpdateItem(h, u, i, n) PROVE BasketInv' /\ TrayGoesOn
  <2>. DEFINE op == IF n = cart[i].quantity THEN "same" ELSE "update"
  <2>1. B!Start(h, B!Received(op, u, cart[i].product, i, n, n)) /\ n <= product[cart[i].product].stock
    BY <1>5 DEF B!UpdateItem
  <2>2. n \in 1..MaxStock
    BY <1>1, <2>1, LimitsAssumption
  <2>3. op \in {"update", "same"} /\ (op = "same" => cart[i].quantity = n)
    OBVIOUS
  <2>. HIDE DEF op
  <2>. QED
    BY <1>3, <2>1, <2>2, <2>3
<1>. QED
  BY <1>4, <1>5

LEMMA FavoriteStarts ==
  ASSUME BasketInv, NEW h \in Handlers, NEW u \in Buyers, NEW p \in Wares,
         B!AddFavorite(h, u, p) \/ B!RemoveFavorite(h, u, p)
  PROVE  BasketInv' /\ TrayGoesOn
<1>1. PICK op \in {"favorite", "unfavorite"} : B!Start(h, B!Received(op, u, p, 0, 0, 0))
  BY DEF B!AddFavorite, B!RemoveFavorite
<1>. DEFINE r == B!Received(op, u, p, 0, 0, 0)
<1>2. /\ DOMAIN r = BasketEntries /\ r.op = op /\ r.user = u /\ r.product = p /\ r.id = 0 /\ r.alone
  BY ReceivedFields
<1>3. 0 \in 0..lastLine /\ 0 \notin DOMAIN cart
  BY DEF BasketInv, Carted
<1>4. B!Start(h, r)
  BY <1>1
<1>. HIDE DEF r
<1>5. Theirs(r, cart, lastLine)
  BY <1>1, <1>2, <1>3 DEF Theirs
<1>. QED
  BY <1>2, <1>4, <1>5, BasketStart DEF TrayGoesOn

\* What a commit leaves: rows of its user only, and if nothing overlapped the
\* request, what it asked for.
Filled(r, after, last) ==
    /\ last \in Nat /\ lastLine <= last /\ Carted(after, last)
    /\ Fills(cart, lastLine, after, r.user)
    /\ r.alone =>
          /\ r.op = "add" => \E i \in DOMAIN after :
                 /\ after[i].user = r.user /\ after[i].product = r.product
                 /\ after[i].quantity = B!Held(r.user, r.product) + r.asked
          /\ r.op \in {"update", "same"} => r.id \in DOMAIN after /\ after[r.id].quantity = r.asked
          /\ r.op = "remove" => r.id \notin DOMAIN after

LEMMA Inserts ==
  ASSUME BasketInv, NEW r, Theirs(r, cart, lastLine), r.op = "add", r.id = 0, B!Insert(r)
  PROVE  Filled(r, cart', lastLine')
<1>. DEFINE n == lastLine + 1
<1>1. /\ lastLine' = n
      /\ cart' = IF B!Lines(r.user, r.product) # {} THEN cart
                 ELSE [i \in DOMAIN cart \cup {n} |->
                     IF i = n THEN [user |-> r.user, product |-> r.product, quantity |-> r.quantity]
                     ELSE cart[i]]
  BY DEF B!Insert
<1>2. Carted(cart, lastLine) /\ lastLine \in Nat
  BY DEF BasketInv
<1>3. /\ B!Lines(r.user, r.product) = LinesOf(cart, r.user, r.product)
      /\ B!Lines(r.user, r.product) = {} => B!Held(r.user, r.product) = 0
  BY RowFound DEF Theirs
<1>4. n \in Nat /\ lastLine <= n /\ n \notin 0..lastLine /\ n \in 1..n /\ 1..lastLine \subseteq 1..n
      /\ 1..lastLine \subseteq 0..lastLine
  BY <1>2
<1>. HIDE DEF n
<1>5. CASE B!Lines(r.user, r.product) # {}
  <2>1. cart' = cart /\ ~r.alone
    BY <1>1, <1>3, <1>5 DEF Theirs
  <2>2. Carted(cart, n) /\ Fills(cart, lastLine, cart, r.user)
    BY <1>2, <1>4 DEF Carted, Fills
  <2>. QED
    BY <1>1, <1>4, <2>1, <2>2 DEF Filled
<1>6. CASE B!Lines(r.user, r.product) = {}
  <2>1. n \notin DOMAIN cart
    BY <1>2, <1>4 DEF Carted
  <2>2. /\ DOMAIN cart' = DOMAIN cart \cup {n}
        /\ \A i \in DOMAIN cart : cart'[i] = cart[i]
        /\ cart'[n] = [user |-> r.user, product |-> r.product, quantity |-> r.quantity]
    BY <1>1, <1>6, <2>1
  <2>3. /\ DOMAIN cart'[n] = {"user", "product", "quantity"} /\ cart'[n].user = r.user
        /\ cart'[n].product = r.product /\ cart'[n].quantity = r.quantity
    BY <2>2
  <2>4. \A i \in DOMAIN cart : ~(cart[i].user = r.user /\ cart[i].product = r.product)
    BY <1>3, <1>6 DEF LinesOf
  <2>5. r.user \in Buyers /\ r.product \in Wares /\ r.quantity \in 1..MaxStock
    BY DEF Theirs
  <2>6. /\ \A i \in DOMAIN cart' :
              /\ i \in 1..n /\ DOMAIN cart'[i] = {"user", "product", "quantity"}
              /\ cart'[i].user \in Buyers /\ cart'[i].product \in Wares
              /\ cart'[i].quantity \in 1..MaxStock
    BY <1>2, <1>4, <2>2, <2>3, <2>5 DEF Carted
  <2>7. \A i, j \in DOMAIN cart' :
            cart'[i].user = cart'[j].user /\ cart'[i].product = cart'[j].product => i = j
    BY <1>2, <2>2, <2>3, <2>4 DEF Carted
  <2>8. Carted(cart', n)
    BY <2>6, <2>7 DEF Carted
  <2>9. Fills(cart, lastLine, cart', r.user)
    BY <1>4, <2>1, <2>2, <2>3 DEF Fills
  <2>10. r.alone => r.quantity = B!Held(r.user, r.product) + r.asked
    <3>1. r.alone => r.quantity = r.asked
      BY DEF Theirs
    <3>2. r.alone => r.asked \in Int
      BY <2>5, <3>1
    <3>. QED
      BY <1>3, <1>6, <3>1, <3>2
  <2>. QED
    BY <1>1, <1>4, <2>2, <2>3, <2>8, <2>9, <2>10 DEF Filled
<1>. QED
  BY <1>5, <1>6

LEMMA Overwrites ==
  ASSUME BasketInv, NEW r, Theirs(r, cart, lastLine), r.op \in {"add", "update", "same"},
         r.id # 0, UNCHANGED lastLine,
         cart' = IF r.op = "same" \/ r.id \notin DOMAIN cart THEN cart
                 ELSE [cart EXCEPT ![r.id].quantity = r.quantity]
  PROVE  Filled(r, cart', lastLine')
<1>1. Carted(cart, lastLine) /\ lastLine \in Nat /\ lastLine' = lastLine /\ lastLine <= lastLine
  BY DEF BasketInv
<1>2. r.id \in DOMAIN cart =>
          B!Held(r.user, r.product) = cart[r.id].quantity
          /\ cart[r.id].user = r.user /\ cart[r.id].product = r.product
  <2>1. ASSUME r.id \in DOMAIN cart PROVE r.id \in B!Lines(r.user, r.product)
    BY <2>1 DEF Theirs, B!Lines
  <2>. QED
    BY <2>1, RowFound DEF Theirs
<1>3. CASE r.op = "same" \/ r.id \notin DOMAIN cart
  <2>1. cart' = cart
    BY <1>3
  <2>2. Fills(cart, lastLine, cart, r.user)
    BY DEF Fills
  <2>3. r.alone => r.op = "same" /\ r.id \in DOMAIN cart /\ cart[r.id].quantity = r.asked
    BY <1>3 DEF Theirs
  <2>. QED
    BY <1>1, <2>1, <2>2, <2>3 DEF Filled
<1>4. CASE r.op \in {"add", "update"} /\ r.id \in DOMAIN cart
  <2>. DEFINE w == cart'
              t == [cart[r.id] EXCEPT !.quantity = r.quantity]
  <2>1. w = [cart EXCEPT ![r.id] = t]
    BY <1>4
  <2>2. /\ DOMAIN t = {"user", "product", "quantity"} /\ t.user = r.user
        /\ t.product = r.product /\ t.quantity = r.quantity
    BY <1>1, <1>2, <1>4 DEF Carted
  <2>. HIDE DEF w, t
  <2>3. /\ DOMAIN w = DOMAIN cart /\ w[r.id] = t
        /\ \A i \in DOMAIN cart \ {r.id} : w[i] = cart[i]
    BY <1>4, <2>1
  <2>4. r.user \in Buyers /\ r.product \in Wares /\ r.quantity \in 1..MaxStock
    BY <1>4 DEF Theirs
  <2>5. \A i \in DOMAIN cart : w[i].user = cart[i].user /\ w[i].product = cart[i].product
    BY <1>2, <1>4, <2>2, <2>3
  <2>6. Carted(w, lastLine)
    BY <1>1, <2>2, <2>3, <2>4, <2>5 DEF Carted
  <2>7. Fills(cart, lastLine, w, r.user)
    BY <1>2, <1>4, <2>3, <2>5 DEF Fills
  <2>8. r.alone => /\ r.op = "add" => r.quantity = B!Held(r.user, r.product) + r.asked
                   /\ r.op = "update" => r.quantity = r.asked
    BY <1>2, <1>4 DEF Theirs
  <2>. QED
    BY <1>1, <1>4, <2>2, <2>3, <2>6, <2>7, <2>8 DEF Filled, w
<1>. QED
  BY <1>3, <1>4

LEMMA BasketCommits ==
  ASSUME BasketInv, NEW h \in Handlers,
         B!CommitItem(h) \/ B!CommitRemoval(h) \/ B!CommitFavorite(h)
  PROVE  /\ BasketInv' /\ Filled(basketRequest[h], cart', lastLine')
         /\ \A g \in Handlers \ {h} : basketRequest'[g] = basketRequest[g]
         /\ basketRequest[h].op = "favorite" =>
                <<basketRequest[h].user, basketRequest[h].product>> \in favorites'
         /\ basketRequest[h].op = "unfavorite" =>
                <<basketRequest[h].user, basketRequest[h].product>> \notin favorites'
<1>. DEFINE r == basketRequest[h]
<1>1. /\ basketRequest' = [basketRequest EXCEPT ![h] = Idle] /\ r # Idle /\ UNCHANGED product
  BY BasketBooks DEF B!CommitItem, B!CommitRemoval, B!CommitFavorite, B!Done, B!Ended, B!Active, Busy
<1>2. Theirs(r, cart, lastLine) /\ Carted(cart, lastLine) /\ lastLine \in Nat /\ lastLine <= lastLine
  BY <1>1 DEF BasketInv
<1>3. /\ r.op = "favorite" => <<r.user, r.product>> \in favorites'
      /\ r.op = "unfavorite" => <<r.user, r.product>> \notin favorites'
  BY DEF B!CommitItem, B!CommitRemoval, B!CommitFavorite
<1>4. ASSUME B!CommitItem(h) PROVE Filled(r, cart', lastLine')
  <2>1. /\ r.op \in {"add", "update", "same"}
        /\ \/ r.id = 0 /\ B!Insert(r)
           \/ /\ r.id # 0 /\ UNCHANGED lastLine
              /\ cart' = IF r.op = "same" \/ r.id \notin DOMAIN cart THEN cart
                         ELSE [cart EXCEPT ![r.id].quantity = r.quantity]
    BY <1>4 DEF B!CommitItem
  <2>2. r.id = 0 => r.op = "add"
    BY <1>2, <2>1 DEF Theirs
  <2>. HIDE DEF r
  <2>. QED
    BY <1>2, <2>1, <2>2, Inserts, Overwrites
<1>5. ASSUME B!CommitRemoval(h) PROVE Filled(r, cart', lastLine')
  <2>1. r.op = "remove" /\ cart' = [i \in DOMAIN cart \ {r.id} |-> cart[i]] /\ lastLine' = lastLine
    BY <1>5 DEF B!CommitRemoval
  <2>. HIDE DEF r
  <2>2. DOMAIN cart' = DOMAIN cart \ {r.id} /\ \A i \in DOMAIN cart' : cart'[i] = cart[i]
    BY <2>1
  <2>3. Carted(cart', lastLine)
    BY <1>2, <2>2 DEF Carted
  <2>4. r.id \in DOMAIN cart => cart[r.id].user = r.user
    BY <1>2 DEF Theirs
  <2>5. Fills(cart, lastLine, cart', r.user)
    BY <2>2, <2>4 DEF Fills
  <2>. QED
    BY <1>2, <2>1, <2>2, <2>3, <2>5 DEF Filled
<1>6. ASSUME B!CommitFavorite(h) PROVE Filled(r, cart', lastLine')
  <2>1. r.op \in {"favorite", "unfavorite"} /\ UNCHANGED <<cart, lastLine>>
    BY <1>6 DEF B!CommitFavorite
  <2>2. Fills(cart, lastLine, cart, r.user)
    BY DEF Fills
  <2>. QED
    BY <1>2, <2>1, <2>2 DEF Filled
<1>7. Filled(r, cart', lastLine')
  BY <1>4, <1>5, <1>6
<1>. QED
  BY <1>1, <1>3, <1>7, BasketEnd DEF Filled

LEMMA RemovesInBulk ==
  ASSUME BasketInv, NEW u \in Buyers, NEW ids \in SUBSET DOMAIN cart, B!BulkRemove(u, ids)
  PROVE  BasketInv' /\ TrayGoesOn
<1>. DEFINE q == basketRequest
            after == basketRequest'
            gone == {i \in ids \cap DOMAIN cart : cart[i].user = u}
            met(g) == [q[g] EXCEPT !.alone = FALSE]
<1>1. /\ cart' = [i \in DOMAIN cart \ gone |-> cart[i]] /\ UNCHANGED <<lastLine, product>>
      /\ after = [g \in Handlers |-> IF g \in Busy(q) /\ q[g].user = u THEN met(g) ELSE q[g]]
  BY BasketBooks DEF B!BulkRemove, B!Overlapped
<1>2. /\ Carted(cart, lastLine) /\ lastLine \in Nat /\ lastLine <= lastLine
      /\ \A g \in Handlers : q[g] # Idle => Theirs(q[g], cart, lastLine)
  BY DEF BasketInv
<1>3. \A i \in gone : cart[i].user = u
  OBVIOUS
<1>. HIDE DEF gone
<1>4. DOMAIN cart' = DOMAIN cart \ gone /\ \A i \in DOMAIN cart' : cart'[i] = cart[i]
  BY <1>1
<1>5. Carted(cart', lastLine) /\ Fills(cart, lastLine, cart', u)
  BY <1>2, <1>3, <1>4 DEF Carted, Fills
<1>6. ASSUME NEW g \in Handlers, q[g] # Idle
      PROVE  /\ after[g] # Idle /\ after[g].user = q[g].user /\ (after[g].alone => q[g].alone)
             /\ Theirs(after[g], cart', lastLine)
  <2>1. CASE q[g].user = u
    <3>1. Theirs(q[g], cart, lastLine)
      BY <1>2, <1>6
    <3>2. Theirs(met(g), cart, lastLine)
      BY <3>1, TheirsMarked
    <3>3. /\ met(g).user = q[g].user /\ ~met(g).alone /\ DOMAIN met(g) = BasketEntries
      BY <3>1 DEF Theirs, BasketEntries
    <3>4. after[g] = met(g)
      BY <1>1, <1>6, <2>1 DEF Busy
    <3>. HIDE DEF met, after
    <3>5. Theirs(met(g), cart', lastLine)
      BY <1>2, <1>5, <3>2, <3>3, TheirsMeanwhile
    <3>6. met(g) # Idle
      BY <3>3 DEF Idle, BasketEntries
    <3>. QED
      BY <3>3, <3>4, <3>5, <3>6
  <2>2. CASE q[g].user # u
    <3>1. after[g] = q[g]
      BY <1>1, <2>2
    <3>2. Theirs(q[g], cart', lastLine)
      BY <1>2, <1>5, <1>6, <2>2, TheirsMeanwhile
    <3>. QED
      BY <1>6, <3>1, <3>2
  <2>. QED
    BY <2>1, <2>2
<1>7. ASSUME NEW g \in Handlers, q[g] = Idle PROVE after[g] = Idle
  BY <1>1, <1>7 DEF Busy
<1>8. DOMAIN after = Handlers
  BY <1>1
<1>. HIDE DEF q, after
<1>9. Apart(Handlers, Idle, after)
  <2>1. Continued(Handlers, Idle, q, after)
    BY <1>6, <1>7 DEF Continued
  <2>. QED
    BY <2>1, ContinuedApart DEF BasketInv, q
<1>. QED
  BY <1>1, <1>5, <1>6, <1>7, <1>8, <1>9 DEF BasketInv, TrayGoesOn, q, after

LEMMA StockHasMoved ==
  ASSUME BasketInv, B!StockMoves
  PROVE  BasketInv' /\ TrayGoesOn
<1>1. PICK p \in Wares, n \in 0..MaxStock, a \in BOOLEAN :
          product' = [product EXCEPT ![p] = [active |-> a, stock |-> n]]
  BY DEF B!StockMoves
<1>2. UNCHANGED <<cart, lastLine, favorites, basketRequest>>
  BY DEF B!StockMoves
<1>. DEFINE t == [active |-> a, stock |-> n]
<1>3. t.stock \in 0..MaxStock /\ product' = [product EXCEPT ![p] = t]
  BY <1>1
<1>. HIDE DEF t
<1>4. DOMAIN product' = Wares /\ \A k \in Wares : product'[k].stock \in 0..MaxStock
  BY <1>3 DEF BasketInv
<1>. QED
  BY <1>2, <1>4 DEF BasketInv, TrayGoesOn

LEMMA BasketsAtFirst == B!Init => BasketInv
<1>. SUFFICES ASSUME B!Init PROVE BasketInv
  OBVIOUS
<1>1. DOMAIN cart = {} /\ lastLine = 0 /\ basketRequest = [h \in Handlers |-> Idle]
  BY BasketBooks DEF B!Init
<1>2. Carted(cart, lastLine) /\ Apart(Handlers, Idle, basketRequest)
  BY <1>1 DEF Carted, Apart
<1>3. DOMAIN product = Wares /\ \A p \in Wares : product[p].stock \in 0..MaxStock
  BY DEF B!Init
<1>. QED
  BY <1>1, <1>2, <1>3 DEF BasketInv

\* The steps that end no request.
LEMMA TrayMoves ==
  ASSUME BasketInv,
         \/ \E h \in Handlers, u \in Buyers :
               \/ \E p \in Wares : \/ \E n \in Quantities : B!AddItem(h, u, p, n)
                                   \/ B!AddFavorite(h, u, p) \/ B!RemoveFavorite(h, u, p)
               \/ \E i \in DOMAIN cart : \/ B!RemoveItem(h, u, i)
                                         \/ \E n \in Quantities : B!UpdateItem(h, u, i, n)
         \/ \E u \in Buyers, ids \in SUBSET DOMAIN cart : B!BulkRemove(u, ids)
         \/ B!StockMoves
  PROVE  BasketInv' /\ TrayGoesOn
<1>1. ASSUME NEW h \in Handlers, NEW u \in Buyers, NEW p \in Wares,
             \/ \E n \in Quantities : B!AddItem(h, u, p, n)
             \/ B!AddFavorite(h, u, p) \/ B!RemoveFavorite(h, u, p)
      PROVE  BasketInv' /\ TrayGoesOn
  BY <1>1, AddsItem, FavoriteStarts
<1>2. ASSUME NEW h \in Handlers, NEW u \in Buyers, NEW i \in DOMAIN cart,
             \/ B!RemoveItem(h, u, i)
             \/ \E n \in Quantities : B!UpdateItem(h, u, i, n)
      PROVE  BasketInv' /\ TrayGoesOn
  BY <1>2, UpdatesItem
<1>3. ASSUME NEW u \in Buyers, NEW ids \in SUBSET DOMAIN cart, B!BulkRemove(u, ids)
      PROVE  BasketInv' /\ TrayGoesOn
  BY <1>3, RemovesInBulk
<1>. QED
  BY <1>1, <1>2, <1>3, StockHasMoved

LEMMA BasketsStay == BasketInv /\ [B!Next]_(B!vars) => BasketInv'
<1>1. ASSUME BasketInv, UNCHANGED B!vars PROVE BasketInv'
  BY <1>1 DEF B!vars, BasketInv
<1>2. ASSUME BasketInv,
             \E h \in Handlers : B!CommitItem(h) \/ B!CommitRemoval(h) \/ B!CommitFavorite(h)
      PROVE  BasketInv'
  BY <1>2, BasketCommits
<1>. QED
  BY <1>1, <1>2, TrayMoves DEF B!Next

\* A request of the cart or the favorites that no other of its user overlaps does
\* what it was asked (cart_service.py:79).
THEOREM CartsDoAsAsked == ShopSpec => LoneRequestTakesEffect
<1>. DEFINE Does(h) ==
              /\ basketRequest[h].op = "add" => \E i \in DOMAIN cart' :
                     /\ cart'[i].user = basketRequest[h].user
                     /\ cart'[i].product = basketRequest[h].product
                     /\ cart'[i].quantity = B!Held(basketRequest[h].user, basketRequest[h].product)
                                            + basketRequest[h].asked
              /\ basketRequest[h].op \in {"update", "same"} =>
                     basketRequest[h].id \in DOMAIN cart'
                     /\ cart'[basketRequest[h].id].quantity = basketRequest[h].asked
              /\ basketRequest[h].op = "remove" => basketRequest[h].id \notin DOMAIN cart'
              /\ basketRequest[h].op = "favorite" =>
                     <<basketRequest[h].user, basketRequest[h].product>> \in favorites'
              /\ basketRequest[h].op = "unfavorite" =>
                     <<basketRequest[h].user, basketRequest[h].product>> \notin favorites'
            Effect == \A h \in Handlers :
                        LET r == basketRequest[h] IN
                        B!Active(h) /\ basketRequest'[h] = B!Idle /\ r.alone =>
              /\ r.op = "add" => \E i \in DOMAIN cart' :
                     /\ cart'[i].user = r.user /\ cart'[i].product = r.product
                     /\ cart'[i].quantity = B!Held(r.user, r.product) + r.asked
              /\ r.op \in {"update", "same"} =>
                     r.id \in DOMAIN cart' /\ cart'[r.id].quantity = r.asked
              /\ r.op = "remove" => r.id \notin DOMAIN cart'
              /\ r.op = "favorite" => <<r.user, r.product>> \in favorites'
              /\ r.op = "unfavorite" => <<r.user, r.product>> \notin favorites'
<1>1. ASSUME BasketInv, NEW h \in Handlers, NEW k \in Handlers,
             B!CommitItem(h) \/ B!CommitRemoval(h) \/ B!CommitFavorite(h),
             B!Active(k), basketRequest'[k] = B!Idle, basketRequest[k].alone
      PROVE  Does(k)
  <2>1. k = h
    BY <1>1, BasketBooks, BasketCommits DEF B!Active, Busy
  <2>2. Filled(basketRequest[k], cart', lastLine')
    BY <1>1, <2>1, BasketCommits
  <2>3. /\ basketRequest[k].op = "favorite" =>
               <<basketRequest[k].user, basketRequest[k].product>> \in favorites'
        /\ basketRequest[k].op = "unfavorite" =>
               <<basketRequest[k].user, basketRequest[k].product>> \notin favorites'
    BY <1>1, <2>1, BasketCommits
  <2>. QED
    BY <1>1, <2>2, <2>3 DEF Filled
<1>2. BasketInv /\ TrayGoesOn => Effect
  BY BasketBooks DEF TrayGoesOn, B!Active, Busy
<1>3. ASSUME BasketInv, B!Next PROVE Effect
  <2>1. CASE \E h \in Handlers : B!CommitItem(h) \/ B!CommitRemoval(h) \/ B!CommitFavorite(h)
    <3>1. \A k \in Handlers : B!Active(k) /\ basketRequest'[k] = B!Idle /\ basketRequest[k].alone
                                  => Does(k)
      BY <1>1, <1>3, <2>1
    <3>. QED
      BY <3>1
  <2>. QED
    BY <1>2, <1>3, <2>1, TrayMoves DEF B!Next
<1>4. LoneRequestTakesEffect <=> [][Effect]_(B!vars)
  BY DEF LoneRequestTakesEffect, B!LoneRequestTakesEffect
<1>. HIDE DEF Effect
<1>. QED
  BY <1>3, <1>4, BasketsAtFirst, BasketsStay, EachByItself, PTL DEF B!Spec

(***************************************************************************)
(* The help desk: nothing is stored about which the customer was not       *)
(* mailed, and a request that no other overlaps leaves status and time in  *)
(* step.                                                                   *)
(***************************************************************************)
Entries == {"op", "user", "read", "row", "due", "alone"}

\* What request r will store, its mails (sent, or still due) tell.
Announced(r, sent) ==
    /\ DOMAIN r = Entries
    /\ r.user \in Contacts
    /\ Announcement(r.user) \subseteq sent \cup r.due
    /\ \/ r.row.answer = r.read.answer
       \/ Mail("answer", r.user, r.row.answer) \in sent \cup r.due

\* The inductive invariant.
HInv ==
    /\ DOMAIN contact = Contacts
    /\ \A c \in Contacts :
          /\ Stored(c) => Announcement(c) \subseteq mails
          /\ contact[c].answer # Nobody => Mail("answer", c, contact[c].answer) \in mails
    /\ DOMAIN request = Handlers
    /\ \A h \in Handlers : request[h] = Idle \/ Announced(request[h], mails)

\* A request that starts announces what it will store.
LEMMA StartStep ==
  ASSUME HInv, NEW h \in Handlers, NEW r, Announced(r, mails), Start(h, r)
  PROVE  HInv'
<1>1. ASSUME NEW s, Announced(s, mails), NEW b
      PROVE  Announced([s EXCEPT !.alone = b], mails)
  <2>. DEFINE t == [s EXCEPT !.alone = b]
  <2>1. /\ DOMAIN t = Entries /\ t.user = s.user /\ t.read = s.read
        /\ t.row = s.row /\ t.due = s.due
    BY <1>1 DEF Announced, Entries
  <2>. HIDE DEF t
  <2>2. Announced(t, mails)
    BY <1>1, <2>1 DEF Announced
  <2>. QED
    BY <2>2 DEF t
<1>2. /\ h \notin Busy(request) /\ request' = Begun(request, h, r)
      /\ UNCHANGED <<contact, mails>>
  BY DEF Start, Active
<1>3. Started(Handlers, Idle, request, h, r, request')
  <2>. DEFINE q == request
              after == request'
  <2>1. h \notin Busy(q) /\ after = Begun(q, h, r)
    BY <1>2
  <2>. HIDE DEF q, after
  <2>0. Begins(Handlers, Idle, q, h, r, after)
    BY <2>1, ItBegins
  <2>2. Started(Handlers, Idle, q, h, r, after)
    BY <2>0, <2>1, BegunIs
  <2>. QED
    BY <2>2 DEF q, after
<1>4. ASSUME NEW g \in Handlers PROVE request'[g] = Idle \/ Announced(request'[g], mails)
  BY <1>1, <1>3 DEF Started, HInv
<1>5. DOMAIN request' = Handlers
  BY <1>3 DEF Started
<1>. QED
  BY <1>2, <1>4, <1>5 DEF HInv, Stored

\* Submitting, answering, setting the status.
LEMMA ReceiveStep ==
  ASSUME HInv, NEW h \in Handlers, NEW c \in Contacts,
         Submit(h, c) \/ AnswerContact(h, c) \/ UpdateContactStatus(h, c)
  PROVE  HInv'
<1>1. ASSUME NEW op, NEW row, NEW due, Start(h, Received(op, c, row, due)),
             Announcement(c) \subseteq mails \cup due,
             row.answer = contact[c].answer \/ Mail("answer", c, row.answer) \in due
      PROVE  HInv'
  <2>. DEFINE r == Received(op, c, row, due)
  <2>1. /\ DOMAIN r = Entries /\ r.user = c /\ r.read = contact[c]
        /\ r.row = row /\ r.due = due
    BY DEF Received, Entries
  <2>. HIDE DEF r
  <2>2. Announced(r, mails)
    BY <1>1, <2>1 DEF Announced
  <2>3. Start(h, r)
    BY <1>1 DEF r
  <2>. QED
    BY <2>2, <2>3, StartStep
<1>2. CASE Submit(h, c)
  <2>1. contact[c].answer = New.answer
    BY <1>2 DEF Submit, Stored, Missing, New
  <2>. QED
    BY <1>1, <1>2, <2>1 DEF Submit
<1>3. ASSUME NEW a \in Answers, Stored(c),
             Start(h, Received("answer", c, Applied([contact[c] EXCEPT !.answer = a], "ANSWERED"),
                               {Mail("answer", c, a)}))
      PROVE  HInv'
  <2>. DEFINE row == Applied([contact[c] EXCEPT !.answer = a], "ANSWERED")
  <2>1. row.answer = a \/ row.answer = contact[c].answer
    BY DEF Applied
  <2>2. Announcement(c) \subseteq mails
    BY <1>3 DEF HInv
  <2>. HIDE DEF row
  <2>. QED
    BY <1>1, <1>3, <2>1, <2>2 DEF row
<1>4. ASSUME NEW s, Stored(c), Start(h, Received("status", c, Applied(contact[c], s), {}))
      PROVE  HInv'
  <2>1. Applied(contact[c], s).answer = contact[c].answer
    BY DEF Applied
  <2>2. Announcement(c) \subseteq mails
    BY <1>4 DEF HInv
  <2>. QED
    BY <1>1, <1>4, <2>1, <2>2
<1>. QED
  BY <1>2, <1>3, <1>4 DEF AnswerContact, UpdateContactStatus


\* A mail that was due is sent; an error gives the request up.
LEMMA SendStep ==
  ASSUME HInv, NEW h \in Handlers, Send(h)
  PROVE  HInv'
<1>1. PICK m \in request[h].due :
         /\ mails' = mails \cup {m}
         /\ request' = [request EXCEPT ![h].due = @ \ {m}]
         /\ contact' = contact
  BY DEF Send
<1>2. request[h] # Idle
  BY DEF Send, Active, Busy
<1>3. Announced(request[h], mails)
  BY <1>2 DEF HInv
<1>4. DOMAIN request' = Handlers /\ \A g \in Handlers \ {h} : request'[g] = request[g]
  BY <1>1 DEF HInv
<1>5. Announced(request'[h], mails')
  <2>. DEFINE s == request[h]
              t == request'[h]
  <2>1. t = [s EXCEPT !.due = @ \ {m}]
    BY <1>1 DEF HInv
  <2>2. /\ DOMAIN t = Entries /\ t.user = s.user /\ t.read = s.read
        /\ t.row = s.row /\ t.due = s.due \ {m}
    BY <1>3, <2>1 DEF Announced, Entries
  <2>. HIDE DEF t
  <2>3. s.due \cup mails \subseteq t.due \cup mails'
    BY <1>1, <2>2
  <2>4. Announced(t, mails')
    BY <1>3, <2>2, <2>3 DEF Announced
  <2>. QED
    BY <2>4 DEF t
<1>6. ASSUME NEW g \in Handlers \ {h}, request[g] # Idle
      PROVE  Announced(request[g], mails')
  BY <1>1, <1>6 DEF HInv, Announced
<1>. QED
  BY <1>1, <1>4, <1>5, <1>6 DEF HInv, Stored

LEMMA FailStep ==
  ASSUME HInv, NEW h \in Handlers, Fail(h)
  PROVE  HInv'
BY DEF HInv, Fail, Ended, Stored

\* What is committed is what the request has announced, or was stored before.
LEMMA CommitStep ==
  ASSUME HInv, NEW h \in Handlers, Commit(h)
  PROVE  HInv'
<1>. DEFINE r == request[h]
            c == r.user
<1>1. /\ r # Idle /\ r.due = {} /\ mails' = mails
      /\ contact' = [contact EXCEPT ![c] = Merged(c, r)]
      /\ request' = [request EXCEPT ![h] = Idle]
  BY DEF Commit, Active, Busy, Ended
<1>2. Announced(r, mails)
  BY <1>1 DEF HInv
<1>3. /\ c \in Contacts /\ Announcement(c) \subseteq mails
      /\ r.row.answer = r.read.answer \/ Mail("answer", c, r.row.answer) \in mails
  BY <1>1, <1>2 DEF Announced
<1>4. /\ DOMAIN contact' = Contacts /\ contact'[c] = Merged(c, r)
      /\ \A d \in Contacts \ {c} : contact'[d] = contact[d]
  BY <1>1, <1>3 DEF HInv
<1>5. \/ Merged(c, r).answer = r.row.answer /\ r.row.answer # r.read.answer
      \/ Merged(c, r).answer = contact[c].answer
  BY DEF Merged
<1>6. contact'[c].answer # Nobody => Mail("answer", c, contact'[c].answer) \in mails
  BY <1>3, <1>4, <1>5 DEF HInv
<1>7. ASSUME NEW d \in Contacts
      PROVE  /\ contact'[d] # Missing => Announcement(d) \subseteq mails
             /\ contact'[d].answer # Nobody => Mail("answer", d, contact'[d].answer) \in mails
  <2>1. CASE d = c
    BY <1>3, <1>6, <2>1
  <2>2. CASE d # c
    BY <1>4, <2>2 DEF HInv, Stored
  <2>. QED
    BY <2>1, <2>2
<1>8. DOMAIN request' = Handlers /\ \A g \in Handlers : request'[g] = Idle \/ request'[g] = request[g]
  BY <1>1 DEF HInv
<1>. QED
  BY <1>1, <1>4, <1>7, <1>8 DEF HInv, Stored

\* What request r will store has status and time in step, and is based on what is
\* stored as long as no other request about the inquiry is under way.
Based(r, stored) ==
    /\ r.row.answered_at \in BOOLEAN
    /\ r.row.answered_at <=> r.row.status = "ANSWERED"
    /\ r.alone => r.read = stored[r.user]

BasedInv ==
    /\ \A c \in Contacts : DOMAIN contact[c] = DOMAIN New /\ contact[c].answered_at \in BOOLEAN
    /\ \A h \in Handlers : request[h] = Idle \/ Based(request[h], contact)
    /\ Apart(Handlers, Idle, request)

\* The invariants of both theorems together say that requests have their fields.
LEMMA FieldsThere == HInv => Marked(Handlers, Idle, request) /\ DOMAIN request = Handlers
  BY DEF HInv, Announced, Marked, Entries

LEMMA StartIsBased ==
  ASSUME HInv, BasedInv, NEW h \in Handlers, NEW c \in Contacts, NEW op, NEW row, NEW due,
         row.answered_at \in BOOLEAN, row.answered_at <=> row.status = "ANSWERED",
         Start(h, Received(op, c, row, due))
  PROVE  BasedInv'
<1>. DEFINE r == Received(op, c, row, due)
            q == request
            after == request'
<1>1. DOMAIN r = Entries /\ r.user = c /\ r.row = row /\ r.read = contact[c]
  BY DEF Received, Entries
<1>2. h \notin Busy(q) /\ after = Begun(q, h, r) /\ contact' = contact
  BY DEF Start, Active
<1>3. Marked(Handlers, Idle, q) /\ Apart(Handlers, Idle, q)
  BY FieldsThere DEF BasedInv
<1>4. ASSUME NEW s, DOMAIN s = Entries, NEW b
      PROVE  LET t == [s EXCEPT !.alone = b] IN t.user = s.user /\ t.row = s.row /\ t.read = s.read
  BY <1>4 DEF Entries
<1>5. \A g \in Handlers : q[g] # Idle => DOMAIN q[g] = Entries /\ Based(q[g], contact)
  BY DEF HInv, Announced, BasedInv
<1>. HIDE DEF r, q, after
<1>0. Begins(Handlers, Idle, q, h, r, after)
  BY <1>2, ItBegins
<1>6. Apart(Handlers, Idle, after)
  BY <1>0, <1>1, <1>2, <1>3, BegunApart DEF Entries
<1>7. Started(Handlers, Idle, q, h, r, after)
  BY <1>0, <1>2, BegunIs
<1>8. Based(after[h], contact)
  BY <1>1, <1>4, <1>7 DEF Based, Started
<1>9. ASSUME NEW g \in Handlers \ {h} PROVE after[g] = Idle \/ Based(after[g], contact)
  <2>1. CASE after[g] = q[g]
    BY <1>5, <2>1
  <2>2. CASE q[g] # Idle /\ after[g] = [q[g] EXCEPT !.alone = FALSE]
    <3>1. ~after[g].alone
      BY <1>5, <2>2 DEF Entries
    <3>. QED
      BY <1>4, <1>5, <2>2, <3>1 DEF Based
  <2>. QED
    BY <1>7, <2>1, <2>2 DEF Started
<1>. QED
  BY <1>2, <1>6, <1>8, <1>9 DEF BasedInv, after

LEMMA ReceivedIsBased ==
  ASSUME HInv, BasedInv, NEW h \in Handlers, NEW c \in Contacts,
         Submit(h, c) \/ AnswerContact(h, c) \/ UpdateContactStatus(h, c)
  PROVE  BasedInv'
<1>1. CASE Submit(h, c)
  <2>1. New.answered_at \in BOOLEAN /\ (New.answered_at <=> New.status = "ANSWERED")
    BY DEF New
  <2>2. PICK due : Start(h, Received("submit", c, New, due))
    BY <1>1 DEF Submit
  <2>. QED
    BY <2>1, <2>2, StartIsBased
<1>2. ASSUME NEW was, DOMAIN was = DOMAIN New, NEW s
      PROVE  LET row == Applied(was, s) IN
             row.answered_at \in BOOLEAN /\ (row.answered_at <=> row.status = "ANSWERED")
  <2>. DEFINE b == (s = "ANSWERED")
  <2>1. Applied(was, s) = [was EXCEPT !.status = s, !.answered_at = b]
    BY DEF Applied
  <2>2. b \in BOOLEAN
    OBVIOUS
  <2>3. ASSUME NEW x PROVE LET row == [was EXCEPT !.status = s, !.answered_at = x] IN
                           row.answered_at = x /\ row.status = s
    BY <1>2 DEF New
  <2>4. Applied(was, s).answered_at = b /\ Applied(was, s).status = s
    <3>. HIDE DEF b
    <3>. QED
      BY <2>1, <2>3
  <2>. QED
    BY <2>4
<1>3. CASE AnswerContact(h, c)
  <2>1. PICK a, due : Start(h, Received("answer", c,
                        Applied([contact[c] EXCEPT !.answer = a], "ANSWERED"), due))
    BY <1>3 DEF AnswerContact
  <2>2. DOMAIN [contact[c] EXCEPT !.answer = a] = DOMAIN New
    BY DEF BasedInv
  <2>. QED
    BY <1>2, <2>1, <2>2, StartIsBased
<1>4. CASE UpdateContactStatus(h, c)
  <2>1. PICK s, due : Start(h, Received("status", c, Applied(contact[c], s), due))
    BY <1>4 DEF UpdateContactStatus
  <2>2. DOMAIN contact[c] = DOMAIN New
    BY DEF BasedInv
  <2>. QED
    BY <1>2, <2>1, <2>2, StartIsBased
<1>. QED
  BY <1>1, <1>3, <1>4

\* Sending a mail leaves all but the mails due.
Kept(s, t) ==
    t.user = s.user /\ t.row = s.row /\ t.read = s.read /\ (t.alone => s.alone)

\* A mail that is sent changes nothing of this, a failure takes a request away.
LEMMA SentIsBased ==
  ASSUME HInv, BasedInv, NEW h \in Handlers, Send(h) \/ Fail(h)
  PROVE  BasedInv'
<1>. DEFINE q == request
            after == request'
<1>1. contact' = contact
  BY DEF Send, Fail
<1>2. \/ after = [q EXCEPT ![h] = Idle]
      \/ q[h] # Idle /\ \E m : after = [q EXCEPT ![h].due = @ \ {m}]
  BY DEF Send, Fail, Active, Busy, Ended
<1>3. DOMAIN q = Handlers /\ \A g \in Handlers : q[g] # Idle => DOMAIN q[g] = Entries /\ Based(q[g], contact)
  BY DEF HInv, BasedInv, Announced
<1>4. Apart(Handlers, Idle, q)
  BY DEF BasedInv
<1>5. ASSUME NEW s, DOMAIN s = Entries, NEW x
      PROVE  Kept(s, [s EXCEPT !.due = x])
  BY <1>5 DEF Entries, Kept
<1>. HIDE DEF q, after
<1>6. \A g \in Handlers : after[g] # Idle => q[g] # Idle /\ Kept(q[g], after[g])
  <2>1. \A s : Kept(s, s)
    BY DEF Kept
  <2>2. CASE after = [q EXCEPT ![h] = Idle]
    BY <1>3, <2>1, <2>2
  <2>3. ASSUME q[h] # Idle, NEW m, after = [q EXCEPT ![h].due = @ \ {m}]
        PROVE  \A g \in Handlers : after[g] # Idle => q[g] # Idle /\ Kept(q[g], after[g])
    BY <1>3, <1>5, <2>1, <2>3
  <2>. QED
    BY <1>2, <2>2, <2>3
<1>7. Apart(Handlers, Idle, after)
  <2>1. Continued(Handlers, Idle, q, after)
    BY <1>6 DEF Continued, Kept
  <2>. QED
    BY <1>4, <2>1, ContinuedApart
<1>8. \A g \in Handlers : after[g] # Idle => Based(after[g], contact)
  BY <1>3, <1>6 DEF Based, Kept
<1>. QED
  BY <1>1, <1>7, <1>8 DEF BasedInv, after

\* The commit changes the row of its own inquiry: requests about it are not alone.
\* One that is alone stores what it read but for what it changed, so all of its row.
LEMMA CommitIsBased ==
  ASSUME HInv, BasedInv, NEW h \in Handlers, Commit(h)
  PROVE  /\ BasedInv'
         /\ request[h].alone =>
               LET c == request[h].user IN
               contact'[c].answered_at = (contact'[c].status = "ANSWERED")
<1>. DEFINE r == request[h]
            c == r.user
            new == Merged(c, r)
<1>1. /\ r # Idle /\ contact' = [contact EXCEPT ![c] = new]
      /\ request' = [request EXCEPT ![h] = Idle]
  BY DEF Commit, Active, Busy, Ended
<1>2. c \in Contacts /\ DOMAIN request = Handlers /\ DOMAIN contact = Contacts /\ Based(r, contact)
  BY <1>1 DEF HInv, BasedInv, Announced
<1>3. contact'[c] = new /\ \A d \in Contacts \ {c} : contact'[d] = contact[d]
  BY <1>1, <1>2
<1>4. /\ DOMAIN new = DOMAIN New
      /\ new.status = IF r.row.status # r.read.status THEN r.row.status ELSE contact[c].status
      /\ new.answered_at = IF r.row.answered_at \/ r.read.answered_at THEN r.row.answered_at
                            ELSE contact[c].answered_at
  BY DEF Merged, New
<1>5. contact[c].answered_at \in BOOLEAN
  BY <1>2 DEF BasedInv
<1>. HIDE DEF new
<1>6. new.answered_at \in BOOLEAN
  BY <1>2, <1>4, <1>5 DEF Based
<1>7. r.alone => new.answered_at = (new.status = "ANSWERED")
  <2>1. ASSUME r.alone PROVE new.status = r.row.status /\ new.answered_at = r.row.answered_at
    BY <1>2, <1>4, <1>5, <2>1 DEF Based
  <2>. QED
    BY <1>2, <2>1 DEF Based
<1>8. ASSUME NEW g \in Handlers, request'[g] # Idle PROVE Based(request'[g], contact')
  <2>1. g # h /\ request'[g] = request[g]
    BY <1>1, <1>2, <1>8
  <2>2. Based(request[g], contact) /\ request[g].user \in Contacts
    BY <1>8, <2>1 DEF BasedInv, HInv, Announced
  <2>3. CASE request[g].user = c
    <3>1. ~request[g].alone
      BY <1>1, <1>8, <2>1, <2>3 DEF BasedInv, Apart
    <3>. QED
      BY <2>1, <2>2, <3>1 DEF Based
  <2>4. CASE request[g].user # c
    BY <1>3, <2>1, <2>2, <2>4 DEF Based
  <2>. QED
    BY <2>3, <2>4
<1>9. Apart(Handlers, Idle, request')
  <2>. DEFINE q == request
              after == request'
  <2>1. Continued(Handlers, Idle, q, after) /\ Apart(Handlers, Idle, q)
    BY <1>1, <1>2 DEF Continued, BasedInv
  <2>. HIDE DEF q, after
  <2>. QED
    BY <2>1, ContinuedApart DEF after
<1>. QED
  BY <1>3, <1>4, <1>6, <1>7, <1>8, <1>9 DEF BasedInv

\* The invariant of the mails.
LEMMA StartsAnnounced == Init => HInv
BY DEF Init, HInv, Stored, Missing, Nobody

LEMMA StaysAnnounced == HInv /\ [Next]_vars => HInv'
<1>1. ASSUME HInv, Next PROVE HInv'
  BY <1>1, ReceiveStep, SendStep, FailStep, CommitStep DEF Next
<1>2. ASSUME HInv, UNCHANGED vars PROVE HInv'
  BY <1>2 DEF HInv, vars, Stored
<1>. QED
  BY <1>1, <1>2

\* An inquiry, or an answer, that the database holds was mailed before, however
\* requests interleave and whichever of them fail (help/service.py:119, 255).
THEOREM MailedFirst == ShopSpec => []StoredWasMailed
<1>1. HInv => StoredWasMailed
  BY DEF HInv, StoredWasMailed
<1>. QED
  BY <1>1, StartsAnnounced, StaysAnnounced, EachByItself, PTL DEF Spec

\* A request that no other overlaps leaves status and time of its inquiry in step,
\* whatever races have left there (help/service.py:233).
THEOREM LoneRequestsMend == ShopSpec => LoneRequestMends
<1>. DEFINE Mends == \A h \in Handlers :
                        LET c == request[h].user IN
                        Active(h) /\ request'[h] = Idle /\ request[h].alone
                            /\ contact' # contact =>
                        contact'[c].answered_at = (contact'[c].status = "ANSWERED")
<1>1. Init => HInv /\ BasedInv
  <2>1. Init => BasedInv
    <3>1. DOMAIN Missing = DOMAIN New /\ Missing.answered_at \in BOOLEAN
      BY DEF Missing, New
    <3>. QED
      BY <3>1 DEF Init, BasedInv, Apart
  <2>. QED
    BY <2>1, StartsAnnounced
<1>2. HInv /\ BasedInv /\ [Next]_vars => BasedInv' /\ [Mends]_vars
  <2>1. ASSUME HInv, BasedInv, NEW h \in Handlers, Commit(h) PROVE Mends
    <3>1. ASSUME NEW g \in Handlers, Active(g), request'[g] = Idle PROVE g = h
      BY <2>1, <3>1 DEF Commit, Ended, HInv, Active, Busy
    <3>. QED
      BY <2>1, <3>1, CommitIsBased
  <2>2. ASSUME Next, ~\E h \in Handlers : Commit(h) PROVE contact' = contact
    BY <2>2 DEF Next, Submit, AnswerContact, UpdateContactStatus, Start, Send, Fail
  <2>3. ASSUME HInv, BasedInv, Next PROVE BasedInv' /\ Mends
    BY <2>1, <2>2, <2>3, ReceivedIsBased, SentIsBased, CommitIsBased DEF Next
  <2>4. ASSUME BasedInv, UNCHANGED vars PROVE BasedInv'
    BY <2>4 DEF BasedInv, Based, Apart, vars
  <2>. QED
    BY <2>3, <2>4
<1>3. LoneRequestMends <=> [][Mends]_vars
  BY DEF LoneRequestMends
<1>. HIDE DEF Mends
<1>. QED
  BY <1>1, <1>2, <1>3, StaysAnnounced, EachByItself, PTL DEF Spec

(***************************************************************************)
(* The rows are of the kind that the other queries expect.                 *)
(***************************************************************************)
\* What is in an order can be added up.
LEMMA ItemsAddUp ==
  ASSUME NEW r \in P!Requests, NEW price, \A i \in DOMAIN r.items : price[i] \in Nat
  PROVE  P!ItemsTotal(r.items, price) \in Int
<1>. DEFINE f == [i \in DOMAIN r.items |-> price[i] * r.items[i].quantity]
<1>1. PICK n \in 1..MaxLines : r.items \in [1..n -> P!Lines]
  BY DEF P!Requests
<1>2. DOMAIN r.items = 1..n /\ \A i \in 1..n : r.items[i].quantity \in Nat
  <2>1. DOMAIN r.items = 1..n /\ \A i \in 1..n : r.items[i] \in P!Lines
    BY <1>1
  <2>2. \A l \in P!Lines : l.quantity \in Nat
    BY LimitsAssumption DEF P!Lines
  <2>. QED
    BY <2>1, <2>2
<1>3. IsFiniteSet(1..n)
  BY <1>1, FS_Interval
<1>4. Numbers(f, DOMAIN f)
  <2>1. DOMAIN f = 1..n
    BY <1>2
  <2>2. \A i \in 1..n : f[i] \in Int
    BY <1>2
  <2>. HIDE DEF f
  <2>. QED
    BY <1>3, <2>1, <2>2 DEF Numbers
<1>5. P!ItemsTotal(r.items, price) = SumFunctionOnSet(f, DOMAIN f)
  BY DEF P!ItemsTotal, P!SumFunction, P!SumFunctionOnSet, P!FoldFunctionOnSet, P!MapThenFoldSet,
         SumFunctionOnSet, FoldFunctionOnSet, MapThenFoldSet
<1>. HIDE DEF f
<1>. QED
  BY <1>4, <1>5, SumOfChosen

\* The prices are numbers, and the buyer asks for products there are.
TillInv ==
    /\ DOMAIN priceList = Priced /\ \A p \in Priced : priceList[p].price \in Nat
    /\ ask \in P!Requests
    /\ P!TotalFollowsItems

LEMMA TotalsFollow == ShopSpec => []TillInv
<1>1. P!Init => TillInv
  <2>. SUFFICES ASSUME P!Init PROVE TillInv
    OBVIOUS
  <2>1. DOMAIN priceList = Priced /\ \A p \in Priced : priceList[p].price \in Nat
    BY ListsAssumption DEF P!Init
  <2>. QED
    BY <2>1 DEF P!Init, TillInv, P!TotalFollowsItems
<1>2. ASSUME TillInv, P!CreateOrder PROVE TillInv'
  <2>. DEFINE items == P!ItemsTotal(ask.items, P!Current(ask))
              new == P!Order(ask, items + P!Fee[ask.method] - P!Discount[ask.method])
  <2>1. sales' = sales \cup {new} /\ UNCHANGED <<priceList, ask, quote>>
    BY <1>2 DEF P!CreateOrder
  <2>2. \A i \in DOMAIN ask.items : P!Current(ask)[i] \in Nat
    <3>1. PICK n \in 1..MaxLines : ask.items \in [1..n -> P!Lines]
      BY <1>2 DEF TillInv, P!Requests
    <3>2. \A i \in DOMAIN ask.items : ask.items[i].product \in Priced
      BY <3>1 DEF P!Lines
    <3>. QED
      BY <1>2, <3>2 DEF TillInv, P!Current
  <2>3. items \in Int
    BY <1>2, <2>2, ItemsAddUp DEF TillInv
  <2>4. P!Fee[ask.method] \in Int /\ P!Discount[ask.method] \in Int
    BY <1>2 DEF TillInv, P!Requests, P!Methods, P!Fee, P!Discount
  <2>5. new.total_amount + new.discount_amount
          = P!ItemsTotal(new.items, new.price_snapshot) + new.shipping_fee
    <3>1. /\ new.total_amount = items + P!Fee[ask.method] - P!Discount[ask.method]
          /\ new.discount_amount = P!Discount[ask.method] /\ new.shipping_fee = P!Fee[ask.method]
          /\ new.items = ask.items /\ new.price_snapshot = P!Current(ask)
      BY DEF P!Order
    <3>2. P!ItemsTotal(new.items, new.price_snapshot) = items
      BY <3>1
    <3>. HIDE DEF items, new
    <3>. QED
      BY <2>3, <2>4, <3>1, <3>2
  <2>. HIDE DEF new
  <2>6. P!TotalFollowsItems'
    BY <1>2, <2>1, <2>5 DEF TillInv, P!TotalFollowsItems
  <2>. QED
    BY <1>2, <2>1, <2>6 DEF TillInv
<1>3. ASSUME TillInv, P!UpdateProduct PROVE TillInv'
  <2>1. PICK p \in Priced, price \in Prices, active \in BOOLEAN :
            priceList' = [priceList EXCEPT ![p] = [price |-> price, active |-> active]]
    BY <1>3 DEF P!UpdateProduct
  <2>. DEFINE t == [price |-> price, active |-> active]
  <2>2. t.price \in Nat /\ priceList' = [priceList EXCEPT ![p] = t]
    BY <2>1, ListsAssumption
  <2>. HIDE DEF t
  <2>3. DOMAIN priceList' = Priced /\ \A k \in Priced : priceList'[k].price \in Nat
    BY <1>3, <2>2 DEF TillInv
  <2>. QED
    BY <1>3, <2>3 DEF P!UpdateProduct, TillInv, P!TotalFollowsItems
<1>4. ASSUME TillInv, P!GetQuote \/ UNCHANGED P!vars PROVE TillInv'
  BY <1>4 DEF P!GetQuote, P!vars, TillInv, P!TotalFollowsItems
<1>5. TillInv /\ [P!Next]_(P!vars) => TillInv'
  BY <1>2, <1>3, <1>4 DEF P!Next
<1>. QED
  BY <1>1, <1>5, EachByItself, PTL DEF P!Spec

\* The pages cover a list.
LEMMA PagesAreEnough ==
  ASSUME Shelved
  PROVE  L!PagesCover
<1>. USE ListsAssumption
<1>. DEFINE total == Cardinality(L!Matches)
<1>1. IsFiniteSet(L!Matches) /\ total \in Nat /\ L!Cardinality(L!Matches) = total
  BY MatchesAreFinite
<1>. SUFFICES ASSUME NEW s \in L!Orderings, NEW i \in DOMAIN s
              PROVE  \E n \in 1..L!TotalPages(total) :
                        L!Offset(n) < i /\ i <= L!Offset(n) + Size
  BY <1>1 DEF L!PagesCover
<1>2. DOMAIN s = 1..total
  <2>1. s \in [1..L!Cardinality(L!Matches) -> L!Matches]
    BY DEF L!Orderings, L!SetToSeqs
  <2>. QED
    BY <1>1, <2>1
<1>. HIDE DEF total
<1>3. i \in Nat /\ 1 <= i /\ i <= total
  BY <1>1, <1>2
<1>. DEFINE d == (i - 1) \div Size
<1>4. d \in Nat /\ d * Size <= i - 1 /\ i - 1 < (d + 1) * Size
  BY <1>3
<1>. HIDE DEF d
<1>5. d * Size \in Nat /\ (d + 1) * Size = d * Size + Size /\ (d + 1) - 1 = d
  BY <1>4
<1>6. d * Size < total
  BY <1>1, <1>3, <1>4, <1>5
<1>7. d + 1 <= L!TotalPages(total) /\ L!TotalPages(total) \in Nat
  BY <1>1, <1>4, <1>6, PagesReach, PagesCounted
<1>8. L!Offset(d + 1) = d * Size
  BY <1>5 DEF L!Offset
<1>9. d + 1 \in 1..L!TotalPages(total)
  BY <1>4, <1>7
<1>. QED
  BY <1>3, <1>4, <1>5, <1>8, <1>9

\* An address book and the requests that are about to add to it.
RowsOf(u) == {i \in DOMAIN rows : rows[i].user = u}
Creating(u) ==
    {h \in Handlers : /\ addressRequest[h] # Idle
                      /\ addressRequest[h].op = "create" /\ addressRequest[h].user = u}

Room == MaxAddresses - 1 + Cardinality(Handlers)

LimitInv ==
    /\ lastAddress <= MaxRows
    /\ \A u \in Buyers : Cardinality(RowsOf(u)) + Cardinality(Creating(u)) <= Room

LEMMA BooksAreFinite ==
  ASSUME BookInv, NEW u
  PROVE  /\ IsFiniteSet(RowsOf(u)) /\ Cardinality(RowsOf(u)) \in Nat
         /\ IsFiniteSet(Creating(u)) /\ Cardinality(Creating(u)) \in Nat
         /\ Cardinality(Creating(u)) <= Cardinality(Handlers) /\ Cardinality(Handlers) \in Nat
<1>1. RowsOf(u) \subseteq 1..lastAddress /\ lastAddress \in Nat
  BY DEF RowsOf, BookInv, Booked
<1>2. IsFiniteSet(1..lastAddress)
  BY <1>1, FS_Interval
<1>3. IsFiniteSet(RowsOf(u))
  BY <1>1, <1>2, FS_Subset
<1>4. IsFiniteSet(Handlers) /\ Creating(u) \subseteq Handlers
  BY LimitsAssumption DEF Creating
<1>5. IsFiniteSet(Creating(u)) /\ Cardinality(Creating(u)) <= Cardinality(Handlers)
  BY <1>4, FS_Subset
<1>. QED
  BY <1>3, <1>4, <1>5, FS_CardinalityType

\* A book that does not grow, one that had room when a request looked, one to which
\* a request adds its row.
LEMMA BookHasRoom ==
  ASSUME NEW had, IsFiniteSet(had), NEW made, made \subseteq Handlers,
         NEW has, NEW makes, makes \subseteq Handlers,
         Cardinality(had) + Cardinality(made) <= Room,
         \/ has \subseteq had /\ makes \subseteq made
         \/ has \subseteq had /\ Cardinality(had) < MaxAddresses
         \/ \E n, h : has \subseteq had \cup {n} /\ h \in made /\ makes \subseteq made \ {h}
  PROVE  Cardinality(has) + Cardinality(makes) <= Room
<1>1. /\ IsFiniteSet(Handlers) /\ Cardinality(Handlers) \in Nat
      /\ IsFiniteSet(made) /\ Cardinality(made) \in Nat
      /\ IsFiniteSet(makes) /\ Cardinality(makes) \in Nat
      /\ Cardinality(makes) <= Cardinality(Handlers) /\ Cardinality(had) \in Nat
  BY LimitsAssumption, FS_Subset, FS_CardinalityType
<1>2. MaxAddresses \in Nat /\ Room = MaxAddresses - 1 + Cardinality(Handlers)
  BY LimitsAssumption DEF Room
<1>3. has \subseteq had => Cardinality(has) <= Cardinality(had) /\ Cardinality(has) \in Nat
  BY <1>1, FS_Subset, FS_CardinalityType
<1>4. CASE has \subseteq had /\ makes \subseteq made
  <2>1. Cardinality(makes) <= Cardinality(made)
    BY <1>1, <1>4, FS_Subset
  <2>. QED
    BY <1>1, <1>2, <1>3, <1>4, <2>1
<1>5. CASE has \subseteq had /\ Cardinality(had) < MaxAddresses
  BY <1>1, <1>2, <1>3, <1>5
<1>6. ASSUME NEW n, NEW h \in made, has \subseteq had \cup {n}, makes \subseteq made \ {h}
      PROVE  Cardinality(has) + Cardinality(makes) <= Room
  <2>1. IsFiniteSet(had \cup {n}) /\ Cardinality(had \cup {n}) <= Cardinality(had) + 1
    <3>1. CASE n \in had
      <4>1. had \cup {n} = had
        BY <3>1
      <4>. QED
        BY <1>1, <4>1
    <3>2. CASE n \notin had
      <4>1. Cardinality(had \cup {n}) = Cardinality(had) + 1
        BY <3>2, FS_AddElement
      <4>2. IsFiniteSet(had \cup {n})
        BY FS_AddElement
      <4>. QED
        BY <1>1, <4>1, <4>2
    <3>. QED
      BY <3>1, <3>2
  <2>2. IsFiniteSet(made \ {h}) /\ Cardinality(made \ {h}) = Cardinality(made) - 1
    BY <1>1, <1>6, FS_RemoveElement
  <2>3. /\ Cardinality(has) <= Cardinality(had \cup {n}) /\ Cardinality(has) \in Nat
        /\ Cardinality(had \cup {n}) \in Nat
    BY <1>6, <2>1, FS_Subset, FS_CardinalityType
  <2>4. Cardinality(makes) <= Cardinality(made) - 1
    BY <1>6, <2>2, FS_Subset
  <2>. QED
    BY <1>1, <1>2, <2>1, <2>3, <2>4
<1>. QED
  BY <1>4, <1>5, <1>6

\* A step that adds no address and no request that creates one.
LEMMA BooksAsTheyWere ==
  ASSUME BookInv, LimitInv, lastAddress' <= MaxRows,
         \A u \in Buyers : RowsOf(u)' \subseteq RowsOf(u) /\ Creating(u)' \subseteq Creating(u)
  PROVE  LimitInv'
<1>1. \A u \in Buyers : Cardinality(RowsOf(u)') + Cardinality(Creating(u)') <= Room
  <2>. SUFFICES ASSUME NEW u \in Buyers
                PROVE  Cardinality(RowsOf(u)') + Cardinality(Creating(u)') <= Room
    OBVIOUS
  <2>. DEFINE has == RowsOf(u)'
              makes == Creating(u)'
  <2>1. /\ IsFiniteSet(RowsOf(u)) /\ Creating(u) \subseteq Handlers /\ makes \subseteq Handlers
        /\ Cardinality(RowsOf(u)) + Cardinality(Creating(u)) <= Room
        /\ has \subseteq RowsOf(u) /\ makes \subseteq Creating(u)
    BY BooksAreFinite DEF Creating, LimitInv
  <2>. HIDE DEF has, makes
  <2>2. Cardinality(has) + Cardinality(makes) <= Room
    BY <2>1, BookHasRoom
  <2>. QED
    BY <2>2 DEF has, makes
<1>. QED
  BY <1>1 DEF LimitInv, Room

\* A request to create one has found room in the book; others are no matter.
LEMMA StartsWithinLimit ==
  ASSUME BookInv, LimitInv, NEW h \in Handlers, NEW u \in Buyers,
         A!StartCreate(h, u) \/ A!StartUpdate(h, u) \/ A!StartDelete(h, u)
  PROVE  LimitInv'
<1>1. PICK r : /\ A!Start(h, r) /\ Mine(r, rows, lastAddress) /\ r.alone /\ r.holds = {}
               /\ r.user = u /\ (r.op = "create" => A!StartCreate(h, u))
  BY AddressReceived
<1>. DEFINE q == addressRequest
            after == addressRequest'
<1>2. /\ h \notin Busy(q) /\ after = Begun(q, h, r) /\ UNCHANGED <<rows, lastAddress>>
  BY <1>1, AddressBooks DEF A!Start, A!Active
<1>3. /\ Marked(Handlers, Idle, q) /\ {"user", "alone"} \subseteq DOMAIN r /\ DOMAIN r = AddressEntries
      /\ \A g \in Handlers : q[g] # Idle => DOMAIN q[g] = AddressEntries
  BY <1>1 DEF BookInv, Marked, Mine, AddressEntries
<1>. HIDE DEF q, after
<1>0. Begins(Handlers, Idle, q, h, r, after)
  BY <1>2, ItBegins
<1>4. Started(Handlers, Idle, q, h, r, after)
  BY <1>0, <1>2, <1>3, BegunIs
<1>5. \A g \in Handlers \ {h} :
          after[g] # Idle => q[g] # Idle /\ after[g].op = q[g].op /\ after[g].user = q[g].user
  BY <1>3, <1>4 DEF Started, AddressEntries
<1>6. after[h].op = r.op /\ after[h].user = u
  BY <1>1, <1>3, <1>4 DEF Started, AddressEntries
<1>7. ASSUME NEW v \in Buyers, NEW g \in Creating(v)'
      PROVE  g \in Creating(v) \/ (g = h /\ v = u /\ r.op = "create")
  <2>1. g \in Handlers /\ after[g] # Idle /\ after[g].op = "create" /\ after[g].user = v
    BY <1>7 DEF Creating, after
  <2>2. CASE g = h
    BY <1>6, <2>1, <2>2
  <2>3. CASE g # h
    <3>1. q[g] # Idle /\ q[g].op = "create" /\ q[g].user = v
      BY <1>5, <2>1, <2>3
    <3>. QED
      BY <2>1, <3>1 DEF Creating, q
  <2>. QED
    BY <2>2, <2>3
<1>8. \A v \in Buyers : v # u \/ r.op # "create" => Creating(v)' \subseteq Creating(v)
  BY <1>7
<1>9. r.op = "create" => Cardinality(RowsOf(u)) < MaxAddresses
  BY <1>1 DEF A!StartCreate, A!Of, RowsOf, A!Cardinality, Cardinality
<1>10. \A v \in Buyers : RowsOf(v)' = RowsOf(v)
  BY <1>2 DEF RowsOf
<1>11. ASSUME NEW v \in Buyers
       PROVE  Cardinality(RowsOf(v)') + Cardinality(Creating(v)') <= Room
  <2>. DEFINE has == RowsOf(v)'
              makes == Creating(v)'
  <2>1. /\ IsFiniteSet(RowsOf(v)) /\ Creating(v) \subseteq Handlers /\ makes \subseteq Handlers
        /\ Cardinality(RowsOf(v)) + Cardinality(Creating(v)) <= Room
        /\ has \subseteq RowsOf(v)
    BY <1>10, BooksAreFinite DEF Creating, LimitInv
  <2>2. makes \subseteq Creating(v) \/ Cardinality(RowsOf(v)) < MaxAddresses
    BY <1>8, <1>9
  <2>. HIDE DEF has, makes
  <2>3. Cardinality(has) + Cardinality(makes) <= Room
    BY <2>1, <2>2, BookHasRoom
  <2>. QED
    BY <2>3 DEF has, makes
<1>. QED
  BY <1>2, <1>11 DEF LimitInv, Room

\* Only a commit that creates adds a row, and then its request is over.
LEMMA CreateWithinLimit ==
  ASSUME BookInv, LimitInv, NEW h \in Handlers, A!CommitCreate(h)
  PROVE  LimitInv'
<1>. DEFINE r == addressRequest[h]
            n == lastAddress + 1
            c == A!Cleared(r)
<1>1. /\ r # Idle /\ r.op = "create" /\ lastAddress' = n /\ lastAddress < MaxRows
      /\ rows' = [i \in DOMAIN rows \cup {n} |->
                     IF i = n THEN [user |-> r.user, is_default |-> r.set = "on"] ELSE c[i]]
      /\ addressRequest' = [addressRequest EXCEPT ![h] = Idle]
  BY AddressBooks DEF A!CommitCreate, A!Active, Busy, A!Done, A!Ended
<1>2. lastAddress \in Nat /\ DOMAIN addressRequest = Handlers /\ MaxRows \in Nat
  BY LimitsAssumption DEF BookInv
<1>3. \A i \in DOMAIN rows : c[i].user = rows[i].user
  BY <1>1, ClearedRows
<1>. HIDE DEF c
<1>4. \A i \in DOMAIN rows' \ {n} : i \in DOMAIN rows /\ rows'[i].user = rows[i].user
  BY <1>1, <1>3
<1>5. n \in DOMAIN rows' /\ rows'[n].user = r.user
  BY <1>1
<1>6. lastAddress' <= MaxRows
  BY <1>1, <1>2
<1>. HIDE DEF n
<1>7. \A v \in Buyers : /\ RowsOf(v)' \subseteq RowsOf(v) \cup {n}
                        /\ v # r.user => RowsOf(v)' \subseteq RowsOf(v)
  BY <1>4, <1>5 DEF RowsOf
<1>8. \A v \in Buyers : Creating(v)' \subseteq Creating(v) \ {h}
  BY <1>1, <1>2 DEF Creating
<1>9. h \in Creating(r.user)
  BY <1>1 DEF Creating
<1>10. ASSUME NEW v \in Buyers
       PROVE  Cardinality(RowsOf(v)') + Cardinality(Creating(v)') <= Room
  <2>. DEFINE has == RowsOf(v)'
              makes == Creating(v)'
  <2>1. /\ IsFiniteSet(RowsOf(v)) /\ Creating(v) \subseteq Handlers
        /\ makes \subseteq Handlers /\ makes \subseteq Creating(v)
        /\ Cardinality(RowsOf(v)) + Cardinality(Creating(v)) <= Room
    BY <1>8, BooksAreFinite DEF Creating, LimitInv
  <2>2. \/ has \subseteq RowsOf(v)
        \/ has \subseteq RowsOf(v) \cup {n} /\ h \in Creating(v) /\ makes \subseteq Creating(v) \ {h}
    BY <1>7, <1>8, <1>9
  <2>. HIDE DEF has, makes
  <2>3. Cardinality(has) + Cardinality(makes) <= Room
    BY <2>1, <2>2, BookHasRoom
  <2>. QED
    BY <2>3 DEF has, makes
<1>. QED
  BY <1>6, <1>10 DEF LimitInv, Room

\* The other steps only take away.
LEMMA OthersWithinLimit ==
  ASSUME BookInv, LimitInv, NEW h \in Handlers,
         \/ A!StartClear(h) \/ A!ClearDefault(h)
         \/ A!CommitUpdate(h) \/ A!CommitDelete(h)
  PROVE  LimitInv'
<1>. DEFINE q == addressRequest
            after == addressRequest'
<1>1. lastAddress' = lastAddress /\ q[h] # Idle
  BY AddressBooks DEF A!StartClear, A!ClearDefault, A!CommitUpdate, A!CommitDelete, A!Active, Busy
<1>2. /\ DOMAIN q = Handlers /\ Booked(rows, lastAddress)
      /\ \A g \in Handlers : q[g] # Idle => Mine(q[g], rows, lastAddress)
      /\ lastAddress' <= MaxRows
  BY <1>1 DEF BookInv, LimitInv
<1>3. /\ \A g \in Handlers \ {h} : after[g] = q[g]
      /\ after[h] = Idle \/ (after[h].op = q[h].op /\ after[h].user = q[h].user)
  <2>1. CASE A!StartClear(h)
    <3>. DEFINE aim == A!Aim(h)
    <3>1. after = [q EXCEPT ![h].at = "clearing", ![h].aim = aim]
      BY <2>1 DEF A!StartClear
    <3>. HIDE DEF aim
    <3>2. DOMAIN q[h] = AddressEntries
      BY <1>1, <1>2 DEF Mine
    <3>. QED
      BY <1>2, <3>1, <3>2 DEF AddressEntries
  <2>2. CASE A!ClearDefault(h)
    <3>. DEFINE found == {i \in q[h].aim \cap DOMAIN rows : rows[i].is_default}
    <3>1. after = [q EXCEPT ![h].at = "write", ![h].holds = found]
      BY <2>2 DEF A!ClearDefault
    <3>. HIDE DEF found
    <3>2. DOMAIN q[h] = AddressEntries
      BY <1>1, <1>2 DEF Mine
    <3>. QED
      BY <1>2, <3>1, <3>2 DEF AddressEntries
  <2>3. CASE A!CommitUpdate(h) \/ A!CommitDelete(h)
    BY <1>2, <2>3, AddressBooks DEF A!CommitUpdate, A!CommitDelete, A!Done, A!Ended
  <2>. QED
    BY <2>1, <2>2, <2>3
<1>4. \A i \in DOMAIN rows' : i \in DOMAIN rows /\ rows'[i].user = rows[i].user
  <2>1. CASE A!StartClear(h) \/ A!ClearDefault(h)
    BY <2>1 DEF A!StartClear, A!ClearDefault
  <2>2. CASE A!CommitUpdate(h)
    <3>. DEFINE c == A!Cleared(q[h])
                b == q[h].set = "on"
    <3>1. \/ rows' = rows \/ rows' = c
          \/ q[h].id \in DOMAIN rows /\ rows' = [c EXCEPT ![q[h].id].is_default = b]
      BY <2>2 DEF A!CommitUpdate
    <3>2. /\ DOMAIN c = DOMAIN rows
          /\ \A i \in DOMAIN rows : DOMAIN c[i] = {"user", "is_default"} /\ c[i].user = rows[i].user
      BY <1>1, ClearedRows
    <3>. HIDE DEF c, b
    <3>3. ASSUME NEW j \in DOMAIN c
          PROVE  [c[j] EXCEPT !.is_default = b].user = c[j].user
      BY <3>2, <3>3
    <3>4. ASSUME NEW j \in DOMAIN rows, rows' = [c EXCEPT ![j].is_default = b]
          PROVE  \A i \in DOMAIN rows' : i \in DOMAIN rows /\ rows'[i].user = rows[i].user
      <4>1. rows' = [c EXCEPT ![j] = [c[j] EXCEPT !.is_default = b]]
        BY <3>4
      <4>. QED
        BY <3>2, <3>3, <4>1
    <3>. QED
      BY <3>1, <3>2, <3>4
  <2>3. CASE A!CommitDelete(h)
    BY <2>3 DEF A!CommitDelete
  <2>. QED
    BY <2>1, <2>2, <2>3
<1>5. \A v \in Buyers : RowsOf(v)' \subseteq RowsOf(v)
  BY <1>4 DEF RowsOf
<1>6. ASSUME NEW v \in Buyers, NEW g \in Creating(v)' PROVE g \in Creating(v)
  <2>1. g \in Handlers /\ after[g] # Idle /\ after[g].op = "create" /\ after[g].user = v
    BY <1>6 DEF Creating
  <2>. QED
    BY <1>1, <1>3, <2>1 DEF Creating
<1>. QED
  BY <1>2, <1>5, <1>6, BooksAsTheyWere

LEMMA LimitAtFirst == A!Init => LimitInv
<1>. SUFFICES ASSUME A!Init PROVE LimitInv
  OBVIOUS
<1>1. DOMAIN rows = {} /\ lastAddress = 0 /\ addressRequest = [h \in Handlers |-> Idle]
  BY AddressBooks DEF A!Init
<1>2. \A u : RowsOf(u) = {} /\ Creating(u) = {}
  BY <1>1 DEF RowsOf, Creating
<1>3. Cardinality({}) = 0 /\ Cardinality(Handlers) \in Nat
  BY FS_EmptySet, FS_CardinalityType, LimitsAssumption
<1>4. 0 + 0 <= Room /\ 0 <= MaxRows
  BY <1>3, LimitsAssumption DEF Room
<1>. QED
  BY <1>1, <1>2, <1>3, <1>4 DEF LimitInv

LEMMA LimitStays == BookInv /\ LimitInv /\ [A!Next]_(A!vars) => LimitInv'
<1>1. ASSUME BookInv, LimitInv, UNCHANGED A!vars PROVE LimitInv'
  <2>1. UNCHANGED <<rows, lastAddress, addressRequest>>
    BY <1>1 DEF A!vars
  <2>2. \A u : RowsOf(u)' = RowsOf(u) /\ Creating(u)' = Creating(u)
    BY <2>1 DEF RowsOf, Creating
  <2>. QED
    BY <1>1, <2>1, <2>2 DEF LimitInv, Room
<1>. QED
  BY <1>1, StartsWithinLimit, CreateWithinLimit, OthersWithinLimit DEF A!Next

LEMMA BooksAreKept == ShopSpec => [](BookInv /\ LimitInv)
<1>1. A!Init => BookInv /\ LimitInv
  BY BooksAtFirst, LimitAtFirst
<1>2. BookInv /\ LimitInv /\ [A!Next]_(A!vars) => (BookInv /\ LimitInv)'
  BY BooksStay, LimitStays
<1>. QED
  BY <1>1, <1>2, EachByItself, PTL DEF A!Spec

LEMMA BasketsAreKept == ShopSpec => []BasketInv
BY BasketsAtFirst, BasketsStay, EachByItself, PTL DEF B!Spec

\* One request's locks, and one book's size.
LEMMA BooksAreTyped ==
  ASSUME BookInv, LimitInv
  PROVE  A!TypeOK /\ A!LimitPlusRaces
<1>1. /\ Booked(rows, lastAddress) /\ lastAddress \in Nat /\ Disjoint(addressRequest)
      /\ \A h \in Handlers : addressRequest[h] # Idle => Mine(addressRequest[h], rows, lastAddress)
      /\ lastAddress <= MaxRows /\ MaxRows \in Nat /\ MaxAddresses \in Nat
  BY LimitsAssumption DEF BookInv, LimitInv
<1>2. DOMAIN rows \subseteq 1..lastAddress /\ lastAddress \in 0..MaxRows
  BY <1>1 DEF Booked
<1>3. ASSUME NEW h \in Handlers, A!Active(h)
      PROVE  /\ addressRequest[h].set \in A!Settings
             /\ addressRequest[h].at \in {"clear", "clearing", "write"}
             /\ addressRequest[h].holds \cap A!Held(h) = {}
  <2>1. addressRequest[h] # Idle
    BY <1>3, AddressBooks DEF A!Active, Busy
  <2>2. ASSUME NEW i \in A!Held(h) PROVE i \notin addressRequest[h].holds
    <3>1. PICK g \in Handlers \ {h} : A!Active(g) /\ i \in addressRequest[g].holds
      BY <2>2 DEF A!Held
    <3>2. addressRequest[g] # Idle
      BY <3>1, AddressBooks DEF A!Active, Busy
    <3>. QED
      BY <1>1, <2>1, <3>1, <3>2 DEF Disjoint
  <2>. QED
    BY <1>1, <2>1, <2>2 DEF Mine, A!Settings
<1>4. A!TypeOK
  BY <1>1, <1>2, <1>3 DEF A!TypeOK, Booked
<1>5. ASSUME NEW u \in Buyers
      PROVE  A!Cardinality(A!Of(u)) < MaxAddresses + A!Cardinality(Handlers)
  <2>1. A!Cardinality(A!Of(u)) = Cardinality(RowsOf(u)) /\ A!Cardinality(Handlers) = Cardinality(Handlers)
    BY DEF A!Cardinality, Cardinality, A!Of, RowsOf
  <2>2. /\ Cardinality(RowsOf(u)) \in Nat /\ Cardinality(Creating(u)) \in Nat
        /\ Cardinality(Handlers) \in Nat
        /\ Cardinality(RowsOf(u)) + Cardinality(Creating(u)) <= MaxAddresses - 1 + Cardinality(Handlers)
    BY BooksAreFinite DEF LimitInv, Room
  <2>. QED
    BY <1>1, <2>1, <2>2
<1>. QED
  BY <1>4, <1>5 DEF A!LimitPlusRaces

LEMMA CartsAreTyped ==
  ASSUME BasketInv
  PROVE  B!OneLinePerProduct /\ B!WithinStockSeen
<1>1. Carted(cart, lastLine)
  BY DEF BasketInv
<1>2. ASSUME NEW u \in Buyers, NEW p \in Wares
      PROVE  B!Cardinality(B!Lines(u, p)) <= 1
  <2>1. \A i, j \in B!Lines(u, p) : i = j
    BY <1>1 DEF B!Lines, Carted
  <2>2. Cardinality({}) = 0 /\ \A i : Cardinality({i}) = 1
    BY FS_EmptySet, FS_Singleton
  <2>. DEFINE s == B!Lines(u, p)
  <2>3. B!Cardinality(s) = Cardinality(s)
    BY DEF B!Cardinality, Cardinality
  <2>4. s = {} \/ \E i : s = {i}
    BY <2>1
  <2>. HIDE DEF s
  <2>5. Cardinality(s) = 0 \/ Cardinality(s) = 1
    BY <2>2, <2>4
  <2>6. Cardinality(s) <= 1
    BY <2>5
  <2>. QED
    BY <2>3, <2>6 DEF s
<1>. QED
  BY <1>1, <1>2 DEF B!OneLinePerProduct, B!WithinStockSeen, Carted

\* Whatever requests race, the rows are of the kind the other queries expect: an
\* address book exceeds its limit by less than the requests that overlap, a user
\* has one cart row per product, which asks for no more than the shop has had of
\* it, the pages of a list cover it, and the amount of an order is what its items
\* add up to (address_service.py:21, cart_service.py:79, order/models.py:44).
THEOREM RowsAreTyped == ShopSpec => []ShopTypeOK
<1>1. LInv => L!PagesCover
  BY PagesAreEnough DEF LInv
<1>2. TillInv => P!TotalFollowsItems
  BY DEF TillInv
<1>3. BookInv /\ LimitInv /\ BasketInv /\ LInv /\ TillInv => ShopTypeOK
  BY <1>1, <1>2, BooksAreTyped, CartsAreTyped DEF ShopTypeOK
<1>. QED
  BY <1>3, BooksAreKept, BasketsAreKept, ListsStay, TotalsFollow, PTL

(***************************************************************************)
(* The figures of the console.                                             *)
(***************************************************************************)
Orders == [user : Buyers, total_amount : Amounts, status : F!Statuses, created_at : Nat]

\* The inductive invariant: an order has been created by now.
Dated ==
    /\ now \in Nat /\ orders \in Seq(Orders)
    /\ \A o \in DOMAIN orders : orders[o].created_at <= now

LEMMA OrdersAreDated == ShopSpec => []Dated
<1>1. F!Init => Dated
  BY DEF F!Init, Dated
<1>2. ASSUME Dated, F!CreateOrder PROVE Dated'
  <2>1. PICK u \in Buyers, a \in Amounts :
            orders' = Append(orders, [user |-> u, total_amount |-> a,
                                      status |-> "PENDING", created_at |-> now])
    BY <1>2 DEF F!CreateOrder
  <2>. DEFINE new == [user |-> u, total_amount |-> a, status |-> "PENDING", created_at |-> now]
  <2>2. new \in Orders /\ new.created_at = now /\ now' = now /\ now <= now
    BY <1>2 DEF Orders, F!Statuses, F!CreateOrder, Dated
  <2>. HIDE DEF new
  <2>3. orders' = Append(orders, new)
    BY <2>1 DEF new
  <2>. QED
    BY <1>2, <2>2, <2>3 DEF Dated
<1>3. ASSUME Dated, F!ChangeStatus PROVE Dated'
  <2>1. PICK o \in DOMAIN orders, s \in F!Statuses : orders' = [orders EXCEPT ![o].status = s]
    BY <1>3 DEF F!ChangeStatus
  <2>. DEFINE t == [orders[o] EXCEPT !.status = s]
  <2>2. orders[o] \in Orders
    BY <1>3 DEF Dated
  <2>3. t \in Orders /\ t.created_at = orders[o].created_at
    BY <2>2 DEF Orders
  <2>. HIDE DEF t
  <2>4. orders' = [orders EXCEPT ![o] = t] /\ now' = now
    BY <1>3, <2>1 DEF t, F!ChangeStatus
  <2>. QED
    BY <1>3, <2>3, <2>4 DEF Dated
<1>4. ASSUME Dated, F!Tick PROVE Dated'
  <2>1. now' = now + 1 /\ orders' = orders
    BY <1>4 DEF F!Tick
  <2>2. \A o \in DOMAIN orders : orders[o].created_at \in Nat
    <3>1. \A o \in DOMAIN orders : orders[o] \in Orders
      BY <1>4 DEF Dated
    <3>. QED
      BY <3>1 DEF Orders
  <2>. QED
    BY <1>4, <2>1, <2>2 DEF Dated
<1>5. Dated /\ [F!Next]_(F!vars) => Dated'
  BY <1>2, <1>3, <1>4 DEF F!Next, F!vars, Dated
<1>. QED
  BY <1>1, <1>5, EachByItself, PTL DEF F!Spec

Amount == [o \in DOMAIN orders |-> orders[o].total_amount]

\* The sums and counts of the queries.
LEMMA RevenueIs ==
  /\ \A S : F!Revenue(S) = SumFunctionOnSet(Amount, S) /\ F!Cardinality(S) = Cardinality(S)
  /\ \A f : F!SumFunction(f) = SumFunctionOnSet(f, DOMAIN f)
BY DEF F!Revenue, Amount, F!Cardinality, Cardinality, F!SumFunction,
       F!SumFunctionOnSet, F!FoldFunctionOnSet, F!MapThenFoldSet,
       SumFunctionOnSet, FoldFunctionOnSet, MapThenFoldSet

LEMMA OrdersCounted ==
  ASSUME Dated, NEW S \in SUBSET DOMAIN orders
  PROVE  Numbers(Amount, S) /\ Cardinality(S) \in Nat
<1>1. DOMAIN orders = 1..Len(orders) /\ Len(orders) \in Nat
  BY DEF Dated
<1>2. IsFiniteSet(1..Len(orders))
  BY <1>1, FS_Interval
<1>3. IsFiniteSet(S)
  BY <1>1, <1>2, FS_Subset
<1>4. \A o \in DOMAIN orders : orders[o].total_amount \in Int
  <2>1. \A o \in DOMAIN orders : orders[o] \in Orders
    BY DEF Dated
  <2>. QED
    BY <2>1, FiguresAssumption DEF Orders
<1>. QED
  BY <1>3, <1>4, FS_CardinalityType DEF Numbers, Amount

\* Orders in groups: the sums of the groups add up to the sum, their counts to the
\* count.
Group(S, k, p) == {x \in S : k[x] = p}

Grouped(f, S, k, T, sums, counts) ==
    /\ \A x \in S : k[x] \in T
    /\ DOMAIN sums = T /\ \A p \in T : sums[p] = SumFunctionOnSet(f, Group(S, k, p))
    /\ DOMAIN counts = T /\ \A p \in T : counts[p] = Cardinality(Group(S, k, p))

LEMMA GroupsAddUp ==
  ASSUME NEW f, NEW S, Numbers(f, S), NEW T, IsFiniteSet(T), NEW k, NEW sums, NEW counts,
         Grouped(f, S, k, T, sums, counts)
  PROVE  /\ SumFunctionOnSet(sums, DOMAIN sums) = SumFunctionOnSet(f, S)
         /\ SumFunctionOnSet(counts, DOMAIN counts) = Cardinality(S)
<1>0. /\ \A x \in S : k[x] \in T
      /\ DOMAIN sums = T /\ \A p \in T : sums[p] = SumFunctionOnSet(f, {x \in S : k[x] = p})
      /\ DOMAIN counts = T /\ \A p \in T : counts[p] = Cardinality({x \in S : k[x] = p})
  BY DEF Grouped, Group
<1>1. SumFunctionOnSet(sums, T) = SumFunctionOnSet(f, S)
  BY <1>0, SumOfGroups
<1>. DEFINE ones == [x \in S |-> 1]
<1>2. \A x \in S : ones[x] = 1
  OBVIOUS
<1>. HIDE DEF ones
<1>3. ASSUME NEW s \in SUBSET S
      PROVE  SumFunctionOnSet(ones, s) = Cardinality(s) /\ Numbers(ones, s)
  <2>1. IsFiniteSet(s) /\ \A x \in s : ones[x] = 1
    BY <1>2, FS_Subset DEF Numbers
  <2>. QED
    BY <2>1, SumOfOnes
<1>4. \A p \in T : counts[p] = SumFunctionOnSet(ones, {x \in S : k[x] = p})
  BY <1>0, <1>3
<1>5. SumFunctionOnSet(counts, T) = SumFunctionOnSet(ones, S)
  BY <1>0, <1>3, <1>4, SumOfGroups
<1>. QED
  BY <1>0, <1>1, <1>3, <1>5

\* The periods of a chart are as many as its orders at most.
LEMMA ChartAgrees ==
  ASSUME Dated, NEW f, NEW t, NEW unit
  PROVE  LET series == F!TimeSeries(f, t, unit)  total == F!Summary(f, t) IN
         /\ total.total_revenue = F!SumFunction([p \in DOMAIN series |-> series[p].revenue])
         /\ total.order_count = F!SumFunction([p \in DOMAIN series |-> series[p].order_count])
<1>. DEFINE S == F!Sold(F!Created(f, t))
            k == [o \in S |-> F!Trunc(unit, orders[o].created_at)]
            T == {k[o] : o \in S}
            series == F!TimeSeries(f, t, unit)
            sums == [p \in DOMAIN series |-> series[p].revenue]
            counts == [p \in DOMAIN series |-> series[p].order_count]
            group(p) == Group(S, k, p)
<1>1. S \in SUBSET DOMAIN orders
  BY DEF F!Sold, F!Created
<1>2. Numbers(Amount, S) /\ Cardinality(S) \in Nat
  BY <1>1, OrdersCounted
<1>3. \A o \in S : k[o] \in T /\ k[o] = F!Trunc(unit, orders[o].created_at)
  OBVIOUS
<1>4. IsFiniteSet(T)
  <2>1. k \in Surjection(S, T)
    BY DEF Surjection
  <2>. HIDE DEF k, T, S
  <2>. QED
    BY <1>2, <2>1, FS_Surjection DEF Numbers
<1>5. DOMAIN series = {F!Trunc(unit, orders[o].created_at) : o \in S}
  BY DEF F!TimeSeries
<1>6. ASSUME NEW p \in DOMAIN series
      PROVE  LET g == {o \in S : F!Trunc(unit, orders[o].created_at) = p} IN
             series[p] = [revenue |-> F!Revenue(g), order_count |-> F!Cardinality(g)]
  BY <1>5 DEF F!TimeSeries
<1>7. F!Summary(f, t).total_revenue = F!Revenue(S) /\ F!Summary(f, t).order_count = F!Cardinality(S)
  BY DEF F!Summary
<1>. HIDE DEF series, S
<1>8. DOMAIN series = T
  BY <1>5
<1>. HIDE DEF k, T
<1>9. \A p \in T : /\ sums[p] = SumFunctionOnSet(Amount, group(p))
                   /\ counts[p] = Cardinality(group(p))
  <2>. SUFFICES ASSUME NEW p \in T
                PROVE  /\ sums[p] = SumFunctionOnSet(Amount, group(p))
                       /\ counts[p] = Cardinality(group(p))
    OBVIOUS
  <2>. DEFINE g == {o \in S : F!Trunc(unit, orders[o].created_at) = p}
  <2>1. g = group(p)
    BY <1>3 DEF Group
  <2>2. series[p] = [revenue |-> F!Revenue(g), order_count |-> F!Cardinality(g)]
    BY <1>6, <1>8
  <2>. HIDE DEF g
  <2>3. sums[p] = F!Revenue(g) /\ counts[p] = F!Cardinality(g)
    BY <1>8, <2>2
  <2>. QED
    BY <2>1, <2>3, RevenueIs
<1>10. DOMAIN sums = T /\ DOMAIN counts = T
  BY <1>8
<1>. HIDE DEF sums, counts
<1>11. /\ SumFunctionOnSet(sums, DOMAIN sums) = SumFunctionOnSet(Amount, S)
       /\ SumFunctionOnSet(counts, DOMAIN counts) = Cardinality(S)
  <2>1. Grouped(Amount, S, k, T, sums, counts)
    BY <1>3, <1>9, <1>10 DEF Grouped
  <2>. QED
    BY <1>2, <1>4, <2>1, GroupsAddUp
<1>12. /\ F!Summary(f, t).total_revenue = F!SumFunction(sums)
       /\ F!Summary(f, t).order_count = F!SumFunction(counts)
  BY <1>7, <1>11, RevenueIs
<1>. QED
  BY <1>12 DEF sums, counts, series

LEMMA TodayAgrees ==
  ASSUME Dated
  PROVE  F!TodayIsTheLastRange
<1>1. \A o \in DOMAIN orders : orders[o].created_at <= now
  BY DEF Dated
<1>. DEFINE S == F!Created(F!TodayStart, now)
            some == F!Sold(S)
<1>2. F!TodayOrders = S
  BY <1>1 DEF F!TodayOrders, F!Created
<1>3. S \in SUBSET DOMAIN orders /\ some \subseteq S
  BY DEF F!Created, F!Sold
<1>4. /\ F!Summary(F!TodayStart, now).total_revenue = F!Revenue(some)
      /\ F!Summary(F!TodayStart, now).order_count = F!Cardinality(some)
      /\ F!Summary(F!TodayStart, now).cancel_count = F!Cardinality(S \ some)
  BY DEF F!Summary
<1>5. F!TodayRevenue = F!Revenue(some)
  BY <1>2 DEF F!TodayRevenue
<1>. HIDE DEF S, some
<1>6. Cardinality(S) = Cardinality(some) + Cardinality(S \ some)
  <2>1. IsFiniteSet(S) /\ Cardinality(S) \in Nat /\ Cardinality(some) \in Nat
    BY <1>3, OrdersCounted DEF Numbers
  <2>2. Cardinality(S \ some) = Cardinality(S) - Cardinality(S \cap some)
    BY <2>1, FS_Difference
  <2>3. S \cap some = some
    BY <1>3
  <2>. QED
    BY <2>1, <2>2, <2>3
<1>7. F!Cardinality(F!TodayOrders) =
        F!Summary(F!TodayStart, now).order_count + F!Summary(F!TodayStart, now).cancel_count
  BY <1>2, <1>4, <1>6, RevenueIs
<1>. QED
  BY <1>4, <1>5, <1>7 DEF F!TodayIsTheLastRange

LEMMA MembersAgree ==
  ASSUME Dated
  PROVE  F!MembersAddUp
<1>. DEFINE S == F!Sold(F!Created(0, now))
            k == [o \in S |-> orders[o].user]
            sums == [u \in Buyers |-> F!Member(u).total_purchased]
            counts == [u \in Buyers |-> F!Member(u).order_count]
            group(u) == Group(S, k, u)
<1>1. \A o \in DOMAIN orders : orders[o] \in Orders /\ orders[o].created_at <= now
  BY DEF Dated
<1>2. \A o \in DOMAIN orders : orders[o].user \in Buyers /\ orders[o].created_at >= 0
  BY <1>1 DEF Orders
<1>3. F!Created(0, now) = DOMAIN orders
  BY <1>1, <1>2 DEF F!Created
<1>4. S = F!Sold(DOMAIN orders) /\ S \in SUBSET DOMAIN orders
  BY <1>3 DEF F!Sold
<1>5. Numbers(Amount, S)
  BY <1>4, OrdersCounted
<1>6. \A o \in S : k[o] \in Buyers /\ k[o] = orders[o].user
  BY <1>2, <1>4
<1>7. /\ F!Summary(0, now).total_revenue = F!Revenue(S)
      /\ F!Summary(0, now).order_count = F!Cardinality(S)
  BY DEF F!Summary
<1>. HIDE DEF S, k
<1>8. ASSUME NEW u \in Buyers
      PROVE  /\ sums[u] = SumFunctionOnSet(Amount, group(u))
             /\ counts[u] = Cardinality(group(u))
  <2>. DEFINE g == {o \in F!Sold(DOMAIN orders) : orders[o].user = u}
  <2>1. g = group(u)
    BY <1>4, <1>6 DEF Group
  <2>2. F!Member(u) = [order_count |-> F!Cardinality(g), total_purchased |-> F!Revenue(g)]
    BY DEF F!Member
  <2>. HIDE DEF g
  <2>3. sums[u] = F!Revenue(g) /\ counts[u] = F!Cardinality(g)
    BY <2>2
  <2>. QED
    BY <2>1, <2>3, RevenueIs
<1>9. DOMAIN sums = Buyers /\ DOMAIN counts = Buyers
  OBVIOUS
<1>. HIDE DEF sums, counts
<1>10. /\ SumFunctionOnSet(sums, DOMAIN sums) = SumFunctionOnSet(Amount, S)
       /\ SumFunctionOnSet(counts, DOMAIN counts) = Cardinality(S)
  <2>1. Grouped(Amount, S, k, Buyers, sums, counts)
    BY <1>6, <1>8, <1>9 DEF Grouped
  <2>. QED
    BY <1>5, <2>1, GroupsAddUp, FiguresAssumption
<1>11. /\ F!Summary(0, now).total_revenue = F!SumFunction(sums)
       /\ F!Summary(0, now).order_count = F!SumFunction(counts)
  BY <1>7, <1>10, RevenueIs
<1>. QED
  BY <1>11 DEF F!MembersAddUp, sums, counts

\* Every page of the console shows the same money: the chart of a range adds up to
\* the headline above it, by day and by week and wherever the range begins (sales_
\* service.py:28 and 57), what the dashboard calls today is the range from today on
\* (dashboard_service.py:32), and the purchases of the members are all sales
\* (admin_members_repository.py:28).
THEOREM SameMoney == ShopSpec => []FiguresAgree
<1>1. Dated => F!ChartAddsUp
  BY ChartAgrees DEF F!ChartAddsUp
<1>2. Dated => FiguresAgree
  BY <1>1, TodayAgrees, MembersAgree DEF FiguresAgree, F!FiguresAgree
<1>. QED
  BY <1>2, OrdersAreDated, PTL
=============================================================================
