--------------------------- MODULE RowLocks_proofs ---------------------------
(* Proofs about RowLocks, for any number of requests, orders and products, *)
(* any lines, and any order in which the database finds rows.              *)
EXTENDS RowLocks, TLAPS

-----------------------------------------------------------------------------
(* No two transactions have locked the same row.                           *)
Exclusive == \A t, u \in Requests : t # u => held[t] \cap held[u] = {}

(* The payments of an order are locked after the order.                    *)
Paired(rows, locks) ==
  \A q \in Orders :
    /\ PaymentRow(q) \in locks => OrderRow(q) \in locks
    /\ \A i \in DOMAIN rows : rows[i] = PaymentRow(q) =>
         \/ OrderRow(q) \in locks
         \/ i > 1 /\ rows[i - 1] = OrderRow(q)

(* Orders are locked first.                                                *)
OrderFirst(rows, locks) ==
  \A i \in DOMAIN rows : Table(rows[i]) = "orders" => i = 1 /\ locks = {}

(* A create that releases orders has locked one of them, or is about to.   *)
Tidying(rows, locks) ==
  IF locks = {} THEN rows = <<>> \/ Table(rows[1]) = "orders"
                ELSE \E r \in locks : Table(r) = "orders"

(* A refund locks the payments of an order and then the order.             *)
Refunding(rows, locks) ==
  \E q \in Orders : \/ rows = RefundRows(q) /\ locks = {}
                    \/ rows = <<OrderRow(q)>> /\ locks = {PaymentRow(q)}
                    \/ rows = <<>>

(* What the operation a request is at says of its locks.                   *)
Disciplined(name, rows, locks) ==
  /\ name = "none" => rows = <<>> /\ locks = {}
  /\ IF name = "refund" THEN Refunding(rows, locks) ELSE Paired(rows, locks)
  /\ name = "tidy" => Tidying(rows, locks)
  /\ name \notin {"tidy", "refund"} => OrderFirst(rows, locks)

(* The inductive invariant.                                                *)
IInv ==
  /\ Exclusive
  /\ \A t \in Requests : Disciplined(op[t], todo[t], held[t])

-----------------------------------------------------------------------------
(* The rows of products are a sequence of rows.                            *)
LEMMA ProductRowsType ==
  ASSUME NEW seq \in Seq(Products)
  PROVE  ProductRows(seq) \in Seq(Rows)
  BY DEF ProductRows, ProductRow, Rows

(* Every plan but a refund's starts with its order, goes on with its       *)
(* payments or not, and ends with products.                                *)
Descending(o, rows) ==
  /\ rows \in Seq(Rows)
  /\ rows # <<>>
  /\ rows[1] = OrderRow(o)
  /\ \A i \in DOMAIN rows : Table(rows[i]) = "orders" => i = 1
  /\ \A i \in DOMAIN rows : Table(rows[i]) = "payments" =>
       i = 2 /\ rows[i] = PaymentRow(o)

LEMMA PlansDescend ==
  ASSUME NEW o \in Orders
  PROVE  /\ Descending(o, <<OrderRow(o)>>)
         /\ Descending(o, <<OrderRow(o), PaymentRow(o)>>)
         /\ Descending(o, <<OrderRow(o)>> \o RestoreRows(o))
         /\ Descending(o, <<OrderRow(o), PaymentRow(o)>> \o RestoreRows(o))
<1>. DEFINE a == <<OrderRow(o)>>
            b == <<OrderRow(o), PaymentRow(o)>>
            c == RestoreRows(o)
<1>1. /\ a \in Seq(Rows) /\ Len(a) = 1 /\ a[1] = OrderRow(o)
      /\ b \in Seq(Rows) /\ Len(b) = 2 /\ b[1] = OrderRow(o) /\ b[2] = PaymentRow(o)
  BY DEF OrderRow, PaymentRow, Rows
<1>2. /\ c \in Seq(Rows)
      /\ \A i \in DOMAIN c : Table(c[i]) = "products"
  <2>1. Items[o] \in Seq(Products)
    BY RowLocksAssumption DEF RowLocksAssumption
  <2>2. c \in Seq(Rows)
    BY <2>1, ProductRowsType DEF RestoreRows
  <2>. QED
    BY <2>2 DEF RestoreRows, ProductRows, ProductRow, Table
<1>3. /\ Table(OrderRow(o)) = "orders"
      /\ Table(PaymentRow(o)) = "payments"
  BY DEF Table, OrderRow, PaymentRow
<1>. HIDE DEF a, b, c
<1>4. ASSUME NEW s \in Seq(Rows), NEW n \in {1, 2}, Len(s) = n,
             s[1] = OrderRow(o), n = 2 => s[2] = PaymentRow(o)
      PROVE  Descending(o, s) /\ Descending(o, s \o c)
  <2>1. Descending(o, s)
    BY <1>3, <1>4 DEF Descending
  <2>2. /\ s \o c \in Seq(Rows)
        /\ s \o c # <<>>
        /\ (s \o c)[1] = OrderRow(o)
    BY <1>2, <1>4
  <2>3. ASSUME NEW i \in DOMAIN (s \o c)
        PROVE  \/ i \in 1 .. n /\ (s \o c)[i] = s[i]
               \/ i > n /\ Table((s \o c)[i]) = "products"
    <3>1. CASE i <= n
      BY <1>2, <1>4, <3>1
    <3>2. CASE i > n
      <4>1. i - n \in DOMAIN c /\ (s \o c)[i] = c[i - n]
        BY <1>2, <1>4, <3>2
      <4>. QED
        BY <1>2, <3>2, <4>1
    <3>. QED
      BY <1>2, <1>4, <3>1, <3>2
  <2>. QED
    BY <1>3, <1>4, <2>1, <2>2, <2>3 DEF Descending
<1>. QED
  BY <1>1, <1>4 DEF a, b, c

(* What a release locks of its order.                                      *)
LEMMA ReleaseDescends ==
  ASSUME NEW o \in Orders, NEW rows \in ReleaseRows(o)
  PROVE  Descending(o, rows)
  BY PlansDescend DEF ReleaseRows

(* What the other requests lock.                                           *)
LEMMA PlanIs ==
  ASSUME NEW o \in Orders, NEW name \in DOMAIN Plans(o), NEW rows \in Plans(o)[name]
  PROVE  /\ name \in Ops \ {"none", "tidy", "create"}
         /\ \/ name = "refund" /\ rows = RefundRows(o)
            \/ name # "refund" /\ Descending(o, rows)
            \/ name = "edit" /\ \E p \in Products : rows = <<ProductRow(p)>>
<1>1. name \in {"init", "confirm", "webhook", "cancel", "refund", "release", "edit"}
  BY DEF Plans
<1>2. CASE name \in {"init", "confirm", "webhook", "cancel", "release"}
  <2>1. \/ rows \in {StatusRows(o), ConfirmRows(o)}
        \/ rows \in WebhookRows(o) \cup CancelRows(o) \cup ReleaseRows(o)
    BY <1>2 DEF Plans
  <2>2. rows \in {<<OrderRow(o)>>,
                  <<OrderRow(o), PaymentRow(o)>>,
                  <<OrderRow(o)>> \o RestoreRows(o),
                  <<OrderRow(o), PaymentRow(o)>> \o RestoreRows(o)}
    BY <2>1, Zenon DEF StatusRows, ConfirmRows, WebhookRows, CancelRows, ReleaseRows
  <2>3. Descending(o, rows)
    BY <2>2, PlansDescend
  <2>. QED
    BY <1>2, <2>3 DEF Ops
<1>3. CASE name = "refund"
  BY <1>3 DEF Plans, Ops
<1>4. CASE name = "edit"
  <2>1. PICK i \in DOMAIN Items[o] : rows = <<ProductRow(Items[o][i])>>
    BY <1>4 DEF Plans, EditRows
  <2>2. Items[o][i] \in Products
    BY RowLocksAssumption DEF RowLocksAssumption
  <2>. QED
    BY <1>4, <2>1, <2>2 DEF Ops
<1>. QED
  BY <1>1, <1>2, <1>3, <1>4

(* So every plan is a sequence of rows.                                    *)
LEMMA PlanType ==
  ASSUME NEW o \in Orders, NEW name \in DOMAIN Plans(o), NEW rows \in Plans(o)[name]
  PROVE  rows \in Seq(Rows)
<1>1. RefundRows(o) \in Seq(Rows)
  BY DEF RefundRows, OrderRow, PaymentRow, Rows
<1>2. \A p \in Products : <<ProductRow(p)>> \in Seq(Rows)
  BY DEF ProductRow, Rows
<1>3. \/ rows = RefundRows(o) \/ Descending(o, rows)
      \/ \E p \in Products : rows = <<ProductRow(p)>>
  BY PlanIs
<1>. QED
  BY <1>1, <1>2, <1>3 DEF Descending

-----------------------------------------------------------------------------
(* Every step keeps the types.                                             *)
LEMMA TypeStep == TypeOK /\ [Next]_vars => TypeOK'
<1>. SUFFICES ASSUME TypeOK, [Next]_vars PROVE TypeOK'
  OBVIOUS
<1>1. ASSUME NEW t \in Requests, NEW o \in Orders, NEW name \in DOMAIN Plans(o),
             NEW rows \in Plans(o)[name], Begin(t, o, name, rows)
      PROVE  TypeOK'
  BY <1>1, PlanType, PlanIs DEF Begin, TypeOK
<1>2. ASSUME NEW t \in Requests, NEW o \in Orders, NEW rows \in ReleaseRows(o),
             Sweep(t, o, rows)
      PROVE  TypeOK'
  <2>1. Tail(rows) \in Seq(Rows) /\ OrderRow(o) \in Rows
    BY ReleaseDescends DEF Descending, OrderRow, Rows
  <2>. QED
    BY <1>2, <2>1 DEF Sweep, TypeOK, Ops
<1>3. ASSUME NEW t \in Requests, NEW orders \in Left, BeginCreate(t, orders)
      PROVE  TypeOK'
  BY <1>3, RowLocksAssumption DEF BeginCreate, TypeOK, Ops, RowLocksAssumption
<1>4. ASSUME NEW t \in Requests, NEW o \in Orders, NEW rows \in ReleaseRows(o),
             ReleaseNext(t, rows)
      PROVE  TypeOK'
  <2>1. rows \in Seq(Rows)
    BY ReleaseDescends DEF Descending
  <2>. QED
    BY <1>4, <2>1 DEF ReleaseNext, TypeOK
<1>5. ASSUME NEW t \in Requests, NEW scan \in Scans, LookUp(t, scan)
      PROVE  TypeOK'
  <2>1. ProductRows(scan) \in Seq(Rows)
    BY ProductRowsType, RowLocksAssumption DEF RowLocksAssumption
  <2>. QED
    BY <1>5, <2>1 DEF LookUp, TypeOK, Ops
<1>6. ASSUME NEW t \in Requests, Lock(t) PROVE TypeOK'
  BY <1>6 DEF Lock, TypeOK
<1>7. ASSUME NEW t \in Requests, End(t) PROVE TypeOK'
  BY <1>7 DEF End, TypeOK, Ops
<1>8. CASE UNCHANGED vars
  BY <1>8 DEF vars, TypeOK
<1>. QED
  BY <1>1, <1>2, <1>3, <1>4, <1>5, <1>6, <1>7, <1>8 DEF Next, Commit, RollBack

(* Transactions lock rows, and nothing but rows.                           *)
THEOREM TypeCorrect == Spec => []TypeOK
<1>1. Init => TypeOK
  BY DEF Init, TypeOK, Ops
<1>. QED
  BY <1>1, TypeStep, PTL DEF Spec

-----------------------------------------------------------------------------
(* A request that has locked the next row of its plan.                     *)
LEMMA NextRow ==
  ASSUME NEW name, NEW rows \in Seq(Rows), NEW locks \in SUBSET Rows,
         rows # <<>>, Disciplined(name, rows, locks)
  PROVE  Disciplined(name, Tail(rows), locks \cup {Head(rows)})
<1>. DEFINE rest == Tail(rows)
            more == locks \cup {Head(rows)}
<1>1. /\ Len(rows) \in Nat \ {0}
      /\ DOMAIN rows = 1 .. Len(rows)
      /\ DOMAIN rest = 1 .. Len(rows) - 1
      /\ \A i \in DOMAIN rest : rest[i] = rows[i + 1]
      /\ Head(rows) = rows[1]
      /\ more # {} /\ rows[1] \in more /\ locks \subseteq more
  OBVIOUS
<1>. HIDE DEF rest, more
<1>2. name # "none"
  BY DEF Disciplined
<1>3. CASE name = "refund"
  <2>1. PICK q \in Orders : \/ rows = RefundRows(q) /\ locks = {}
                            \/ rows = <<OrderRow(q)>> /\ locks = {PaymentRow(q)}
    BY <1>3 DEF Disciplined, Refunding
  <2>2. CASE rows = RefundRows(q) /\ locks = {}
    <3>1. rest = <<OrderRow(q)>> /\ more = {PaymentRow(q)}
      BY <2>2 DEF RefundRows, rest, more
    <3>. QED
      BY <1>3, <3>1 DEF Disciplined, Refunding, rest, more
  <2>3. CASE rows = <<OrderRow(q)>> /\ locks = {PaymentRow(q)}
    <3>1. rest = <<>>
      BY <2>3 DEF rest
    <3>. QED
      BY <1>3, <3>1 DEF Disciplined, Refunding, rest, more
  <2>. QED
    BY <2>1, <2>2, <2>3
<1>4. CASE name # "refund"
  <2>1. Paired(rows, locks)
    BY <1>4 DEF Disciplined
  <2>2. Paired(rest, more)
    <3>. SUFFICES ASSUME NEW q \in Orders
                  PROVE  /\ PaymentRow(q) \in more => OrderRow(q) \in more
                         /\ \A i \in DOMAIN rest : rest[i] = PaymentRow(q) =>
                              \/ OrderRow(q) \in more
                              \/ i > 1 /\ rest[i - 1] = OrderRow(q)
      BY DEF Paired
    <3>1. rows[1] = PaymentRow(q) => OrderRow(q) \in locks
      <4>1. 1 \in DOMAIN rows /\ ~ (1 > 1)
        BY <1>1
      <4>. QED
        BY <2>1, <4>1, Zenon DEF Paired
    <3>2. PaymentRow(q) \in locks => OrderRow(q) \in locks
      BY <2>1 DEF Paired
    <3>3. ASSUME NEW i \in DOMAIN rest, rest[i] = PaymentRow(q)
          PROVE  OrderRow(q) \in more \/ (i > 1 /\ rest[i - 1] = OrderRow(q))
      <4>1. i + 1 \in DOMAIN rows /\ rows[i + 1] = PaymentRow(q)
        BY <1>1, <3>3
      <4>2. OrderRow(q) \in locks \/ rows[i] = OrderRow(q)
        <5>1. (i + 1) - 1 = i
          BY <1>1
        <5>. QED
          BY <2>1, <4>1, <5>1 DEF Paired
      <4>3. CASE i = 1
        BY <1>1, <4>2, <4>3
      <4>4. CASE i > 1
        <5>1. i - 1 \in DOMAIN rest /\ (i - 1) + 1 = i
          BY <1>1, <4>4
        <5>2. rest[i - 1] = rows[i]
          BY <1>1, <5>1
        <5>. QED
          BY <1>1, <4>2, <4>4, <5>2
      <4>. QED
        BY <1>1, <4>3, <4>4
    <3>. QED
      BY <1>1, <3>1, <3>2, <3>3 DEF more
  <2>3. name = "tidy" => Tidying(rest, more)
    <3>. SUFFICES ASSUME name = "tidy" PROVE Tidying(rest, more)
      OBVIOUS
    <3>1. Tidying(rows, locks)
      BY DEF Disciplined
    <3>2. \E r \in more : Table(r) = "orders"
      BY <1>1, <3>1 DEF Tidying
    <3>. QED
      BY <1>1, <3>2 DEF Tidying
  <2>4. name # "tidy" => OrderFirst(rest, more)
    <3>. SUFFICES ASSUME name # "tidy", NEW i \in DOMAIN rest
                  PROVE  Table(rest[i]) # "orders"
      BY DEF OrderFirst
    <3>1. i + 1 \in DOMAIN rows /\ i + 1 # 1 /\ rest[i] = rows[i + 1]
      BY <1>1
    <3>. QED
      BY <1>4, <3>1 DEF Disciplined, OrderFirst
  <2>. QED
    BY <1>2, <1>4, <2>2, <2>3, <2>4 DEF Disciplined, rest, more
<1>. QED
  BY <1>3, <1>4

(* A plan that starts with its order suits every operation but a refund.   *)
LEMMA DescendingIsDisciplined ==
  ASSUME NEW o \in Orders, NEW rows, Descending(o, rows)
  PROVE  /\ OrderFirst(rows, {})
         /\ \A locks : (\A q \in Orders : PaymentRow(q) \in locks =>
                                            OrderRow(q) \in locks)
                       => Paired(rows, locks)
         /\ Table(rows[1]) = "orders"
<1>1. OrderFirst(rows, {})
  BY DEF Descending, OrderFirst
<1>2. ASSUME NEW q \in Orders, NEW i \in DOMAIN rows, rows[i] = PaymentRow(q)
      PROVE  i > 1 /\ rows[i - 1] = OrderRow(q)
  <2>1. i = 2 /\ PaymentRow(q) = PaymentRow(o)
    BY <1>2 DEF Descending, Table, PaymentRow
  <2>2. q = o
    BY <2>1 DEF PaymentRow
  <2>. QED
    BY <2>1, <2>2 DEF Descending
<1>3. Table(rows[1]) = "orders"
  BY DEF Descending, Table, OrderRow
<1>. QED
  BY <1>1, <1>2, <1>3 DEF Paired

(* The invariant needs to be looked at for the request that moves.         *)
LEMMA OneMoves ==
  ASSUME TypeOK, IInv, NEW t \in Requests, NEW name, NEW rows, NEW locks,
         op' = [op EXCEPT ![t] = name],
         todo' = [todo EXCEPT ![t] = rows],
         held' = [held EXCEPT ![t] = locks],
         Disciplined(name, rows, locks),
         \A u \in Requests : u # t => locks \cap held[u] = {}
  PROVE  IInv'
<1>1. \A u \in Requests :
        IF u = t THEN op'[u] = name /\ todo'[u] = rows /\ held'[u] = locks
                 ELSE op'[u] = op[u] /\ todo'[u] = todo[u] /\ held'[u] = held[u]
  BY DEF TypeOK
<1>2. Exclusive'
  BY <1>1, Zenon DEF IInv, Exclusive
<1>3. ASSUME NEW u \in Requests
      PROVE  Disciplined(op'[u], todo'[u], held'[u])
  BY <1>1, Zenon DEF IInv
<1>. QED
  BY <1>2, <1>3 DEF IInv, Disciplined, Paired, OrderFirst, Tidying, Refunding,
                    Table, OrderRow, PaymentRow, RefundRows

(* Every step keeps the invariant.                                         *)
LEMMA IInvStep == TypeOK /\ IInv /\ [Next]_vars => IInv'
<1>. SUFFICES ASSUME TypeOK, IInv, [Next]_vars PROVE IInv'
  OBVIOUS
<1>1. ASSUME NEW t \in Requests, op[t] = "none"
      PROVE  todo[t] = <<>> /\ held[t] = {}
  BY <1>1 DEF IInv, Disciplined
<1>2. ASSUME NEW t \in Requests, NEW o \in Orders, NEW name \in DOMAIN Plans(o),
             NEW rows \in Plans(o)[name], Begin(t, o, name, rows)
      PROVE  IInv'
  <2>1. held[t] = {}
    BY <1>1, <1>2 DEF Begin
  <2>2. Disciplined(name, rows, {})
    <3>1. name \in Ops \ {"none", "tidy", "create"}
      BY PlanIs
    <3>2. CASE name = "refund" /\ rows = RefundRows(o)
      BY <3>2 DEF Disciplined, Refunding
    <3>3. CASE name # "refund" /\ Descending(o, rows)
      BY <3>1, <3>3, DescendingIsDisciplined DEF Disciplined
    <3>4. ASSUME NEW p \in Products, name = "edit", rows = <<ProductRow(p)>>
          PROVE  Disciplined(name, rows, {})
      BY <3>4 DEF Disciplined, Paired, OrderFirst, Table, ProductRow, PaymentRow
    <3>. QED
      BY <3>2, <3>3, <3>4, PlanIs
  <2>3. held' = [held EXCEPT ![t] = {}]
    BY <1>2, <2>1 DEF Begin, TypeOK
  <2>4. op' = [op EXCEPT ![t] = name] /\ todo' = [todo EXCEPT ![t] = rows]
    BY <1>2 DEF Begin
  <2>5. \A u \in Requests : u # t => {} \cap held[u] = {}
    OBVIOUS
  <2>. QED
    BY <2>2, <2>3, <2>4, <2>5, OneMoves, Zenon
<1>3. ASSUME NEW t \in Requests, NEW o \in Orders, NEW rows \in ReleaseRows(o),
             Sweep(t, o, rows)
      PROVE  IInv'
  <2>1. Descending(o, rows)
    BY ReleaseDescends
  <2>2. Disciplined("release", rows, {})
    BY <2>1, DescendingIsDisciplined DEF Disciplined
  <2>3. rows \in Seq(Rows) /\ rows # <<>> /\ Head(rows) = OrderRow(o)
    BY <2>1 DEF Descending
  <2>4. Disciplined("release", Tail(rows), {} \cup {Head(rows)})
    BY <2>2, <2>3, NextRow
  <2>5. Disciplined("release", Tail(rows), {OrderRow(o)})
    <3>1. {} \cup {Head(rows)} = {OrderRow(o)}
      BY <2>3
    <3>. QED
      BY <2>4, <3>1
  <2>6. \A u \in Requests : u # t => {OrderRow(o)} \cap held[u] = {}
    BY <1>3 DEF Sweep, Free
  <2>. QED
    BY <1>3, <2>5, <2>6, OneMoves, Zenon DEF Sweep
<1>4. ASSUME NEW t \in Requests, NEW orders \in Left, BeginCreate(t, orders)
      PROVE  IInv'
  <2>1. todo[t] = <<>> /\ held[t] = {}
    BY <1>1, <1>4 DEF BeginCreate
  <2>2. Disciplined("tidy", <<>>, {})
    BY DEF Disciplined, Paired, Tidying
  <2>3. /\ op' = [op EXCEPT ![t] = "tidy"]
        /\ todo' = [todo EXCEPT ![t] = <<>>]
        /\ held' = [held EXCEPT ![t] = {}]
    BY <1>4, <2>1 DEF BeginCreate, TypeOK
  <2>4. \A u \in Requests : u # t => {} \cap held[u] = {}
    OBVIOUS
  <2>. QED
    BY <2>2, <2>3, <2>4, OneMoves, Zenon
<1>5. ASSUME NEW t \in Requests, NEW o \in Orders, NEW rows \in ReleaseRows(o),
             op[t] = "tidy", todo[t] = <<>>, ReleaseNext(t, rows)
      PROVE  IInv'
  <2>. DEFINE s == Head(left[t])
  <2>1. s \in Orders /\ rows \in ReleaseRows(s)
    BY <1>5 DEF ReleaseNext, TypeOK
  <2>2. Descending(s, rows)
    BY <2>1, ReleaseDescends
  <2>3. Paired(<<>>, held[t]) /\ Tidying(<<>>, held[t])
    BY <1>5 DEF IInv, Disciplined
  <2>4. Paired(rows, held[t])
    BY <2>1, <2>2, <2>3, DescendingIsDisciplined DEF Paired
  <2>5. Tidying(rows, held[t])
    BY <2>1, <2>2, <2>3, DescendingIsDisciplined DEF Tidying
  <2>6. Disciplined("tidy", rows, held[t])
    BY <2>4, <2>5 DEF Disciplined
  <2>7. /\ op' = [op EXCEPT ![t] = "tidy"]
        /\ todo' = [todo EXCEPT ![t] = rows]
        /\ held' = [held EXCEPT ![t] = held[t]]
    BY <1>5 DEF ReleaseNext, TypeOK
  <2>8. \A u \in Requests : u # t => held[t] \cap held[u] = {}
    BY DEF IInv, Exclusive
  <2>. QED
    BY <2>6, <2>7, <2>8, OneMoves, Zenon
<1>6. ASSUME NEW t \in Requests, NEW scan \in Scans, LookUp(t, scan)
      PROVE  IInv'
  <2>1. Paired(<<>>, held[t])
    BY <1>6 DEF LookUp, IInv, Disciplined
  <2>2. \A i \in DOMAIN ProductRows(scan) : Table(ProductRows(scan)[i]) = "products"
    BY DEF ProductRows, ProductRow, Table
  <2>3. Paired(ProductRows(scan), held[t])
    <3>1. \A q \in Orders : Table(PaymentRow(q)) = "payments"
      BY DEF Table, PaymentRow
    <3>. QED
      BY <2>1, <2>2, <3>1 DEF Paired
  <2>4. Disciplined("create", ProductRows(scan), held[t])
    BY <2>2, <2>3 DEF Disciplined, OrderFirst
  <2>5. /\ op' = [op EXCEPT ![t] = "create"]
        /\ todo' = [todo EXCEPT ![t] = ProductRows(scan)]
        /\ held' = [held EXCEPT ![t] = held[t]]
    BY <1>6 DEF LookUp, TypeOK
  <2>6. \A u \in Requests : u # t => held[t] \cap held[u] = {}
    BY DEF IInv, Exclusive
  <2>. QED
    BY <2>4, <2>5, <2>6, OneMoves, Zenon
<1>7. ASSUME NEW t \in Requests, Lock(t) PROVE IInv'
  <2>1. todo[t] \in Seq(Rows) /\ todo[t] # <<>> /\ held[t] \in SUBSET Rows
    BY <1>7 DEF Lock, TypeOK
  <2>2. Disciplined(op[t], Tail(todo[t]), held[t] \cup {Head(todo[t])})
    BY <2>1, NextRow DEF IInv
  <2>3. \A u \in Requests : u # t => (held[t] \cup {Head(todo[t])}) \cap held[u] = {}
    BY <1>7 DEF Lock, IInv, Exclusive
  <2>4. /\ op' = [op EXCEPT ![t] = op[t]]
        /\ todo' = [todo EXCEPT ![t] = Tail(todo[t])]
        /\ held' = [held EXCEPT ![t] = held[t] \cup {Head(todo[t])}]
    BY <1>7 DEF Lock, TypeOK
  <2>. QED
    BY <2>2, <2>3, <2>4, OneMoves, Zenon
<1>8. ASSUME NEW t \in Requests, End(t) PROVE IInv'
  <2>1. Disciplined("none", <<>>, {})
    BY DEF Disciplined, Paired, OrderFirst
  <2>2. \A u \in Requests : u # t => {} \cap held[u] = {}
    OBVIOUS
  <2>. QED
    BY <1>8, <2>1, <2>2, OneMoves, Zenon DEF End
<1>9. CASE UNCHANGED vars
  BY <1>9 DEF vars, IInv, Exclusive, Disciplined, Paired, OrderFirst, Tidying,
              Refunding, Table, OrderRow, PaymentRow, RefundRows
<1>. QED
  BY <1>2, <1>3, <1>4, <1>5, <1>6, <1>7, <1>8, <1>9
  DEF Next, Commit, RollBack, ReleaseNext

-----------------------------------------------------------------------------
(* In a circle in which nobody locks out of order ...                      *)
Circle(S) == Deadlocked(S) /\ \A t \in S : ~ OutOfOrder(t)

(* ... nobody whom another waits for is a refund ...                       *)
LEMMA NoRefundIsWaitedFor ==
  ASSUME TypeOK, IInv, NEW S \in SUBSET Requests, Circle(S),
         NEW u \in S, held[u] # {}
  PROVE  op[u] # "refund"
<1>. SUFFICES ASSUME op[u] = "refund" PROVE FALSE
  OBVIOUS
<1>1. todo[u] # <<>>
  BY DEF Circle, Deadlocked, WaitsFor
<1>2. PICK q \in Orders : todo[u] = <<OrderRow(q)>> /\ held[u] = {PaymentRow(q)}
  BY <1>1 DEF IInv, Disciplined, Refunding
<1>3. Table(Head(todo[u])) = "orders" /\ Holds(u, "payments")
  BY <1>2 DEF Holds, Table, OrderRow, PaymentRow
<1>. QED
  BY <1>1, <1>3 DEF Circle, OutOfOrder

(* ... and nobody whom another waits for waits for an order or for         *)
(* payments ...                                                            *)
LEMMA ProductsAreWaitedFor ==
  ASSUME TypeOK, IInv, NEW S \in SUBSET Requests, Circle(S),
         NEW u \in S, held[u] # {}
  PROVE  Table(Head(todo[u])) = "products"
<1>. DEFINE r == Head(todo[u])
<1>1. PICK w \in S : u # w /\ todo[u] # <<>> /\ r \in held[w]
  BY DEF Circle, Deadlocked, WaitsFor
<1>2. /\ todo[u] \in Seq(Rows)
      /\ r = todo[u][1] /\ 1 \in DOMAIN todo[u]
      /\ r \in Rows
  <2>1. todo[u] \in Seq(Rows)
    BY DEF TypeOK
  <2>. QED
    BY <1>1, <2>1
<1>. HIDE DEF r
<1>3. op[u] # "refund" /\ op[w] # "refund"
  BY <1>1, NoRefundIsWaitedFor
<1>4. Table(r) # "orders"
  <2>. SUFFICES ASSUME Table(r) = "orders" PROVE FALSE
    OBVIOUS
  <2>1. CASE op[u] = "tidy"
    <3>1. Holds(u, "orders")
      BY <2>1 DEF IInv, Disciplined, Tidying, Holds
    <3>. QED
      BY <1>1, <2>1, <3>1 DEF Circle, OutOfOrder, r
  <2>2. CASE op[u] # "tidy"
    BY <1>2, <1>3, <2>2 DEF IInv, Disciplined, OrderFirst
  <2>. QED
    BY <2>1, <2>2
<1>5. Table(r) # "payments"
  <2>. SUFFICES ASSUME Table(r) = "payments" PROVE FALSE
    OBVIOUS
  <2>1. PICK q \in Orders : r = PaymentRow(q)
    BY <1>2 DEF Rows, PaymentRow, Table
  <2>2. OrderRow(q) \in held[u]
    <3>1. Paired(todo[u], held[u])
      BY <1>3 DEF IInv, Disciplined
    <3>2. 1 \in DOMAIN todo[u] /\ todo[u][1] = PaymentRow(q) /\ ~ (1 > 1)
      BY <1>2, <2>1
    <3>. QED
      BY <3>1, <3>2, Zenon DEF Paired
  <2>3. OrderRow(q) \in held[w]
    BY <1>1, <1>3, <2>1 DEF IInv, Disciplined, Paired
  <2>. QED
    BY <1>1, <2>2, <2>3 DEF IInv, Exclusive
<1>. QED
  BY <1>2, <1>4, <1>5 DEF Rows, Table, r

(* ... and who holds the product that another waits for waits for a second *)
(* one: there is no such circle.                                           *)
LEMMA NoCircle ==
  ASSUME TypeOK, IInv, NEW S \in SUBSET Requests, Circle(S)
  PROVE  FALSE
<1>1. ASSUME NEW t \in S
      PROVE  \E u \in S : todo[t] # <<>> /\ Head(todo[t]) \in held[u]
  BY DEF Circle, Deadlocked, WaitsFor
<1>2. PICK t \in S : TRUE
  BY DEF Circle, Deadlocked
<1>3. PICK u \in S : Head(todo[t]) \in held[u]
  BY <1>1
<1>4. Table(Head(todo[u])) = "products"
  BY <1>3, ProductsAreWaitedFor
<1>5. PICK w \in S : Head(todo[u]) \in held[w]
  BY <1>1
<1>6. Table(Head(todo[w])) = "products" /\ Holds(w, "products") /\ todo[w] # <<>>
  BY <1>1, <1>4, <1>5, ProductsAreWaitedFor DEF Holds
<1>. QED
  BY <1>6 DEF Circle, OutOfOrder

(* Whatever the requests, orders, lines and plans of the database: a       *)
(* circle of waiting requests contains a refund that wants its order, a    *)
(* create that goes on to the next unpaid order, or a request that holds a *)
(* product and wants another.  Confirm, webhook, cancel and release of     *)
(* orders with one line never deadlock among themselves                    *)
(* (payment_service.py:123, 224).                                          *)
THEOREM OnlyOutOfOrderDeadlocks == Spec => []DeadlocksAreOutOfOrder
<1>1. Init => IInv
  BY DEF Init, IInv, Exclusive, Disciplined, Paired, OrderFirst
<1>2. TypeOK /\ IInv => DeadlocksAreOutOfOrder
  BY NoCircle DEF DeadlocksAreOutOfOrder, Circle
<1>. QED
  BY <1>1, <1>2, TypeCorrect, IInvStep, PTL DEF Spec
=============================================================================
