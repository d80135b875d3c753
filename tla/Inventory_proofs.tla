-------------------------- MODULE Inventory_proofs --------------------------
(***************************************************************************)
(* The stock, proved for any number of products, orders and lines, any     *)
(* stocks and any edits of the admins.  The loops of the model are         *)
(* recursive functions over the numbers 0..n, which module Lemmas is       *)
(* about.                                                                  *)
(***************************************************************************)
EXTENDS Inventory, Lemmas

Rows == [Products -> [stock : Int, status : ProductStatus]]

-----------------------------------------------------------------------------
(* One line keeps the rows rows.                                           *)
LEMMA OneLine ==
  ASSUME NEW rows \in Rows, NEW line \in Line
  PROVE  Decremented(rows, line) \in Rows /\ Incremented(rows, line) \in Rows
  BY SMTT(30) DEF Decremented, Incremented, Rows, Line, ProductStatus

(* The lines of a basket are taken out one after the other.                *)
LEMMA TakenOutRuns ==
  ASSUME NEW rows \in Rows, NEW lines \in Seq(Line)
  PROVE  \E f \in [0..Len(lines) -> Rows] :
           /\ f[0] = rows
           /\ \A i \in 1..Len(lines) : f[i] = Decremented(f[i - 1], lines[i])
           /\ TakenOut(rows, lines) = f[Len(lines)]
<1>. DEFINE n == Len(lines)
            F == CHOOSE f : f = [i \in 0..n |-> IF i = 0 THEN rows
                                               ELSE Decremented(f[i - 1], lines[i])]
            step == [i \in 1..n |-> [r \in Rows |-> Decremented(r, lines[i])]]
<1>1. n \in Nat /\ \A i \in 1..n : lines[i] \in Line
  OBVIOUS
<1>2. TakenOut(rows, lines) = F[n]
  BY DEF TakenOut
<1>. HIDE DEF n
<1>3. PICK g \in [0..n -> Rows] : g[0] = rows /\ \A i \in 1..n : g[i] = step[i][g[i - 1]]
  <2>1. step \in [1..n -> [Rows -> Rows]]
    BY <1>1, OneLine
  <2>2. rows \in Rows /\ n \in Nat
    BY <1>1
  <2>. HIDE DEF step
  <2>3. Runs(Rows, rows, n, step)
    BY <2>1, <2>2, LoopRuns
  <2>. QED
    BY <2>3 DEF Runs
<1>4. \A i \in 1..n : g[i] = Decremented(g[i - 1], lines[i])
  <2>1. \A i \in 1..n : i - 1 \in 0..n
    BY <1>1
  <2>. QED
    BY <1>1, <1>3, <2>1
<1>5. g = [i \in 0..n |-> IF i = 0 THEN rows ELSE Decremented(g[i - 1], lines[i])]
  <2>1. \A i \in 0..n : i # 0 => i \in 1..n
    BY <1>1
  <2>. QED
    BY <1>3, <1>4, <2>1
<1>6. F = [i \in 0..n |-> IF i = 0 THEN rows ELSE Decremented(F[i - 1], lines[i])]
  BY <1>5
<1>. HIDE DEF F
<1>7. /\ F[0] = rows
      /\ \A i \in 1..n : F[i] = Decremented(F[i - 1], lines[i])
  BY <1>1, <1>6
<1>8. \A i \in 0..n : F[i] \in Rows
  <2>. DEFINE T == {i \in 0..n : F[i] \in Rows}
  <2>1. 0 \in T /\ \A i \in 1..n : i - 1 \in T => i \in T
    BY <1>1, <1>7, OneLine
  <2>. HIDE DEF T
  <2>2. \A i \in 0..n : i \in T
    BY <1>1, <2>1, UpTo
  <2>. QED
    BY <2>2 DEF T
<1>9. F \in [0..n -> Rows]
  BY <1>6, <1>8
<1>. QED
  BY <1>2, <1>7, <1>9 DEF n

(* ... and put back one after the other.                                   *)
LEMMA PutBackRuns ==
  ASSUME NEW rows \in Rows, NEW lines \in Seq(Line)
  PROVE  \E f \in [0..Len(lines) -> Rows] :
           /\ f[0] = rows
           /\ \A i \in 1..Len(lines) : f[i] = Incremented(f[i - 1], lines[i])
           /\ PutBack(rows, lines) = f[Len(lines)]
<1>. DEFINE n == Len(lines)
            F == CHOOSE f : f = [i \in 0..n |-> IF i = 0 THEN rows
                                               ELSE Incremented(f[i - 1], lines[i])]
            step == [i \in 1..n |-> [r \in Rows |-> Incremented(r, lines[i])]]
<1>1. n \in Nat /\ \A i \in 1..n : lines[i] \in Line
  OBVIOUS
<1>2. PutBack(rows, lines) = F[n]
  BY DEF PutBack
<1>. HIDE DEF n
<1>3. PICK g \in [0..n -> Rows] : g[0] = rows /\ \A i \in 1..n : g[i] = step[i][g[i - 1]]
  <2>1. step \in [1..n -> [Rows -> Rows]]
    BY <1>1, OneLine
  <2>2. rows \in Rows /\ n \in Nat
    BY <1>1
  <2>. HIDE DEF step
  <2>3. Runs(Rows, rows, n, step)
    BY <2>1, <2>2, LoopRuns
  <2>. QED
    BY <2>3 DEF Runs
<1>4. \A i \in 1..n : g[i] = Incremented(g[i - 1], lines[i])
  <2>1. \A i \in 1..n : i - 1 \in 0..n
    BY <1>1
  <2>. QED
    BY <1>1, <1>3, <2>1
<1>5. g = [i \in 0..n |-> IF i = 0 THEN rows ELSE Incremented(g[i - 1], lines[i])]
  <2>1. \A i \in 0..n : i # 0 => i \in 1..n
    BY <1>1
  <2>. QED
    BY <1>3, <1>4, <2>1
<1>6. F = [i \in 0..n |-> IF i = 0 THEN rows ELSE Incremented(F[i - 1], lines[i])]
  BY <1>5
<1>. HIDE DEF F
<1>7. /\ F[0] = rows
      /\ \A i \in 1..n : F[i] = Incremented(F[i - 1], lines[i])
  BY <1>1, <1>6
<1>8. \A i \in 0..n : F[i] \in Rows
  <2>. DEFINE T == {i \in 0..n : F[i] \in Rows}
  <2>1. 0 \in T /\ \A i \in 1..n : i - 1 \in T => i \in T
    BY <1>1, <1>7, OneLine
  <2>. HIDE DEF T
  <2>2. \A i \in 0..n : i \in T
    BY <1>1, <2>1, UpTo
  <2>. QED
    BY <2>2 DEF T
<1>9. F \in [0..n -> Rows]
  BY <1>6, <1>8
<1>. QED
  BY <1>2, <1>7, <1>9 DEF n

(* Every order is listed, once.                                            *)
LEMMA ListedIs ==
  /\ Cardinality(Orders) \in Nat
  /\ Listed \in [1..Cardinality(Orders) -> Orders]
  /\ \A o \in Orders : \E n \in 1..Cardinality(Orders) : Listed[n] = o
  /\ \A m, n \in 1..Cardinality(Orders) : Listed[m] = Listed[n] => m = n
<1>. DEFINE c == Cardinality(Orders)
<1>1. c \in Nat /\ ExistsBijection(1..c, Orders)
  BY InventoryAssumption, FS_CardinalityType DEF InventoryAssumption
<1>2. \E seq \in [1..c -> Orders] : \A o \in Orders : \E n \in DOMAIN seq : seq[n] = o
  BY <1>1 DEF ExistsBijection, Bijection, Surjection
<1>3. /\ Listed \in [1..c -> Orders]
      /\ \A o \in Orders : \E n \in DOMAIN Listed : Listed[n] = o
  BY <1>2, Zenon DEF Listed
<1>4. Listed \in Surjection(1..c, Orders)
  BY <1>3 DEF Surjection
<1>5. Listed \in Injection(1..c, Orders)
  <2>1. IsFiniteSet(1..c) /\ Cardinality(1..c) = c
    BY <1>1, FS_Interval
  <2>. QED
    BY <1>4, <2>1, FS_SurjSameCardinalityImpliesInj
<1>. QED
  BY <1>1, <1>3, <1>5 DEF Injection, IsInjective

(* A loop that adds up n numbers ...                                       *)
SumsUp(f, a, n) == f = [i \in 0..n |-> IF i = 0 THEN 0 ELSE f[i - 1] + a[i]]

(* ... runs,                                                               *)
LEMMA SumRuns ==
  ASSUME NEW n \in Nat, NEW a \in [1..n -> Nat]
  PROVE  \E f : SumsUp(f, a, n)
<1>. DEFINE step == [i \in 1..n |-> [m \in Nat |-> m + a[i]]]
<1>1. PICK g \in [0..n -> Nat] : g[0] = 0 /\ \A i \in 1..n : g[i] = step[i][g[i - 1]]
  <2>1. step \in [1..n -> [Nat -> Nat]]
    OBVIOUS
  <2>. HIDE DEF step
  <2>2. Runs(Nat, 0, n, step)
    BY <2>1, LoopRuns
  <2>. QED
    BY <2>2 DEF Runs
<1>2. \A i \in 1..n : i - 1 \in 0..n
  OBVIOUS
<1>3. \A i \in 1..n : g[i] = g[i - 1] + a[i]
  BY <1>1, <1>2
<1>4. \A i \in 0..n : i # 0 => i \in 1..n
  OBVIOUS
<1>5. g = [i \in 0..n |-> IF i = 0 THEN 0 ELSE g[i - 1] + a[i]]
  BY <1>1, <1>3, <1>4
<1>. QED
  BY <1>5 DEF SumsUp

(* and its values are partial sums.                                        *)
LEMMA SumIs ==
  ASSUME NEW n \in Nat, NEW a \in [1..n -> Nat], NEW F, SumsUp(F, a, n)
  PROVE  /\ F \in [0..n -> Nat] /\ F[0] = 0
         /\ \A i \in 1..n : F[i] = F[i - 1] + a[i]
<1>1. F[0] = 0 /\ \A i \in 1..n : F[i] = F[i - 1] + a[i]
  BY DEF SumsUp
<1>2. \A i \in 0..n : F[i] \in Nat
  <2>. DEFINE T == {i \in 0..n : F[i] \in Nat}
  <2>1. 0 \in T
    BY <1>1
  <2>2. ASSUME NEW i \in 1..n, i - 1 \in T PROVE i \in T
    BY <1>1, <2>2
  <2>. HIDE DEF T
  <2>3. \A i \in 0..n : i \in T
    BY <2>1, <2>2, UpTo
  <2>. QED
    BY <2>3 DEF T
<1>. QED
  BY <1>1, <1>2 DEF SumsUp

(* What the lines ask for of p is summed up line by line.                  *)
LEMMA AskedRuns ==
  ASSUME NEW lines \in Seq(Line), NEW p \in Products
  PROVE  \E f \in [0..Len(lines) -> Nat] :
           /\ f[0] = 0
           /\ \A i \in 1..Len(lines) :
                f[i] = f[i - 1] + IF lines[i].product = p THEN lines[i].quantity ELSE 0
           /\ Asked(lines, p) = f[Len(lines)]
<1>. DEFINE n == Len(lines)
            a == [i \in 1..n |-> IF lines[i].product = p THEN lines[i].quantity ELSE 0]
            F == CHOOSE f : f = [i \in 0..n |-> IF i = 0 THEN 0 ELSE f[i - 1] +
                                   IF lines[i].product = p THEN lines[i].quantity ELSE 0]
<1>1. n \in Nat /\ \A i \in 1..n : lines[i] \in Line
  OBVIOUS
<1>2. Asked(lines, p) = F[n]
  BY DEF Asked
<1>. HIDE DEF n
<1>3. a \in [1..n -> Nat]
  BY <1>1 DEF Line
<1>4. PICK g : SumsUp(g, a, n)
  <2>. HIDE DEF a
  <2>. QED
    BY <1>1, <1>3, SumRuns
<1>5. \A i \in 0..n : i # 0 => i \in 1..n
  BY <1>1
<1>6. \A i \in 1..n : a[i] = IF lines[i].product = p THEN lines[i].quantity ELSE 0
  OBVIOUS
<1>. HIDE DEF a
<1>7. g = [i \in 0..n |-> IF i = 0 THEN 0 ELSE g[i - 1] +
                          IF lines[i].product = p THEN lines[i].quantity ELSE 0]
  BY <1>4, <1>5, <1>6 DEF SumsUp
<1>8. F = [i \in 0..n |-> IF i = 0 THEN 0 ELSE F[i - 1] +
                          IF lines[i].product = p THEN lines[i].quantity ELSE 0]
  BY <1>7
<1>. HIDE DEF F
<1>9. SumsUp(F, a, n)
  BY <1>5, <1>6, <1>8 DEF SumsUp
<1>10. F \in [0..n -> Nat] /\ F[0] = 0 /\ \A i \in 1..n : F[i] = F[i - 1] + a[i]
  BY <1>1, <1>3, <1>9, SumIs
<1>. QED
  BY <1>2, <1>6, <1>10 DEF n

(* So is a sum over the orders.                                            *)
LEMMA SumOverRuns ==
  ASSUME NEW h \in [Orders -> Nat]
  PROVE  \E f \in [0..Cardinality(Orders) -> Nat] :
           /\ f[0] = 0
           /\ \A i \in 1..Cardinality(Orders) : f[i] = f[i - 1] + h[Listed[i]]
           /\ SumOver(h) = f[Cardinality(Orders)]
<1>. DEFINE n == Cardinality(Orders)
            a == [i \in 1..n |-> h[Listed[i]]]
            F == CHOOSE f : f = [i \in 0..n |-> IF i = 0 THEN 0 ELSE f[i - 1] + h[Listed[i]]]
<1>1. n \in Nat /\ \A i \in 1..n : Listed[i] \in Orders
  BY ListedIs
<1>2. SumOver(h) = F[n]
  BY DEF SumOver
<1>. HIDE DEF n
<1>3. a \in [1..n -> Nat]
  BY <1>1
<1>4. PICK g : SumsUp(g, a, n)
  <2>. HIDE DEF a
  <2>. QED
    BY <1>1, <1>3, SumRuns
<1>5. \A i \in 0..n : i # 0 => i \in 1..n
  BY <1>1
<1>6. \A i \in 1..n : a[i] = h[Listed[i]]
  OBVIOUS
<1>. HIDE DEF a
<1>7. g = [i \in 0..n |-> IF i = 0 THEN 0 ELSE g[i - 1] + h[Listed[i]]]
  BY <1>4, <1>5, <1>6 DEF SumsUp
<1>8. F = [i \in 0..n |-> IF i = 0 THEN 0 ELSE F[i - 1] + h[Listed[i]]]
  BY <1>7
<1>. HIDE DEF F
<1>9. SumsUp(F, a, n)
  BY <1>5, <1>6, <1>8 DEF SumsUp
<1>10. F \in [0..n -> Nat] /\ F[0] = 0 /\ \A i \in 1..n : F[i] = F[i - 1] + a[i]
  BY <1>1, <1>3, <1>9, SumIs
<1>. QED
  BY <1>2, <1>6, <1>10 DEF n

(* Sums of equal pairs are equal.                                          *)
LEMMA SumsBalance ==
  ASSUME NEW g \in [Orders -> Nat], NEW a \in [Orders -> Nat],
         NEW h \in [Orders -> Nat], NEW b \in [Orders -> Nat],
         \A o \in Orders : g[o] + a[o] = h[o] + b[o]
  PROVE  SumOver(g) + SumOver(a) = SumOver(h) + SumOver(b)
<1>. DEFINE n == Cardinality(Orders)
<1>1. n \in Nat /\ \A i \in 1..n : Listed[i] \in Orders
  BY ListedIs
<1>2. PICK sg \in [0..n -> Nat] :
        /\ sg[0] = 0 /\ \A i \in 1..n : sg[i] = sg[i - 1] + g[Listed[i]]
        /\ SumOver(g) = sg[n]
  BY SumOverRuns
<1>3. PICK sa \in [0..n -> Nat] :
        /\ sa[0] = 0 /\ \A i \in 1..n : sa[i] = sa[i - 1] + a[Listed[i]]
        /\ SumOver(a) = sa[n]
  BY SumOverRuns
<1>4. PICK sh \in [0..n -> Nat] :
        /\ sh[0] = 0 /\ \A i \in 1..n : sh[i] = sh[i - 1] + h[Listed[i]]
        /\ SumOver(h) = sh[n]
  BY SumOverRuns
<1>5. PICK sb \in [0..n -> Nat] :
        /\ sb[0] = 0 /\ \A i \in 1..n : sb[i] = sb[i - 1] + b[Listed[i]]
        /\ SumOver(b) = sb[n]
  BY SumOverRuns
<1>. HIDE DEF n
<1>. DEFINE T == {i \in 0..n : sg[i] + sa[i] = sh[i] + sb[i]}
<1>6. 0 \in T
  BY <1>1, <1>2, <1>3, <1>4, <1>5
<1>7. ASSUME NEW i \in 1..n, i - 1 \in T PROVE i \in T
  <2>1. i \in 0..n /\ i - 1 \in 0..n /\ Listed[i] \in Orders
    BY <1>1
  <2>2. g[Listed[i]] + a[Listed[i]] = h[Listed[i]] + b[Listed[i]]
    BY <2>1
  <2>3. /\ g[Listed[i]] \in Nat /\ a[Listed[i]] \in Nat
        /\ h[Listed[i]] \in Nat /\ b[Listed[i]] \in Nat
        /\ sg[i - 1] \in Nat /\ sa[i - 1] \in Nat /\ sh[i - 1] \in Nat /\ sb[i - 1] \in Nat
    BY <2>1
  <2>4. sg[i - 1] + sa[i - 1] = sh[i - 1] + sb[i - 1]
    BY <1>7
  <2>5. /\ sg[i] = sg[i - 1] + g[Listed[i]] /\ sa[i] = sa[i - 1] + a[Listed[i]]
        /\ sh[i] = sh[i - 1] + h[Listed[i]] /\ sb[i] = sb[i - 1] + b[Listed[i]]
    BY <1>2, <1>3, <1>4, <1>5
  <2>6. sg[i] + sa[i] = (sg[i - 1] + sa[i - 1]) + (g[Listed[i]] + a[Listed[i]])
    BY <2>3, <2>5
  <2>7. sh[i] + sb[i] = (sh[i - 1] + sb[i - 1]) + (h[Listed[i]] + b[Listed[i]])
    BY <2>3, <2>5
  <2>8. sg[i] + sa[i] = sh[i] + sb[i]
    BY <2>2, <2>4, <2>6, <2>7
  <2>. QED
    BY <2>1, <2>8
<1>. HIDE DEF T
<1>8. \A i \in 0..n : i \in T
  BY <1>1, <1>6, <1>7, UpTo
<1>9. n \in T
  BY <1>1, <1>8
<1>. QED
  BY <1>2, <1>3, <1>4, <1>5, <1>9 DEF T

(* The sum of one amount and nothing else is this amount.                  *)
LEMMA SingleSum ==
  ASSUME NEW o \in Orders, NEW m \in Nat
  PROVE  SumOver([p \in Orders |-> IF p = o THEN m ELSE 0]) = m
<1>. DEFINE n == Cardinality(Orders)
            h == [p \in Orders |-> IF p = o THEN m ELSE 0]
<1>1. PICK f \in [0..n -> Nat] :
        /\ f[0] = 0 /\ \A i \in 1..n : f[i] = f[i - 1] + h[Listed[i]]
        /\ SumOver(h) = f[n]
  <2>1. h \in [Orders -> Nat]
    OBVIOUS
  <2>. HIDE DEF h
  <2>. QED
    BY <2>1, SumOverRuns
<1>2. PICK k \in 1..n : Listed[k] = o
  BY ListedIs
<1>. HIDE DEF n
<1>3. n \in Nat /\ \A i \in 1..n : h[Listed[i]] = IF i = k THEN m ELSE 0
  BY <1>2, ListedIs DEF n
<1>. DEFINE T == {i \in 0..n : f[i] = IF i < k THEN 0 ELSE m}
<1>. HIDE DEF h
<1>4. 0 \in T
  BY <1>1, <1>2, <1>3
<1>5. ASSUME NEW i \in 1..n, i - 1 \in T PROVE i \in T
  <2>1. f[i] = f[i - 1] + IF i = k THEN m ELSE 0
    BY <1>1, <1>3
  <2>2. f[i - 1] = IF i - 1 < k THEN 0 ELSE m
    BY <1>5
  <2>3. i \in 0..n /\ k \in Int
    BY <1>2, <1>3
  <2>. QED
    BY <2>1, <2>2, <2>3
<1>. HIDE DEF T
<1>6. \A i \in 0..n : i \in T
  BY <1>3, <1>4, <1>5, UpTo
<1>7. n \in T /\ ~ (n < k)
  BY <1>2, <1>3, <1>6
<1>. QED
  BY <1>1, <1>7 DEF T, h

-----------------------------------------------------------------------------
(* What an update may do to a row that is not oversold: it stays so, and   *)
(* if anything changes, the status follows the stock.                      *)
RowMatches(row) ==
  \/ row.status = "INACTIVE"
  \/ row.status = "ACTIVE" /\ row.stock > 0
  \/ row.status = "SOLD_OUT" /\ row.stock <= 0

Sound(before, after) ==
  before.stock >= 0 => after.stock >= 0 /\ (after = before \/ RowMatches(after))

(* Putting a line back is such an update.                                  *)
LEMMA OneLineBack ==
  ASSUME NEW rows \in Rows, NEW line \in Line, NEW p \in Products
  PROVE  /\ Incremented(rows, line)[p].stock =
              rows[p].stock + IF line.product = p THEN line.quantity ELSE 0
         /\ Sound(rows[p], Incremented(rows, line)[p])
<1>1. /\ rows[p] \in [stock : Int, status : ProductStatus]
      /\ line.product \in Products /\ line.quantity \in Nat /\ line.quantity > 0
  BY DEF Rows, Line
<1>2. DOMAIN rows = Products
  BY DEF Rows
<1>3. CASE line.product = p
  <2>. DEFINE left == rows[p].stock + line.quantity
  <2>1. Incremented(rows, line)[p] =
          [stock |-> left, status |-> IF left > 0 /\ rows[p].status = "SOLD_OUT"
                                        THEN "ACTIVE" ELSE rows[p].status]
    BY <1>1, <1>2, <1>3 DEF Incremented
  <2>. QED
    BY <1>1, <1>3, <2>1 DEF Sound, RowMatches, ProductStatus
<1>4. CASE line.product # p
  <2>1. Incremented(rows, line)[p] = rows[p]
    BY <1>1, <1>2, <1>4 DEF Incremented
  <2>. QED
    BY <1>1, <1>4, <2>1 DEF Sound
<1>. QED
  BY <1>3, <1>4

(* So is putting back all of them, which adds what they asked for.         *)
LEMMA PutBackIs ==
  ASSUME NEW rows \in Rows, NEW lines \in Seq(Line)
  PROVE  /\ PutBack(rows, lines) \in Rows
         /\ \A p \in Products :
              /\ PutBack(rows, lines)[p].stock = rows[p].stock + Asked(lines, p)
              /\ Sound(rows[p], PutBack(rows, lines)[p])
<1>. DEFINE n == Len(lines)
<1>1. n \in Nat /\ \A i \in 1..n : lines[i] \in Line
  OBVIOUS
<1>2. PICK f \in [0..n -> Rows] :
        /\ f[0] = rows
        /\ \A i \in 1..n : f[i] = Incremented(f[i - 1], lines[i])
        /\ PutBack(rows, lines) = f[n]
  BY PutBackRuns
<1>3. ASSUME NEW p \in Products
      PROVE  f[n][p].stock = rows[p].stock + Asked(lines, p) /\ Sound(rows[p], f[n][p])
  <2>1. PICK s \in [0..n -> Nat] :
          /\ s[0] = 0
          /\ \A i \in 1..n :
               s[i] = s[i - 1] + IF lines[i].product = p THEN lines[i].quantity ELSE 0
          /\ Asked(lines, p) = s[n]
    BY AskedRuns
  <2>. HIDE DEF n
  <2>. DEFINE T == {i \in 0..n : /\ f[i][p].stock = rows[p].stock + s[i]
                                 /\ Sound(rows[p], f[i][p])}
  <2>2. 0 \in T
    <3>1. rows[p].stock \in Int
      BY DEF Rows
    <3>. QED
      BY <1>1, <1>2, <2>1, <3>1 DEF Sound
  <2>3. ASSUME NEW i \in 1..n, i - 1 \in T PROVE i \in T
    <3>1. i \in 0..n /\ i - 1 \in 0..n /\ f[i - 1] \in Rows /\ lines[i] \in Line
      BY <1>1
    <3>2. f[i] = Incremented(f[i - 1], lines[i])
      BY <1>2
    <3>. DEFINE more == IF lines[i].product = p THEN lines[i].quantity ELSE 0
    <3>3. /\ f[i][p].stock = f[i - 1][p].stock + more
          /\ Sound(f[i - 1][p], f[i][p])
      BY <3>1, <3>2, OneLineBack
    <3>4. s[i] = s[i - 1] + more
      BY <2>1
    <3>5. more \in Nat /\ s[i - 1] \in Nat /\ rows[p].stock \in Int
      BY <3>1 DEF Line, Rows
    <3>. HIDE DEF more
    <3>6. f[i - 1][p].stock = rows[p].stock + s[i - 1] /\ Sound(rows[p], f[i - 1][p])
      BY <2>3
    <3>7. f[i][p].stock = rows[p].stock + s[i]
      BY <3>3, <3>4, <3>5, <3>6
    <3>8. Sound(rows[p], f[i][p])
      BY <3>3, <3>6 DEF Sound
    <3>. QED
      BY <3>1, <3>7, <3>8
  <2>. HIDE DEF T
  <2>4. \A i \in 0..n : i \in T
    BY <1>1, <2>2, <2>3, UpTo
  <2>5. n \in T
    BY <1>1, <2>4
  <2>. QED
    BY <2>1, <2>5 DEF T
<1>4. f[n] \in Rows
  BY <1>1
<1>. QED
  BY <1>2, <1>3, <1>4

(* So is releasing a set of orders, which adds what these have asked for.  *)
Released(S, p) == [o \in Orders |-> IF o \in S THEN Asked(items[o], p) ELSE 0]

LEMMA ReleasedType ==
  ASSUME items \in [Orders -> Seq(Line)], NEW S, NEW p \in Products
  PROVE  Released(S, p) \in [Orders -> Nat]
<1>1. ASSUME NEW o \in Orders PROVE Asked(items[o], p) \in Nat
  <2>1. items[o] \in Seq(Line) /\ Len(items[o]) \in 0..Len(items[o])
    OBVIOUS
  <2>. QED
    BY <2>1, AskedRuns
<1>. QED
  BY <1>1 DEF Released

LEMMA AllPutBackRuns ==
  ASSUME items \in [Orders -> Seq(Line)], NEW rows \in Rows, NEW S
  PROVE  \E f \in [0..Cardinality(Orders) -> Rows] :
           /\ f[0] = rows
           /\ \A i \in 1..Cardinality(Orders) :
                f[i] = IF Listed[i] \in S THEN PutBack(f[i - 1], items[Listed[i]])
                       ELSE f[i - 1]
           /\ AllPutBack(rows, S) = f[Cardinality(Orders)]
<1>. DEFINE n == Cardinality(Orders)
            Step(r, i) == IF Listed[i] \in S THEN PutBack(r, items[Listed[i]]) ELSE r
            F == CHOOSE f : f = [i \in 0..n |->
                   IF i = 0 THEN rows
                   ELSE IF Listed[i] \in S THEN PutBack(f[i - 1], items[Listed[i]])
                   ELSE f[i - 1]]
            step == [i \in 1..n |-> [r \in Rows |-> Step(r, i)]]
<1>1. n \in Nat /\ \A i \in 1..n : Listed[i] \in Orders
  BY ListedIs
<1>2. AllPutBack(rows, S) = F[n]
  BY DEF AllPutBack
<1>. HIDE DEF n
<1>3. \A i \in 1..n, r \in Rows : Step(r, i) \in Rows
  BY <1>1, PutBackIs
<1>4. \A i \in 1..n : i - 1 \in 0..n
  BY <1>1
<1>5. \A i \in 0..n : i # 0 => i \in 1..n
  BY <1>1
<1>6. PICK g \in [0..n -> Rows] : g[0] = rows /\ \A i \in 1..n : g[i] = step[i][g[i - 1]]
  <2>1. step \in [1..n -> [Rows -> Rows]]
    BY <1>3
  <2>. HIDE DEF step
  <2>2. Runs(Rows, rows, n, step)
    BY <1>1, <2>1, LoopRuns
  <2>. QED
    BY <2>2 DEF Runs
<1>7. \A i \in 1..n : g[i] = Step(g[i - 1], i)
  <2>1. \A i \in 1..n, r \in Rows : step[i][r] = Step(r, i)
    OBVIOUS
  <2>. HIDE DEF step, Step
  <2>. QED
    BY <1>4, <1>6, <2>1
<1>8. g = [i \in 0..n |->
             IF i = 0 THEN rows
             ELSE IF Listed[i] \in S THEN PutBack(g[i - 1], items[Listed[i]])
             ELSE g[i - 1]]
  BY <1>5, <1>6, <1>7
<1>9. F = [i \in 0..n |->
             IF i = 0 THEN rows
             ELSE IF Listed[i] \in S THEN PutBack(F[i - 1], items[Listed[i]])
             ELSE F[i - 1]]
  BY <1>8
<1>. HIDE DEF F
<1>10. F[0] = rows /\ \A i \in 1..n : F[i] = Step(F[i - 1], i)
  BY <1>1, <1>9
<1>11. \A i \in 0..n : F[i] \in Rows
  <2>. DEFINE T == {i \in 0..n : F[i] \in Rows}
  <2>1. 0 \in T
    BY <1>1, <1>10
  <2>2. ASSUME NEW i \in 1..n, i - 1 \in T PROVE i \in T
    <3>. HIDE DEF Step
    <3>1. i \in 0..n
      BY <1>1
    <3>. QED
      BY <1>3, <1>10, <2>2, <3>1
  <2>. HIDE DEF T
  <2>3. \A i \in 0..n : i \in T
    BY <1>1, <2>1, <2>2, UpTo
  <2>. QED
    BY <2>3 DEF T
<1>12. F \in [0..n -> Rows]
  BY <1>9, <1>11
<1>. QED
  BY <1>2, <1>10, <1>12 DEF n

LEMMA AllPutBackIs ==
  ASSUME items \in [Orders -> Seq(Line)], NEW rows \in Rows, NEW S
  PROVE  /\ AllPutBack(rows, S) \in Rows
         /\ \A p \in Products :
              /\ AllPutBack(rows, S)[p].stock = rows[p].stock + SumOver(Released(S, p))
              /\ Sound(rows[p], AllPutBack(rows, S)[p])
<1>. DEFINE n == Cardinality(Orders)
<1>1. n \in Nat /\ \A i \in 1..n : Listed[i] \in Orders
  BY ListedIs
<1>2. PICK f \in [0..n -> Rows] :
        /\ f[0] = rows
        /\ \A i \in 1..n :
             f[i] = IF Listed[i] \in S THEN PutBack(f[i - 1], items[Listed[i]]) ELSE f[i - 1]
        /\ AllPutBack(rows, S) = f[n]
  BY AllPutBackRuns
<1>3. ASSUME NEW p \in Products
      PROVE  /\ f[n][p].stock = rows[p].stock + SumOver(Released(S, p))
             /\ Sound(rows[p], f[n][p])
  <2>1. Released(S, p) \in [Orders -> Nat]
    BY ReleasedType
  <2>2. PICK s \in [0..n -> Nat] :
          /\ s[0] = 0
          /\ \A i \in 1..n : s[i] = s[i - 1] + Released(S, p)[Listed[i]]
          /\ SumOver(Released(S, p)) = s[n]
    BY <2>1, SumOverRuns
  <2>. HIDE DEF n
  <2>. DEFINE T == {i \in 0..n : /\ f[i][p].stock = rows[p].stock + s[i]
                                 /\ Sound(rows[p], f[i][p])}
  <2>3. 0 \in T
    <3>1. rows[p].stock \in Int
      BY DEF Rows
    <3>. QED
      BY <1>1, <1>2, <2>2, <3>1 DEF Sound
  <2>4. ASSUME NEW i \in 1..n, i - 1 \in T PROVE i \in T
    <3>. DEFINE more == Released(S, p)[Listed[i]]
    <3>1. i \in 0..n /\ i - 1 \in 0..n /\ f[i - 1] \in Rows /\ Listed[i] \in Orders
      BY <1>1
    <3>2. more = IF Listed[i] \in S THEN Asked(items[Listed[i]], p) ELSE 0
      BY <3>1 DEF Released
    <3>3. more \in Nat /\ s[i - 1] \in Nat /\ rows[p].stock \in Int /\ f[i - 1][p].stock \in Int
      BY <2>1, <3>1 DEF Rows
    <3>4. s[i] = s[i - 1] + more
      BY <2>2
    <3>. HIDE DEF more
    <3>5. f[i][p].stock = f[i - 1][p].stock + more /\ Sound(f[i - 1][p], f[i][p])
      <4>1. CASE Listed[i] \in S
        <5>1. f[i] = PutBack(f[i - 1], items[Listed[i]])
          BY <1>2, <4>1
        <5>2. items[Listed[i]] \in Seq(Line)
          BY <3>1
        <5>. QED
          BY <3>1, <3>2, <4>1, <5>1, <5>2, PutBackIs
      <4>2. CASE Listed[i] \notin S
        <5>1. f[i] = f[i - 1]
          BY <1>2, <4>2
        <5>. QED
          BY <3>2, <3>3, <4>2, <5>1 DEF Sound
      <4>. QED
        BY <4>1, <4>2
    <3>6. f[i - 1][p].stock = rows[p].stock + s[i - 1] /\ Sound(rows[p], f[i - 1][p])
      BY <2>4
    <3>7. f[i][p].stock = rows[p].stock + s[i]
      BY <3>3, <3>4, <3>5, <3>6
    <3>8. Sound(rows[p], f[i][p])
      BY <3>5, <3>6 DEF Sound
    <3>. QED
      BY <3>1, <3>7, <3>8
  <2>. HIDE DEF T
  <2>5. \A i \in 0..n : i \in T
    BY <1>1, <2>3, <2>4, UpTo
  <2>6. n \in T
    BY <1>1, <2>5
  <2>. QED
    BY <2>2, <2>6 DEF T
<1>4. f[n] \in Rows
  BY <1>1
<1>. QED
  BY <1>2, <1>3, <1>4

(* Taking the lines of a basket out takes away what they ask for.          *)
LEMMA TakenOutIs ==
  ASSUME NEW rows \in Rows, NEW lines \in Seq(Line)
  PROVE  /\ TakenOut(rows, lines) \in Rows
         /\ \A p \in Products : TakenOut(rows, lines)[p].stock = rows[p].stock - Asked(lines, p)
<1>. DEFINE n == Len(lines)
<1>1. n \in Nat /\ \A i \in 1..n : lines[i] \in Line
  OBVIOUS
<1>2. PICK f \in [0..n -> Rows] :
        /\ f[0] = rows
        /\ \A i \in 1..n : f[i] = Decremented(f[i - 1], lines[i])
        /\ TakenOut(rows, lines) = f[n]
  BY TakenOutRuns
<1>3. ASSUME NEW p \in Products PROVE f[n][p].stock = rows[p].stock - Asked(lines, p)
  <2>1. PICK s \in [0..n -> Nat] :
          /\ s[0] = 0
          /\ \A i \in 1..n :
               s[i] = s[i - 1] + IF lines[i].product = p THEN lines[i].quantity ELSE 0
          /\ Asked(lines, p) = s[n]
    BY AskedRuns
  <2>. HIDE DEF n
  <2>. DEFINE T == {i \in 0..n : f[i][p].stock = rows[p].stock - s[i]}
  <2>2. 0 \in T
    <3>1. rows[p].stock \in Int
      BY DEF Rows
    <3>. QED
      BY <1>1, <1>2, <2>1, <3>1
  <2>3. ASSUME NEW i \in 1..n, i - 1 \in T PROVE i \in T
    <3>. DEFINE less == IF lines[i].product = p THEN lines[i].quantity ELSE 0
    <3>1. i \in 0..n /\ i - 1 \in 0..n /\ f[i - 1] \in Rows /\ lines[i] \in Line
      BY <1>1
    <3>2. f[i] = Decremented(f[i - 1], lines[i])
      BY <1>2
    <3>3. f[i][p].stock = f[i - 1][p].stock - less
      BY <3>1, <3>2, SMTT(30) DEF Decremented, Rows, Line
    <3>4. s[i] = s[i - 1] + less
      BY <2>1
    <3>5. less \in Nat /\ s[i - 1] \in Nat /\ rows[p].stock \in Int
      BY <3>1 DEF Line, Rows
    <3>. HIDE DEF less
    <3>6. f[i - 1][p].stock = rows[p].stock - s[i - 1]
      BY <2>3
    <3>7. f[i][p].stock = rows[p].stock - s[i]
      BY <3>3, <3>4, <3>5, <3>6
    <3>. QED
      BY <3>1, <3>7
  <2>. HIDE DEF T
  <2>4. \A i \in 0..n : i \in T
    BY <1>1, <2>2, <2>3, UpTo
  <2>5. n \in T
    BY <1>1, <2>4
  <2>. QED
    BY <2>1, <2>5 DEF T
<1>4. f[n] \in Rows
  BY <1>1
<1>. QED
  BY <1>2, <1>3, <1>4

(* If no product is in two lines, comparing each line with the stock from  *)
(* before the first is enough.                                             *)
OneLineEach(lines) ==
  \A i, j \in DOMAIN lines : lines[i].product = lines[j].product => i = j

LEMMA TakenOutIsSound ==
  ASSUME NEW rows \in Rows, NEW lines \in Seq(Line), OneLineEach(lines),
         \A i \in DOMAIN lines : Available(rows, lines[i]),
         NEW p \in Products
  PROVE  Sound(rows[p], TakenOut(rows, lines)[p])
<1>. DEFINE n == Len(lines)
<1>1. /\ n \in Nat /\ DOMAIN lines = 1..n
      /\ \A i \in 1..n : lines[i] \in Line
  OBVIOUS
<1>2. PICK f \in [0..n -> Rows] :
        /\ f[0] = rows
        /\ \A i \in 1..n : f[i] = Decremented(f[i - 1], lines[i])
        /\ TakenOut(rows, lines) = f[n]
  BY TakenOutRuns
<1>. HIDE DEF n
<1>. DEFINE T == {i \in 0..n :
                   /\ Sound(rows[p], f[i][p])
                   /\ (\A j \in 1..i : lines[j].product # p) => f[i][p] = rows[p]}
<1>3. 0 \in T
  BY <1>1, <1>2 DEF Sound
<1>4. ASSUME NEW i \in 1..n, i - 1 \in T PROVE i \in T
  <2>1. /\ i \in 0..n /\ i - 1 \in 0..n /\ f[i - 1] \in Rows
        /\ lines[i].product \in Products /\ lines[i].quantity \in Nat \ {0}
    BY <1>1 DEF Line
  <2>2. f[i] = Decremented(f[i - 1], lines[i])
    BY <1>2
  <2>3. \A j \in 1..(i - 1) : j \in 1..i /\ j \in 1..n /\ j # i
    BY <1>1
  <2>4. CASE lines[i].product = p
    <3>. DEFINE left == rows[p].stock - lines[i].quantity
    <3>1. \A j \in 1..(i - 1) : lines[j].product # p
      BY <1>1, <2>3, <2>4 DEF OneLineEach
    <3>2. f[i - 1][p] = rows[p]
      BY <1>4, <3>1
    <3>3. /\ rows[p].status = "ACTIVE" /\ rows[p].stock >= lines[i].quantity
          /\ rows[p].stock \in Int
      BY <1>1, <2>4 DEF Available, Rows
    <3>4. f[i][p] = [stock |-> left,
                     status |-> IF left <= 0 /\ rows[p].status = "ACTIVE"
                                  THEN "SOLD_OUT" ELSE rows[p].status]
      BY <2>1, <2>2, <2>4, <3>2 DEF Decremented, Rows
    <3>5. Sound(rows[p], f[i][p])
      BY <2>1, <3>3, <3>4 DEF Sound, RowMatches
    <3>6. i \in 1..i
      BY <1>1
    <3>. QED
      BY <2>1, <2>4, <3>5, <3>6
  <2>5. CASE lines[i].product # p
    <3>1. f[i][p] = f[i - 1][p]
      BY <2>1, <2>2, <2>5 DEF Decremented, Rows
    <3>. QED
      BY <1>4, <2>1, <2>3, <3>1
  <2>. QED
    BY <2>4, <2>5
<1>. HIDE DEF T
<1>5. \A i \in 0..n : i \in T
  BY <1>1, <1>3, <1>4, UpTo
<1>6. n \in T
  BY <1>1, <1>5
<1>. QED
  BY <1>2, <1>6 DEF T

-----------------------------------------------------------------------------
(* What creating an order does to the rows.                                *)
LEMMA Created ==
  ASSUME TypeOK, NEW o \in Orders, NEW basket \in Baskets, CreateOrder(o, basket)
  PROVE  \E S \in SUBSET Stale(o) :
           LET rows == AllPutBack(product, S)
           IN  /\ rows \in Rows
               /\ \A p \in Products :
                    /\ rows[p].stock = product[p].stock + SumOver(Released(S, p))
                    /\ Sound(product[p], rows[p])
               /\ \A i \in DOMAIN basket : Available(rows, basket[i])
               /\ product' = TakenOut(rows, basket)
               /\ order' = [q \in Orders |->
                              IF q = o THEN "PENDING"
                              ELSE IF q \in S THEN "CANCELLED" ELSE order[q]]
<1>1. PICK S \in SUBSET Stale(o) :
        LET rows == AllPutBack(product, S)
        IN  /\ \A i \in DOMAIN basket : Available(rows, basket[i])
            /\ product' = TakenOut(rows, basket)
            /\ order' = [q \in Orders |->
                           IF q = o THEN "PENDING"
                           ELSE IF q \in S THEN "CANCELLED" ELSE order[q]]
  BY DEF CreateOrder
<1>2. product \in Rows /\ items \in [Orders -> Seq(Line)]
  BY DEF TypeOK, Rows
<1>. QED
  BY <1>1, <1>2, AllPutBackIs

LEMMA BasketLines == \A basket \in Baskets : basket \in Seq(Line)
  BY InventoryAssumption DEF InventoryAssumption

LEMMA TypeStep ==
  ASSUME TypeOK, [Next]_vars
  PROVE  TypeOK'
<1>1. ASSUME NEW o \in Orders, NEW basket \in Baskets, CreateOrder(o, basket) PROVE TypeOK'
  <2>1. basket \in Seq(Line)
    BY BasketLines
  <2>2. product' \in Rows
    BY <1>1, <2>1, Created, TakenOutIs
  <2>3. order' \in [Orders -> {"NONE", "PENDING", "PAID", "CANCELLED"}]
    BY <1>1, Created DEF TypeOK
  <2>4. items' \in [Orders -> Seq(Line)]
    BY <1>1, <2>1 DEF TypeOK, CreateOrder
  <2>. QED
    BY <2>2, <2>3, <2>4 DEF TypeOK, Rows
<1>2. ASSUME NEW o \in Orders, Pay(o) PROVE TypeOK'
  BY <1>2 DEF TypeOK, Pay
<1>3. ASSUME NEW o \in Orders, CancelOrder(o) PROVE TypeOK'
  <2>1. product' \in Rows
    BY <1>3, PutBackIs DEF TypeOK, CancelOrder, Rows
  <2>. QED
    BY <1>3, <2>1 DEF TypeOK, CancelOrder, Rows
<1>4. ASSUME NEW p \in Products, DeleteProduct(p) PROVE TypeOK'
  BY <1>4 DEF TypeOK, DeleteProduct, ProductStatus
<1>5. ASSUME NEW p \in Products, NEW edit \in Edits, UpdateProduct(p, edit) PROVE TypeOK'
  <2>1. /\ edit.stock = NoChange \/ edit.stock \in Int
        /\ edit.status = NoChange \/ edit.status \in ProductStatus
    BY InventoryAssumption DEF InventoryAssumption
  <2>. QED
    BY <1>5, <2>1, SMTT(30) DEF TypeOK, UpdateProduct
<1>6. CASE UNCHANGED vars
  BY <1>6 DEF TypeOK, vars
<1>. QED
  BY <1>1, <1>2, <1>3, <1>4, <1>5, <1>6 DEF Next

(* The products, orders and items are always of their types.               *)
THEOREM InventoryType == Spec => []TypeOK
<1>1. Init => TypeOK
  <2>. SUFFICES ASSUME Init PROVE TypeOK
    OBVIOUS
  <2>1. product \in [Products -> [stock : Int, status : ProductStatus]]
    BY InventoryAssumption DEF InventoryAssumption, Init, ProductStatus
  <2>2. <<>> \in Seq(Line)
    OBVIOUS
  <2>. QED
    BY <2>1, <2>2 DEF Init, TypeOK
<1>. QED
  BY <1>1, TypeStep, PTL DEF Spec

-----------------------------------------------------------------------------
(* No request names a product in two lines.                                *)
LinesDiffer == \A basket \in Baskets : OneLineEach(basket)

LEMMA CreatedIsSound ==
  ASSUME LinesDiffer, TypeOK, NEW o \in Orders, NEW basket \in Baskets,
         CreateOrder(o, basket), NEW p \in Products
  PROVE  Sound(product[p], product'[p])
<1>1. PICK S \in SUBSET Stale(o) :
        LET rows == AllPutBack(product, S)
        IN  /\ rows \in Rows
            /\ Sound(product[p], rows[p])
            /\ \A i \in DOMAIN basket : Available(rows, basket[i])
            /\ product' = TakenOut(rows, basket)
  BY Created
<1>2. basket \in Seq(Line) /\ OneLineEach(basket)
  BY BasketLines DEF LinesDiffer
<1>3. Sound(AllPutBack(product, S)[p], product'[p])
  BY <1>1, <1>2, TakenOutIsSound
<1>. QED
  BY <1>1, <1>3 DEF Sound

(* A step that no admin takes on p is sound for its row.                   *)
LEMMA StepIsSound ==
  ASSUME LinesDiffer, TypeOK, [Next]_vars, NEW p \in Products
  PROVE  \/ Sound(product[p], product'[p])
         \/ EditedByAdmin(p) /\ (product[p].stock >= 0 => product'[p].stock >= 0)
<1>1. ASSUME NEW o \in Orders, NEW basket \in Baskets, CreateOrder(o, basket)
      PROVE  Sound(product[p], product'[p])
  BY <1>1, CreatedIsSound
<1>2. ASSUME NEW o \in Orders, CancelOrder(o) PROVE Sound(product[p], product'[p])
  BY <1>2, PutBackIs DEF CancelOrder, TypeOK, Rows
<1>3. ASSUME product' = product PROVE Sound(product[p], product'[p])
  BY <1>3 DEF Sound
<1>4. ASSUME NEW q \in Products, DeleteProduct(q) PROVE Sound(product[p], product'[p])
  BY <1>4 DEF DeleteProduct, TypeOK, Sound, RowMatches
<1>5. ASSUME NEW q \in Products, NEW edit \in Edits, UpdateProduct(q, edit), q # p
      PROVE  Sound(product[p], product'[p])
  BY <1>5 DEF UpdateProduct, TypeOK, Sound
<1>6. ASSUME NEW edit \in Edits, UpdateProduct(p, edit)
      PROVE  EditedByAdmin(p) /\ (product[p].stock >= 0 => product'[p].stock >= 0)
  <2>1. edit.stock = NoChange \/ edit.stock \in Nat
    BY InventoryAssumption DEF InventoryAssumption
  <2>2. EditedByAdmin(p)
    BY <1>6 DEF EditedByAdmin
  <2>3. product'[p].stock = IF edit.stock = NoChange THEN product[p].stock ELSE edit.stock
    BY <1>6 DEF UpdateProduct, TypeOK
  <2>. QED
    BY <2>1, <2>2, <2>3
<1>. QED
  BY <1>1, <1>2, <1>3, <1>4, <1>5, <1>6 DEF Next, Pay, vars

(* No more is sold than there is, whatever orders are created, released    *)
(* and cancelled at whatever stocks the admins type in, as long as no      *)
(* request names a product in two lines (order_service.py compares each    *)
(* line with the stock from before the first).                             *)
THEOREM NothingIsOversold ==
  ASSUME LinesDiffer
  PROVE  Spec => []NotOversold
<1>1. Init => NotOversold
  BY InventoryAssumption DEF InventoryAssumption, Init, NotOversold
<1>2. ASSUME TypeOK, NotOversold, [Next]_vars PROVE NotOversold'
  <2>. SUFFICES ASSUME NEW p \in Products PROVE product'[p].stock >= 0
    BY DEF NotOversold
  <2>1. product[p].stock >= 0
    BY <1>2 DEF NotOversold
  <2>. QED
    BY <1>2, <2>1, StepIsSound DEF Sound
<1>. QED
  BY <1>1, <1>2, InventoryType, PTL DEF Spec

(* Whenever an order changes a row, the status ends up as the stock        *)
(* demands (catalog_utils.py), under the same condition: a row that was    *)
(* oversold is not put on sale by giving back less than was oversold.      *)
THEOREM StatusIsAsStock ==
  ASSUME LinesDiffer
  PROVE  Spec => StatusFollowsStock
<1>. DEFINE A == \A p \in Products :
                   product'[p] # product[p] => StatusMatches(p)' \/ EditedByAdmin(p)
<1>1. ASSUME TypeOK, NotOversold, [Next]_vars PROVE A
  <2>. SUFFICES ASSUME NEW p \in Products, product'[p] # product[p], ~ EditedByAdmin(p)
                PROVE  StatusMatches(p)'
    OBVIOUS
  <2>1. product[p].stock >= 0
    BY <1>1 DEF NotOversold
  <2>. QED
    BY <1>1, <2>1, StepIsSound DEF Sound, RowMatches, StatusMatches
<1>. QED
  BY <1>1, InventoryType, NothingIsOversold, PTL DEF Spec, StatusFollowsStock

-----------------------------------------------------------------------------
(* What is held of p in a state, order by order.                           *)
HeldOf(p) == [o \in Orders |-> Held(o, p)]

LEMMA AskedType == \A lines \in Seq(Line), p \in Products : Asked(lines, p) \in Nat
<1>. SUFFICES ASSUME NEW lines \in Seq(Line), NEW p \in Products
              PROVE  Asked(lines, p) \in Nat
  OBVIOUS
<1>1. Len(lines) \in 0..Len(lines)
  OBVIOUS
<1>. QED
  BY <1>1, AskedRuns

LEMMA SumType == \A g \in [Orders -> Nat] : SumOver(g) \in Nat
<1>. SUFFICES ASSUME NEW g \in [Orders -> Nat] PROVE SumOver(g) \in Nat
  OBVIOUS
<1>1. Cardinality(Orders) \in 0..Cardinality(Orders)
  BY ListedIs
<1>. QED
  BY <1>1, SumOverRuns

(* Goods are neither lost nor made: what an order takes from the shelf is  *)
(* what it holds, and what it held is what giving it up puts back, for any *)
(* baskets, also those that name a product twice.                          *)
THEOREM GoodsAreConserved == Spec => Conserved
<1>. DEFINE A == \A p \in Products : Total(p)' = Total(p) \/ EditedByAdmin(p)
<1>1. ASSUME TypeOK, [Next]_vars PROVE A
  <2>. SUFFICES ASSUME NEW p \in Products, ~ EditedByAdmin(p)
                PROVE  product'[p].stock + SumOver(HeldOf(p)') =
                         product[p].stock + SumOver(HeldOf(p))
    BY DEF Total, HeldOf
  <2>. DEFINE h == HeldOf(p)
              k == HeldOf(p)'
  <2>1. /\ h \in [Orders -> Nat] /\ k \in [Orders -> Nat]
        /\ \A o \in Orders : Asked(items[o], p) \in Nat
        /\ \A o \in Orders : Asked(items'[o], p) \in Nat
    <3>1. /\ items \in [Orders -> Seq(Line)] /\ items' \in [Orders -> Seq(Line)]
      BY <1>1, TypeStep DEF TypeOK
    <3>. QED
      BY <3>1, AskedType DEF HeldOf, Held
  <2>2. ASSUME NEW o \in Orders, NEW basket \in Baskets, CreateOrder(o, basket)
        PROVE  product'[p].stock + SumOver(k) = product[p].stock + SumOver(h)
    <3>1. PICK S \in SUBSET Stale(o) :
            LET rows == AllPutBack(product, S)
            IN  /\ rows \in Rows
                /\ rows[p].stock = product[p].stock + SumOver(Released(S, p))
                /\ product' = TakenOut(rows, basket)
                /\ order' = [q \in Orders |->
                               IF q = o THEN "PENDING"
                               ELSE IF q \in S THEN "CANCELLED" ELSE order[q]]
      BY <1>1, <2>2, Created
    <3>. DEFINE a == Released(S, p)
                m == Asked(basket, p)
                b == [q \in Orders |-> IF q = o THEN m ELSE 0]
    <3>2. basket \in Seq(Line) /\ m \in Nat
      BY BasketLines, AskedType
    <3>3. a \in [Orders -> Nat] /\ b \in [Orders -> Nat]
      BY <1>1, <3>2, ReleasedType DEF TypeOK
    <3>4. product'[p].stock = product[p].stock + SumOver(a) - m
      <4>. HIDE DEF a, m
      <4>1. product'[p].stock = AllPutBack(product, S)[p].stock - m
        BY <3>1, <3>2, TakenOutIs DEF m
      <4>2. AllPutBack(product, S)[p].stock = product[p].stock + SumOver(a)
        BY <3>1 DEF a
      <4>3. product[p].stock \in Int /\ SumOver(a) \in Nat /\ m \in Nat
        BY <1>1, <3>2, <3>3, SumType DEF TypeOK
      <4>. QED
        BY <4>1, <4>2, <4>3
    <3>5. ASSUME NEW q \in Orders PROVE k[q] + a[q] = h[q] + b[q]
      <4>1. /\ k[q] = IF order'[q] \in {"PENDING", "PAID"} THEN Asked(items'[q], p) ELSE 0
            /\ h[q] = IF order[q] \in {"PENDING", "PAID"} THEN Asked(items[q], p) ELSE 0
            /\ a[q] = IF q \in S THEN Asked(items[q], p) ELSE 0
        BY DEF HeldOf, Held, Released
      <4>2. items'[q] = IF q = o THEN basket ELSE items[q]
        BY <1>1, <2>2 DEF CreateOrder, TypeOK
      <4>3. order[o] = "NONE" /\ (q \in S => order[q] = "PENDING")
        BY <2>2 DEF CreateOrder, Stale
      <4>4. Asked(items[q], p) \in Nat
        BY <2>1
      <4>. HIDE DEF h, k, a, m
      <4>. QED
        BY <3>1, <3>2, <4>1, <4>2, <4>3, <4>4 DEF m
    <3>6. SumOver(b) = m
      BY <3>2, SingleSum
    <3>. HIDE DEF h, k, a, m, b
    <3>7. SumOver(k) + SumOver(a) = SumOver(h) + SumOver(b)
      BY <2>1, <3>3, <3>5, SumsBalance
    <3>8. /\ SumOver(k) \in Nat /\ SumOver(a) \in Nat /\ SumOver(h) \in Nat
          /\ product[p].stock \in Int
      BY <1>1, <2>1, <3>3, SumType DEF TypeOK
    <3>. QED
      BY <3>2, <3>4, <3>6, <3>7, <3>8
  <2>3. ASSUME NEW o \in Orders, CancelOrder(o)
        PROVE  product'[p].stock + SumOver(k) = product[p].stock + SumOver(h)
    <3>. DEFINE m == Asked(items[o], p)
                a == [q \in Orders |-> IF q = o THEN m ELSE 0]
                b == [q \in Orders |-> IF q = o THEN 0 ELSE 0]
    <3>1. m \in Nat
      BY <2>1
    <3>2. a \in [Orders -> Nat] /\ b \in [Orders -> Nat]
      BY <3>1
    <3>3. product'[p].stock = product[p].stock + m
      BY <1>1, <2>3, PutBackIs DEF CancelOrder, TypeOK, Rows
    <3>4. ASSUME NEW q \in Orders PROVE k[q] + a[q] = h[q] + b[q]
      <4>1. /\ k[q] = IF order'[q] \in {"PENDING", "PAID"} THEN Asked(items'[q], p) ELSE 0
            /\ h[q] = IF order[q] \in {"PENDING", "PAID"} THEN Asked(items[q], p) ELSE 0
        BY DEF HeldOf, Held
      <4>2. /\ items' = items /\ order[o] \in {"PENDING", "PAID"}
            /\ order'[q] = IF q = o THEN "CANCELLED" ELSE order[q]
        BY <1>1, <2>3 DEF CancelOrder, TypeOK
      <4>3. Asked(items[q], p) \in Nat
        BY <2>1
      <4>. HIDE DEF h, k
      <4>. QED
        BY <4>1, <4>2, <4>3
    <3>5. SumOver(a) = m /\ SumOver(b) = 0
      BY <3>1, SingleSum
    <3>. HIDE DEF h, k, a, m, b
    <3>6. SumOver(k) + SumOver(a) = SumOver(h) + SumOver(b)
      BY <2>1, <3>2, <3>4, SumsBalance
    <3>7. SumOver(k) \in Nat /\ SumOver(h) \in Nat /\ product[p].stock \in Int
      BY <1>1, <2>1, SumType DEF TypeOK
    <3>. QED
      BY <3>1, <3>3, <3>5, <3>6, <3>7
  <2>4. ASSUME product'[p].stock = product[p].stock, k = h
        PROVE  product'[p].stock + SumOver(k) = product[p].stock + SumOver(h)
    BY <2>4
  <2>5. ASSUME NEW o \in Orders, Pay(o) PROVE k = h /\ product' = product
    BY <1>1, <2>5 DEF Pay, HeldOf, Held, TypeOK
  <2>6. ASSUME order' = order, items' = items PROVE k = h
    BY <2>6 DEF HeldOf, Held
  <2>7. ASSUME NEW q \in Products, DeleteProduct(q)
        PROVE  k = h /\ product'[p].stock = product[p].stock
    BY <1>1, <2>6, <2>7 DEF DeleteProduct, TypeOK
  <2>8. ASSUME NEW q \in Products, NEW edit \in Edits, UpdateProduct(q, edit)
        PROVE  k = h /\ product'[p].stock = product[p].stock
    <3>1. q # p
      BY <2>8 DEF EditedByAdmin
    <3>. QED
      BY <1>1, <2>6, <2>8, <3>1 DEF UpdateProduct, TypeOK
  <2>9. CASE UNCHANGED vars
    BY <2>4, <2>6, <2>9 DEF vars
  <2>. HIDE DEF h, k
  <2>. QED
    BY <1>1, <2>2, <2>3, <2>4, <2>5, <2>7, <2>8, <2>9 DEF Next, h, k
<1>. QED
  BY <1>1, InventoryType, PTL DEF Spec, Conserved
=============================================================================
