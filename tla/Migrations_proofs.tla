-------------------------- MODULE Migrations_proofs --------------------------
(* The migrations, revision by revision: what each script does to the      *)
(* schema, what it asks of the data, and what follows for every sequence   *)
(* of upgrades, downgrades and writes.                                     *)
EXTENDS Migrations, Lemmas

-----------------------------------------------------------------------------
(***************************************************************************)
(* The recursive functions of the model have the values that their         *)
(* equations say.                                                          *)
(***************************************************************************)
ScriptRun(d, script, m, f) ==
    f = [i \in 0..m |-> IF i = 0 THEN d ELSE Apply(f[i - 1], script[i])]

\* f passes from d, step by step, to what the script makes of it.
Passes(f, d, script) ==
    /\ f[0] = d
    /\ \A i \in 1..Len(script) : f[i] = Apply(f[i - 1], script[i])
    /\ Applied(d, script) = f[Len(script)]

LEMMA AppliedRuns ==
  ASSUME NEW d, NEW script, Len(script) \in Nat
  PROVE  \E f : Passes(f, d, script)
<1>. DEFINE n == Len(script)
            T == {m \in 0..n : \E f : ScriptRun(d, script, m, f)}
<1>1. 0 \in T
  <2>. DEFINE f == [i \in 0..0 |-> d]
  <2>1. ScriptRun(d, script, 0, f)
    BY DEF ScriptRun
  <2>. QED
    BY <2>1
<1>2. ASSUME NEW m \in 1..n, m - 1 \in T
      PROVE  m \in T
  <2>1. PICK f : ScriptRun(d, script, m - 1, f)
    BY <1>2
  <2>. DEFINE g == [i \in 0..m |-> IF i = m THEN Apply(f[m - 1], script[m]) ELSE f[i]]
  <2>2. ASSUME NEW i \in 0..m
        PROVE  g[i] = IF i = 0 THEN d ELSE Apply(g[i - 1], script[i])
    <3>1. CASE i = m
      BY <3>1
    <3>2. CASE i < m
      <4>1. i \in 0..(m - 1) /\ (i # 0 => i - 1 \in 0..(m - 1))
        BY <3>2
      <4>2. f[i] = IF i = 0 THEN d ELSE Apply(f[i - 1], script[i])
        BY <2>1, <4>1 DEF ScriptRun
      <4>. QED
        BY <3>2, <4>1, <4>2
    <3>. QED
      BY <3>1, <3>2
  <2>3. ScriptRun(d, script, m, g)
    BY <2>2 DEF ScriptRun
  <2>. QED
    BY <2>3
<1>3. n \in T
  <2>1. n \in Nat
    OBVIOUS
  <2>. HIDE DEF T, n
  <2>2. \A i \in 0..n : i \in T
    BY <1>1, <1>2, <2>1, UpTo
  <2>. QED
    BY <2>1, <2>2
<1>. DEFINE run == CHOOSE f : ScriptRun(d, script, n, f)
<1>4. ScriptRun(d, script, n, run)
  BY <1>3
<1>5. Applied(d, script) = run[n]
  BY DEF Applied, ScriptRun
<1>. HIDE DEF run
<1>. QED
  BY <1>4, <1>5 DEF ScriptRun, Passes

UpRun(d, from, last, f) ==
    f = [n \in from..last |-> IF n = from THEN d ELSE Applied(f[n - 1], Upgrades[n])]

Climbs(f, d, from, to) ==
    /\ f[from] = d
    /\ \A n \in (from + 1)..to : f[n] = Applied(f[n - 1], Upgrades[n])
    /\ Upgraded(d, from, to) = f[to]

\* An upgrade runs the scripts one after the other,
LEMMA UpgradedRuns ==
  ASSUME NEW d, NEW from \in Nat, NEW to \in Nat, from <= to
  PROVE  \E f : Climbs(f, d, from, to)
<1>. DEFINE len == to - from
            T == {m \in 0..len : \E f : UpRun(d, from, from + m, f)}
<1>1. 0 \in T
  <2>. DEFINE f == [n \in from..from |-> d]
  <2>1. UpRun(d, from, from, f)
    BY DEF UpRun
  <2>. QED
    BY <2>1
<1>2. ASSUME NEW m \in 1..len, m - 1 \in T
      PROVE  m \in T
  <2>1. PICK f : UpRun(d, from, from + (m - 1), f)
    BY <1>2
  <2>. DEFINE g == [n \in from..(from + m) |->
                        IF n = from + m THEN Applied(f[n - 1], Upgrades[n]) ELSE f[n]]
  <2>2. ASSUME NEW n \in from..(from + m)
        PROVE  g[n] = IF n = from THEN d ELSE Applied(g[n - 1], Upgrades[n])
    <3>1. CASE n = from + m
      BY <3>1
    <3>2. CASE n # from + m
      <4>1. n \in from..(from + (m - 1)) /\ (n # from => n - 1 \in from..(from + (m - 1)) /\ n - 1 # from + m)
        BY <3>2
      <4>2. f[n] = IF n = from THEN d ELSE Applied(f[n - 1], Upgrades[n])
        BY <2>1, <4>1 DEF UpRun
      <4>. QED
        BY <3>2, <4>1, <4>2
    <3>. QED
      BY <3>1, <3>2
  <2>3. UpRun(d, from, from + m, g)
    BY <2>2 DEF UpRun
  <2>. QED
    BY <2>3
<1>3. \E f : UpRun(d, from, to, f)
  <2>1. len \in Nat /\ from + len = to
    OBVIOUS
  <2>. HIDE DEF T, len
  <2>2. \A i \in 0..len : i \in T
    BY <1>1, <1>2, <2>1, UpTo
  <2>3. len \in T
    BY <2>1, <2>2
  <2>4. \E f : UpRun(d, from, from + len, f)
    BY <2>3 DEF T
  <2>. QED
    BY <2>1, <2>4
<1>. DEFINE run == CHOOSE f : UpRun(d, from, to, f)
<1>4. UpRun(d, from, to, run)
  BY <1>3
<1>5. Upgraded(d, from, to) = run[to]
  BY DEF Upgraded, UpRun
<1>. HIDE DEF run
<1>. QED
  BY <1>4, <1>5 DEF UpRun, Climbs

DownRun(d, from, last, f) ==
    f = [n \in last..from |-> IF n = from THEN d ELSE Applied(f[n + 1], Downgrades[n + 1])]

Descends(f, d, from, to) ==
    /\ f[from] = d
    /\ \A n \in to..(from - 1) : f[n] = Applied(f[n + 1], Downgrades[n + 1])
    /\ Downgraded(d, from, to) = f[to]

\* and so does a downgrade.
LEMMA DowngradedRuns ==
  ASSUME NEW d, NEW from \in Nat, NEW to \in Nat, to <= from
  PROVE  \E f : Descends(f, d, from, to)
<1>. DEFINE len == from - to
            T == {m \in 0..len : \E f : DownRun(d, from, from - m, f)}
<1>1. 0 \in T
  <2>. DEFINE f == [n \in from..from |-> d]
  <2>1. DownRun(d, from, from, f)
    BY DEF DownRun
  <2>. QED
    BY <2>1
<1>2. ASSUME NEW m \in 1..len, m - 1 \in T
      PROVE  m \in T
  <2>1. PICK f : DownRun(d, from, from - (m - 1), f)
    BY <1>2
  <2>. DEFINE g == [n \in (from - m)..from |->
                        IF n = from - m THEN Applied(f[n + 1], Downgrades[n + 1]) ELSE f[n]]
  <2>2. ASSUME NEW n \in (from - m)..from
        PROVE  g[n] = IF n = from THEN d ELSE Applied(g[n + 1], Downgrades[n + 1])
    <3>1. CASE n = from - m
      BY <3>1
    <3>2. CASE n # from - m
      <4>1. n \in (from - (m - 1))..from /\ (n # from => n + 1 \in (from - (m - 1))..from /\ n + 1 # from - m)
        BY <3>2
      <4>2. f[n] = IF n = from THEN d ELSE Applied(f[n + 1], Downgrades[n + 1])
        BY <2>1, <4>1 DEF DownRun
      <4>. QED
        BY <3>2, <4>1, <4>2
    <3>. QED
      BY <3>1, <3>2
  <2>3. DownRun(d, from, from - m, g)
    BY <2>2 DEF DownRun
  <2>. QED
    BY <2>3
<1>3. \E f : DownRun(d, from, to, f)
  <2>1. len \in Nat /\ from - len = to
    OBVIOUS
  <2>. HIDE DEF T, len
  <2>2. \A i \in 0..len : i \in T
    BY <1>1, <1>2, <2>1, UpTo
  <2>3. len \in T
    BY <2>1, <2>2
  <2>4. \E f : DownRun(d, from, from - len, f)
    BY <2>3 DEF T
  <2>. QED
    BY <2>1, <2>4
<1>. DEFINE run == CHOOSE f : DownRun(d, from, to, f)
<1>4. DownRun(d, from, to, run)
  BY <1>3
<1>5. Downgraded(d, from, to) = run[to]
  BY DEF Downgraded, DownRun
<1>. HIDE DEF run
<1>6. run[from] = d /\ \A n \in to..(from - 1) : run[n] = Applied(run[n + 1], Downgrades[n + 1])
  <2>1. from \in to..from /\ \A n \in to..(from - 1) : n \in to..from /\ n # from
    OBVIOUS
  <2>. QED
    BY <1>4, <2>1 DEF DownRun
<1>. QED
  BY <1>5, <1>6 DEF Descends

-----------------------------------------------------------------------------
(***************************************************************************)
(* The schema in closed form: which tables and columns there are at which  *)
(* revision.                                                               *)
(***************************************************************************)
FirstTables == {"products", "users", "addresses", "cart_items", "identity_verifications",
                "orders", "product_images", "order_items", "payments", "shipments"}
HelpTables  == {"faqs", "notices", "contacts"}
AllTables   == FirstTables \cup HelpTables
                   \cup {"social_accounts", "favorites", "product_categories"}

\* The tables that a table refers to.
Parents ==
    [t \in AllTables |->
        CASE t \in {"addresses", "identity_verifications", "orders", "social_accounts",
                    "contacts"}             -> {"users"}
          [] t \in {"cart_items", "favorites"} -> {"products", "users"}
          [] t = "product_images"           -> {"products"}
          [] t = "order_items"              -> {"orders", "products"}
          [] t \in {"payments", "shipments"} -> {"orders"}
          [] OTHER                          -> {}]

From(n, first, S)  == IF n >= first THEN S ELSE {}
Until(n, first, S) == IF n < first THEN S ELSE {}

TablesAt(n) ==
    From(n, 1, FirstTables \ From(n, 19, {"identity_verifications"}))
        \cup From(n, 8, {"social_accounts"}) \cup From(n, 9, {"favorites"})
        \cup From(n, 11, {"product_categories"}) \cup From(n, 15, HelpTables)

UserColumns(n) ==
    {"phone", "is_active", "phone_verified_at"}
        \cup Until(n, 19, OldIdentity) \cup Until(n, 6, {"name"})
        \cup From(n, 5, {"username", "agreed_terms_at", "agreed_privacy_at",
                         "agreed_marketing_at"})
        \cup From(n, 6, {"login_id"}) \cup From(n, 7, {"must_change_password"})
        \cup From(n, 10, {"status"}) \cup From(n, 12, {"withdrawn_at"})
        \cup From(n, 21, {"has_password"})
OrderItemColumns(n) ==
    {"price_snapshot"} \cup From(n, 4, {"product_image_url_snapshot"})
        \cup From(n, 14, {"product_brand_snapshot"})
        \cup From(n, 18, {"product_model_name_snapshot"})

Columns(n, t) ==
    CASE t = "products"               -> {"category", "model_name"}
      [] t = "users"                  -> UserColumns(n)
      [] t = "addresses"              -> {"phone", "is_default"} \cup From(n, 13, {"label", "memo"})
      [] t = "cart_items"             -> {"quantity"}
      [] t = "identity_verifications" -> {"request_id"}
      [] t = "orders"                 -> {"recipient_phone"}
             \cup From(n, 2, {"discount_amount", "shipping_method"})
      [] t = "product_images"         -> {"url"} \cup From(n, 4, {"label"})
      [] t = "order_items"            -> OrderItemColumns(n)
      [] t = "payments"               -> {"pg_tid"} \cup From(n, 2, CardColumns)
      [] t = "shipments"              -> {"tracking_number"}
      [] t = "social_accounts"        -> {"provider", "social_id"}
      [] t = "favorites"              -> {"product_id"}
      [] t = "product_categories"     -> {"title", "icon"} \cup From(n, 22, {"image_url"})
      [] t = "faqs"                   -> {"question"}
      [] t = "notices"                -> {"title"}
      [] t = "contacts"               -> {"status"} \cup Until(n, 17, {"phone"})
             \cup From(n, 16, {"answer_content"})

ColumnsAt(n) == [t \in AllTables |-> Columns(n, t)]

\* The tables of D, with the columns that C gives them.
Tables(D, C) == [t \in D |-> [cols |-> C[t], parents |-> Parents[t]]]

VerifiedColumns == {"phone_verified_at", "identity_verified_at"}
PhoneForms == {"none", "digits11", "digits10", "hyphens11", "hyphens10"}

Fields == {"ok", "tables", "types", "serial", "rows", "nameless", "verified", "phone",
           "categories", "product"}

\* A database with those tables.
Shaped(d, D, C) ==
    /\ DOMAIN d = Fields
    /\ d.ok
    /\ D \subseteq AllTables /\ DOMAIN C = AllTables
    /\ d.tables = Tables(D, C)
    /\ d.verified \in [Users -> SUBSET VerifiedColumns]
    /\ d.phone \in [Phones -> PhoneForms]

\* Two databases with the same rows and types.
SameRows(d, e) ==
    /\ e.types = d.types /\ e.serial = d.serial /\ e.rows = d.rows
    /\ e.nameless = d.nameless /\ e.verified = d.verified /\ e.phone = d.phone
    /\ e.categories = d.categories /\ e.product = d.product

-----------------------------------------------------------------------------
(***************************************************************************)
(* What each step does.                                                    *)
(***************************************************************************)
LEMMA ColumnsSet ==
  ASSUME NEW d, NEW D, NEW C, Shaped(d, D, C), NEW t \in D, NEW X,
         NEW e, e = SetCols(d, t, X)
  PROVE  Shaped(e, D, [C EXCEPT ![t] = X]) /\ SameRows(d, e)
<1>. DEFINE K == [C EXCEPT ![t] = X]
<1>1. t \in AllTables /\ t \in DOMAIN d.tables /\ DOMAIN K = AllTables
      /\ \A x \in D : K[x] = IF x = t THEN X ELSE C[x]
  BY DEF Shaped, Tables
<1>2. [d.tables EXCEPT ![t].cols = X] = Tables(D, K)
  <2>. HIDE DEF K
  <2>. QED
    BY <1>1 DEF Shaped, Tables
<1>3. e = [d EXCEPT !.tables = [d.tables EXCEPT ![t].cols = X]]
  BY DEF SetCols
<1>. DEFINE tb == [d.tables EXCEPT ![t].cols = X]
<1>4. e = [d EXCEPT !.tables = tb] /\ tb = Tables(D, K)
  BY <1>2, <1>3
<1>. HIDE DEF K, tb
<1>5. DOMAIN e = Fields /\ e.tables = tb /\ (e.ok <=> d.ok) /\ SameRows(d, e)
  BY <1>4 DEF Shaped, SameRows, Fields
<1>6. Shaped(e, D, K)
  BY <1>1, <1>4, <1>5 DEF Shaped, SameRows
<1>. QED
  BY <1>5, <1>6 DEF K

LEMMA Added ==
  ASSUME NEW d, NEW D, NEW C, Shaped(d, D, C), NEW t \in D, NEW cs, cs \cap C[t] = {},
         NEW e, e = Apply(d, Add(t, cs))
  PROVE  Shaped(e, D, [C EXCEPT ![t] = C[t] \cup cs]) /\ SameRows(d, e)
<1>1. d.ok /\ Exists(d, t) /\ Cols(d, t) = C[t]
  BY DEF Shaped, Tables, Exists, Cols
<1>2. Accepts(d, Add(t, cs))
  BY <1>1 DEF Accepts, Add, Step
<1>3. e = SetCols(d, t, C[t] \cup cs)
  BY <1>1, <1>2 DEF Apply, Add, Step
<1>. QED
  BY <1>3, ColumnsSet

\* A NOT NULL column is refused by a table with rows.
LEMMA RequiredAdded ==
  ASSUME NEW d, NEW D, NEW C, Shaped(d, D, C), NEW t \in D, NEW c, c \notin C[t],
         NEW e, e = Apply(d, AddRequired(t, c))
  PROVE  /\ DOMAIN e = Fields /\ (e.ok <=> t \notin d.rows)
         /\ e.ok => Shaped(e, D, [C EXCEPT ![t] = C[t] \cup {c}]) /\ SameRows(d, e)
<1>1. d.ok /\ Exists(d, t) /\ Cols(d, t) = C[t] /\ DOMAIN d = Fields
  BY DEF Shaped, Tables, Exists, Cols
<1>2. Accepts(d, AddRequired(t, c)) <=> t \notin d.rows
  BY <1>1 DEF Accepts, AddRequired, Step
<1>3. CASE t \notin d.rows
  <2>1. e = SetCols(d, t, C[t] \cup {c})
    BY <1>1, <1>2, <1>3 DEF Apply, AddRequired, Step
  <2>2. Shaped(e, D, [C EXCEPT ![t] = C[t] \cup {c}]) /\ SameRows(d, e)
    BY <2>1, ColumnsSet
  <2>. QED
    BY <1>3, <2>2 DEF Shaped
<1>4. CASE t \in d.rows
  <2>1. e = [d EXCEPT !.ok = FALSE]
    BY <1>1, <1>2, <1>4 DEF Apply
  <2>2. ~e.ok /\ DOMAIN e = Fields
    BY <1>1, <2>1 DEF Fields
  <2>. QED
    BY <1>4, <2>2
<1>. QED
  BY <1>3, <1>4

LEMMA DropColIs ==
  ASSUME NEW d, NEW t, NEW cs, d.ok, Accepts(d, DropCol(t, cs))
  PROVE  Apply(d, DropCol(t, cs)) = Unmark(SetCols(d, t, Cols(d, t) \ cs), cs)
<1>1. PICK s : s = DropCol(t, cs)
  OBVIOUS
<1>2. s.op = "dropcol" /\ s.table = t /\ s.cols = cs
  BY <1>1 DEF DropCol, Step
<1>3. Accepts(d, s)
  BY <1>1
<1>4. Apply(d, s) = Unmark(SetCols(d, s.table, Cols(d, s.table) \ s.cols), s.cols)
  <2>1. s.op = "dropcol"
    BY <1>2
  <2>. QED
    BY <1>3, <2>1 DEF Apply
<1>. QED
  BY <1>1, <1>2, <1>4

LEMMA Dropped ==
  ASSUME NEW d, NEW D, NEW C, Shaped(d, D, C), NEW t \in D, NEW cs, cs \subseteq C[t],
         cs \cap VerifiedColumns = {}, NEW e, e = Apply(d, DropCol(t, cs))
  PROVE  Shaped(e, D, [C EXCEPT ![t] = C[t] \ cs]) /\ SameRows(d, e)
<1>1. d.ok /\ Exists(d, t) /\ Cols(d, t) = C[t] /\ DOMAIN d = Fields
      /\ d.verified \in [Users -> SUBSET VerifiedColumns]
  BY DEF Shaped, Tables, Exists, Cols
<1>2. Accepts(d, DropCol(t, cs))
  BY <1>1 DEF Accepts, DropCol, Step
<1>. DEFINE f == SetCols(d, t, C[t] \ cs)
<1>3. e = Unmark(f, cs)
  BY <1>1, <1>2, DropColIs
<1>. HIDE DEF f
<1>4. Shaped(f, D, [C EXCEPT ![t] = C[t] \ cs]) /\ SameRows(d, f)
  BY ColumnsSet DEF f
<1>5. [u \in Users |-> f.verified[u] \ cs] = f.verified
  BY <1>4 DEF Shaped
<1>6. DOMAIN f = Fields
  BY <1>4 DEF Shaped
<1>7. e = f
  <2>1. f = [x \in DOMAIN f |-> f[x]]
    BY DEF f, SetCols
  <2>. QED
    BY <1>3, <1>5, <1>6, <2>1 DEF Fields, Unmark
<1>. QED
  BY <1>4, <1>7

LEMMA Renamed ==
  ASSUME NEW d, NEW D, NEW C, Shaped(d, D, C), NEW t \in D, NEW c \in C[t],
         NEW new, new \notin C[t], NEW e, e = Apply(d, Rename(t, c, new))
  PROVE  Shaped(e, D, [C EXCEPT ![t] = (C[t] \ {c}) \cup {new}]) /\ SameRows(d, e)
<1>1. d.ok /\ Exists(d, t) /\ Cols(d, t) = C[t]
  BY DEF Shaped, Tables, Exists, Cols
<1>2. Accepts(d, Rename(t, c, new))
  BY <1>1 DEF Accepts, Rename, Step
<1>3. e = SetCols(d, t, (C[t] \ {c}) \cup {new})
  BY <1>1, <1>2 DEF Apply, Rename, Step
<1>. QED
  BY <1>3, ColumnsSet

\* SET NOT NULL is refused while a user has no name.
LEMMA Required ==
  ASSUME NEW d, NEW D, NEW C, Shaped(d, D, C), NEW t \in D, NEW c \in C[t],
         NEW e, e = Apply(d, Require(t, c))
  PROVE  DOMAIN e = Fields /\ (e.ok <=> ~d.nameless) /\ (e.ok => e = d)
<1>1. d.ok /\ Exists(d, t) /\ Cols(d, t) = C[t] /\ DOMAIN d = Fields
  BY DEF Shaped, Tables, Exists, Cols
<1>2. Accepts(d, Require(t, c)) <=> ~d.nameless
  BY <1>1 DEF Accepts, Require, Step
<1>3. CASE ~d.nameless
  BY <1>1, <1>2, <1>3 DEF Apply, Require, Step
<1>4. CASE d.nameless
  <2>1. e = [d EXCEPT !.ok = FALSE]
    BY <1>1, <1>2, <1>4 DEF Apply
  <2>2. ~e.ok /\ DOMAIN e = Fields
    BY <1>1, <2>1 DEF Fields
  <2>. QED
    BY <1>4, <2>2
<1>. QED
  BY <1>3, <1>4

LEMMA Created ==
  ASSUME NEW d, NEW D, NEW C, Shaped(d, D, C), NEW t \in AllTables \ D, NEW cs,
         NEW ps, ps = Parents[t], ps \subseteq D, NEW e, e = Apply(d, Create(t, cs, ps))
  PROVE  Shaped(e, D \cup {t}, [C EXCEPT ![t] = cs]) /\ SameRows(d, e)
<1>. DEFINE K == [C EXCEPT ![t] = cs]
            tb == [x \in DOMAIN d.tables \cup {t} |->
                      IF x = t THEN [cols |-> cs, parents |-> ps] ELSE d.tables[x]]
<1>1. d.ok /\ ~Exists(d, t) /\ (\A p \in ps : Exists(d, p)) /\ DOMAIN d = Fields
      /\ DOMAIN d.tables = D
  BY DEF Shaped, Tables, Exists
<1>2. Accepts(d, Create(t, cs, ps))
  BY <1>1 DEF Accepts, Create, Step
<1>3. e = [d EXCEPT !.tables = tb]
  BY <1>1, <1>2 DEF Apply, Create, Step
<1>4. DOMAIN K = AllTables /\ \A x \in D \cup {t} : K[x] = IF x = t THEN cs ELSE C[x]
  BY DEF Shaped
<1>5. tb = Tables(D \cup {t}, K)
  <2>. HIDE DEF K
  <2>. QED
    BY <1>1, <1>4 DEF Shaped, Tables
<1>. HIDE DEF K, tb
<1>6. DOMAIN e = Fields /\ e.tables = tb /\ (e.ok <=> d.ok) /\ SameRows(d, e)
  BY <1>1, <1>3 DEF SameRows, Fields
<1>7. Shaped(e, D \cup {t}, K)
  BY <1>4, <1>5, <1>6 DEF Shaped, SameRows
<1>. QED
  BY <1>6, <1>7 DEF K

LEMMA TypeMade ==
  ASSUME NEW d, NEW D, NEW C, Shaped(d, D, C), NEW ty, NEW e, e = Apply(d, NewType(ty))
  PROVE  /\ DOMAIN e = Fields /\ (e.ok <=> ty \notin d.types)
         /\ e.ok => /\ Shaped(e, D, C)
                    /\ e.types = d.types \cup {ty} /\ SameRows([d EXCEPT !.types = e.types], e)
<1>1. d.ok /\ DOMAIN d = Fields
  BY DEF Shaped
<1>2. Accepts(d, NewType(ty)) <=> ty \notin d.types
  BY DEF Accepts, NewType, Step
<1>3. CASE ty \notin d.types
  <2>. DEFINE x == d.types \cup {ty}
  <2>1. e = [d EXCEPT !.types = x]
    BY <1>1, <1>2, <1>3 DEF Apply, NewType, Step
  <2>. HIDE DEF x
  <2>2. DOMAIN e = Fields /\ e.tables = d.tables /\ (e.ok <=> d.ok) /\ e.types = x
        /\ SameRows([d EXCEPT !.types = e.types], e)
        /\ e.verified = d.verified /\ e.phone = d.phone
    BY <1>1, <2>1 DEF SameRows, Fields
  <2>. QED
    BY <1>1, <1>3, <2>2 DEF Shaped, x
<1>4. CASE ty \in d.types
  <2>1. e = [d EXCEPT !.ok = FALSE]
    BY <1>1, <1>2, <1>4 DEF Apply
  <2>2. ~e.ok /\ DOMAIN e = Fields
    BY <1>1, <2>1 DEF Fields
  <2>. QED
    BY <1>4, <2>2
<1>. QED
  BY <1>3, <1>4

\* The table goes with its rows.
Forgotten(d, e, t) ==
    /\ e.types = d.types /\ e.serial = d.serial \ {t} /\ e.rows = d.rows \ {t}
    /\ e.nameless => d.nameless
    /\ t # "users" => e.verified = d.verified /\ e.phone = d.phone
    /\ t # "products" => e.product = d.product
    /\ t # "product_categories" => e.categories = d.categories

LEMMA TableDropped ==
  ASSUME NEW d, NEW D, NEW C, Shaped(d, D, C), NEW t \in D,
         \A x \in D \ {t} : t \notin Parents[x], NEW e, e = Apply(d, Drop(t))
  PROVE  Shaped(e, D \ {t}, C) /\ Forgotten(d, e, t)
<1>. DEFINE tb == [u \in DOMAIN d.tables \ {t} |-> d.tables[u]]
            rw == d.rows \ {t}
            sr == d.serial \ {t}
            f  == [d EXCEPT !.tables = tb, !.rows = rw, !.serial = sr]
<1>1. d.ok /\ Exists(d, t) /\ DOMAIN d = Fields /\ DOMAIN d.tables = D
      /\ \A x \in D \ {t} : t \notin d.tables[x].parents
  BY DEF Shaped, Tables, Exists
<1>2. Accepts(d, Drop(t))
  BY <1>1 DEF Accepts, Drop, Step
<1>3. e = Forget(d, t)
  BY <1>1, <1>2 DEF Apply, Drop, Step
<1>4. e = CASE t = "users" -> [f EXCEPT !.nameless = FALSE, !.verified = Unverified,
                                        !.phone = NoPhone]
            [] t = "products" -> [f EXCEPT !.product = NoProduct]
            [] t = "product_categories" -> [f EXCEPT !.categories = {}]
            [] OTHER -> f
  BY <1>3 DEF Forget
<1>5. tb = Tables(D \ {t}, C)
  BY <1>1 DEF Shaped, Tables
<1>6. Unverified \in [Users -> SUBSET VerifiedColumns] /\ NoPhone \in [Phones -> PhoneForms]
  BY DEF Unverified, NoPhone, PhoneForms
<1>. HIDE DEF tb, rw, sr
<1>7. /\ DOMAIN f = Fields /\ (f.ok <=> d.ok) /\ f.tables = tb /\ f.types = d.types
      /\ f.serial = sr /\ f.rows = rw /\ (f.nameless <=> d.nameless)
      /\ f.verified = d.verified /\ f.phone = d.phone /\ f.categories = d.categories
      /\ f.product = d.product
  BY <1>1 DEF Fields
<1>. HIDE DEF f
<1>8. /\ DOMAIN e = Fields /\ (e.ok <=> f.ok) /\ e.tables = f.tables /\ e.types = f.types
      /\ e.serial = f.serial /\ e.rows = f.rows
  BY <1>4, <1>7 DEF Fields
<1>9. /\ e.nameless => f.nameless
      /\ IF t = "users" THEN e.verified = Unverified /\ e.phone = NoPhone
                        ELSE e.verified = f.verified /\ e.phone = f.phone
  BY <1>4, <1>7 DEF Fields
<1>10. /\ t # "products" => e.product = f.product
       /\ t # "product_categories" => e.categories = f.categories
  BY <1>4, <1>7 DEF Fields
<1>11. Shaped(e, D \ {t}, C)
  BY <1>5, <1>6, <1>7, <1>8, <1>9 DEF Shaped
<1>12. Forgotten(d, e, t)
  BY <1>7, <1>8, <1>9, <1>10 DEF Forgotten, rw, sr
<1>. QED
  BY <1>11, <1>12

-----------------------------------------------------------------------------
\* The data statements leave the schema, and all rows but those they are about.
SameBut(d, e, fields) ==
    \A x \in {"types", "serial", "rows", "nameless", "verified", "phone", "categories",
              "product"} \ fields : e[x] = d[x]

LEMMA Carried ==
  ASSUME NEW d, NEW D, NEW C, Shaped(d, D, C), NEW e, e = Apply(d, Run("carry verification"))
  PROVE  /\ Shaped(e, D, C) /\ SameBut(d, e, {"verified"})
         /\ \A u \in Users : d.verified[u] # {} => "phone_verified_at" \in e.verified[u]
<1>. DEFINE v == [u \in Users |->
                    IF "identity_verified_at" \in d.verified[u]
                    THEN d.verified[u] \cup {"phone_verified_at"} ELSE d.verified[u]]
<1>1. d.ok /\ DOMAIN d = Fields /\ d.verified \in [Users -> SUBSET VerifiedColumns]
  BY DEF Shaped
<1>2. e = [d EXCEPT !.verified = v]
  BY <1>1 DEF Apply, Accepts, Statement, Run, Step
<1>3. v \in [Users -> SUBSET VerifiedColumns]
  BY <1>1 DEF VerifiedColumns
<1>4. \A u \in Users : d.verified[u] # {} => "phone_verified_at" \in v[u]
  BY <1>1 DEF VerifiedColumns
<1>. HIDE DEF v
<1>5. DOMAIN e = Fields /\ e.tables = d.tables /\ (e.ok <=> d.ok) /\ e.verified = v
      /\ e.phone = d.phone /\ SameBut(d, e, {"verified"})
  BY <1>1, <1>2 DEF Fields, SameBut
<1>. QED
  BY <1>1, <1>3, <1>4, <1>5 DEF Shaped

LEMMA Seeded ==
  ASSUME NEW d, NEW D, NEW C, Shaped(d, D, C), NEW e, e = Apply(d, Run("seed categories"))
  PROVE  Shaped(e, D, C) /\ SameBut(d, e, {"categories"}) /\ e.categories = BuiltIn
<1>1. d.ok /\ DOMAIN d = Fields
  BY DEF Shaped
<1>2. e = [d EXCEPT !.categories = BuiltIn]
  BY <1>1 DEF Apply, Accepts, Statement, Run, Step
<1>3. DOMAIN e = Fields /\ e.tables = d.tables /\ (e.ok <=> d.ok) /\ e.verified = d.verified
      /\ e.phone = d.phone /\ e.categories = BuiltIn /\ SameBut(d, e, {"categories"})
  BY <1>1, <1>2 DEF Fields, SameBut
<1>. QED
  BY <1>1, <1>3 DEF Shaped

LEMMA Numbered ==
  ASSUME NEW d, NEW D, NEW C, Shaped(d, D, C), NEW sql \in {"to identity", "to serial"},
         NEW e, e = Apply(d, Run(sql))
  PROVE  /\ Shaped(e, D, C) /\ SameBut(d, e, {"serial"})
         /\ sql = "to identity" => e.serial = {}
<1>. DEFINE s == IF sql = "to identity" THEN {} ELSE DOMAIN d.tables
<1>1. d.ok /\ DOMAIN d = Fields
  BY DEF Shaped
<1>2. e = [d EXCEPT !.serial = s]
  BY <1>1 DEF Apply, Accepts, Statement, Run, Step
<1>. HIDE DEF s
<1>3. DOMAIN e = Fields /\ e.tables = d.tables /\ (e.ok <=> d.ok) /\ e.verified = d.verified
      /\ e.phone = d.phone /\ e.serial = s /\ SameBut(d, e, {"serial"})
  BY <1>1, <1>2 DEF Fields, SameBut
<1>. QED
  BY <1>1, <1>3 DEF Shaped, s

\* Of the numbers without hyphens the two updates take one kind each.
LEMMA Hyphenated ==
  ASSUME NEW d, NEW D, NEW C, Shaped(d, D, C),
         NEW sql \in {"hyphens 11", "hyphens 10", "no hyphens"}, NEW e, e = Apply(d, Run(sql))
  PROVE  /\ Shaped(e, D, C) /\ SameBut(d, e, {"phone"})
         /\ \A f \in Phones :
               /\ sql = "hyphens 11" => e.phone[f] \in {d.phone[f], "hyphens11"} \ {"digits11"}
               /\ sql = "hyphens 10" => e.phone[f] \in {d.phone[f], "hyphens10"} \ {"digits10"}
<1>. DEFINE p == [f \in Phones |->
                    CASE sql = "hyphens 11" ->
                            IF d.phone[f] = "digits11" THEN Digits[d.phone[f]] ELSE d.phone[f]
                      [] sql = "hyphens 10" ->
                            IF d.phone[f] = "digits10" THEN Digits[d.phone[f]] ELSE d.phone[f]
                      [] sql = "no hyphens" ->
                            IF d.phone[f] \in DOMAIN Hyphen THEN Hyphen[d.phone[f]]
                            ELSE d.phone[f]]
<1>1. d.ok /\ DOMAIN d = Fields /\ d.phone \in [Phones -> PhoneForms]
  BY DEF Shaped
<1>2. e = [d EXCEPT !.phone = p]
  BY <1>1 DEF Apply, Accepts, Statement, Run, Step
<1>3. /\ Digits["digits11"] = "hyphens11" /\ Digits["digits10"] = "hyphens10"
      /\ DOMAIN Hyphen = {"hyphens11", "hyphens10"}
      /\ Hyphen["hyphens11"] = "digits11" /\ Hyphen["hyphens10"] = "digits10"
  BY DEF Digits, Hyphen
<1>4. ASSUME NEW f \in Phones
      PROVE  /\ p[f] \in PhoneForms
             /\ sql = "hyphens 11" => p[f] \in {d.phone[f], "hyphens11"} \ {"digits11"}
             /\ sql = "hyphens 10" => p[f] \in {d.phone[f], "hyphens10"} \ {"digits10"}
  <2>1. d.phone[f] \in PhoneForms
    BY <1>1
  <2>2. CASE sql = "hyphens 11"
    BY <1>3, <2>1, <2>2 DEF PhoneForms
  <2>3. CASE sql = "hyphens 10"
    BY <1>3, <2>1, <2>3 DEF PhoneForms
  <2>4. CASE sql = "no hyphens"
    BY <1>3, <2>1, <2>4 DEF PhoneForms
  <2>. QED
    BY <2>2, <2>3, <2>4
<1>5. p \in [Phones -> PhoneForms]
  BY <1>4
<1>. HIDE DEF p
<1>6. DOMAIN e = Fields /\ e.tables = d.tables /\ (e.ok <=> d.ok) /\ e.verified = d.verified
      /\ e.phone = p /\ SameBut(d, e, {"phone"})
  BY <1>1, <1>2 DEF Fields, SameBut
<1>. QED
  BY <1>1, <1>4, <1>5, <1>6 DEF Shaped

\* What is refused once stays refused.
LEMMA StaysRefused ==
  ASSUME NEW d, DOMAIN d = Fields, ~d.ok, NEW s, NEW e, e = Apply(d, s)
  PROVE  DOMAIN e = Fields /\ ~e.ok
BY DEF Apply, Fields

\* Scripts of a few steps.
LEMMA Applied1 == ASSUME NEW d, NEW a PROVE Applied(d, <<a>>) = Apply(d, a)
<1>1. PICK f : Passes(f, d, <<a>>)
  BY AppliedRuns
<1>. QED
  BY <1>1 DEF Passes

LEMMA Applied2 ==
  ASSUME NEW d, NEW a, NEW b PROVE Applied(d, <<a, b>>) = Apply(Apply(d, a), b)
<1>. DEFINE s == <<a, b>>
<1>1. Len(s) = 2 /\ s[1] = a /\ s[2] = b
  OBVIOUS
<1>. HIDE DEF s
<1>2. PICK f : Passes(f, d, s)
  <2>1. Len(s) \in Nat
    BY <1>1
  <2>. QED
    BY <2>1, AppliedRuns
<1>3. f[1] = Apply(f[0], a) /\ f[2] = Apply(f[1], b)
  BY <1>1, <1>2 DEF Passes
<1>. QED
  BY <1>1, <1>2, <1>3 DEF s, Passes

LEMMA Applied3 ==
  ASSUME NEW d, NEW a, NEW b, NEW c
  PROVE  Applied(d, <<a, b, c>>) = Apply(Apply(Apply(d, a), b), c)
<1>. DEFINE s == <<a, b, c>>
<1>1. Len(s) = 3 /\ s[1] = a /\ s[2] = b /\ s[3] = c
  OBVIOUS
<1>. HIDE DEF s
<1>2. PICK f : Passes(f, d, s)
  <2>1. Len(s) \in Nat
    BY <1>1
  <2>. QED
    BY <2>1, AppliedRuns
<1>3. f[1] = Apply(f[0], a) /\ f[2] = Apply(f[1], b) /\ f[3] = Apply(f[2], c)
  BY <1>1, <1>2 DEF Passes
<1>. QED
  BY <1>1, <1>2, <1>3 DEF s, Passes

LEMMA Applied4 ==
  ASSUME NEW d, NEW a, NEW b, NEW c, NEW k
  PROVE  Applied(d, <<a, b, c, k>>) = Apply(Apply(Apply(Apply(d, a), b), c), k)
<1>. DEFINE s == <<a, b, c, k>>
<1>1. Len(s) = 4 /\ s[1] = a /\ s[2] = b /\ s[3] = c /\ s[4] = k
  OBVIOUS
<1>. HIDE DEF s
<1>2. PICK f : Passes(f, d, s)
  <2>1. Len(s) \in Nat
    BY <1>1
  <2>. QED
    BY <2>1, AppliedRuns
<1>3. f[1] = Apply(f[0], a) /\ f[2] = Apply(f[1], b) /\ f[3] = Apply(f[2], c) /\ f[4] = Apply(f[3], k)
  BY <1>1, <1>2 DEF Passes
<1>. QED
  BY <1>1, <1>2, <1>3 DEF s, Passes

-----------------------------------------------------------------------------
(***************************************************************************)
(* What holds of a database at revision n, and what the upgrade to n and   *)
(* the downgrade from n make of it.                                        *)
(***************************************************************************)
At(d, n) ==
    /\ Shaped(d, TablesAt(n), ColumnsAt(n))
    /\ d.nameless => n = 5
    /\ n >= 3 => d.serial = {}
    /\ n >= 20 => \A f \in Phones : d.phone[f] \notin {"digits11", "digits10"}

Kept(d, e) == \A u \in Users : d.verified[u] # {} => e.verified[u] # {}

\* The data, and the type left behind, that the upgrade to n stumbles over.
Allows(d, n) ==
    /\ n = 2 => "orders" \notin d.rows
    /\ n = 5 => "users" \notin d.rows
    /\ n = 6 => ~d.nameless
    /\ n = 15 => "contact_status" \notin d.types

Up(d, e, n) ==
    /\ e.ok <=> Allows(d, n)
    /\ ~e.ok => DOMAIN e = Fields
    /\ e.ok => /\ At(e, n) /\ Kept(d, e) /\ e.rows \subseteq d.rows
               /\ (e.nameless <=> d.nameless) /\ e.product = d.product
               /\ e.categories = IF n = 11 THEN BuiltIn ELSE d.categories
               /\ e.types = d.types \cup (IF n = 15 THEN {"contact_status"} ELSE {})

Down(d, e, n) ==
    /\ e.ok <=> (n = 5 => ~d.nameless)
    /\ ~e.ok => DOMAIN e = Fields
    /\ e.ok => At(e, n - 1) /\ e.types = d.types /\ (n > 1 => Kept(d, e))

\* Revision n differs from the one before in columns of t.
Widens(n, t, cs) ==
    /\ t \in TablesAt(n - 1) /\ TablesAt(n) = TablesAt(n - 1)
    /\ cs \cap ColumnsAt(n - 1)[t] = {}
    /\ ColumnsAt(n) = [ColumnsAt(n - 1) EXCEPT ![t] = ColumnsAt(n - 1)[t] \cup cs]

LEMMA WidenedUp ==
  ASSUME NEW n \in 1..22, n \notin {2, 3, 5, 6, 11, 15, 20}, NEW t, NEW cs, Widens(n, t, cs),
         NEW d, At(d, n - 1), NEW e, e = Applied(d, <<Add(t, cs)>>)
  PROVE  Up(d, e, n)
<1>1. e = Apply(d, Add(t, cs))
  BY Applied1
<1>2. /\ Shaped(d, TablesAt(n - 1), ColumnsAt(n - 1)) /\ ~d.nameless
      /\ n >= 3 => d.serial = {}
      /\ n >= 20 => \A f \in Phones : d.phone[f] \notin {"digits11", "digits10"}
  BY DEF At
<1>3. Shaped(e, TablesAt(n), ColumnsAt(n)) /\ SameRows(d, e)
  BY <1>1, <1>2, Added DEF Widens
<1>. QED
  BY <1>2, <1>3 DEF Up, At, Allows, Kept, SameRows, Shaped

LEMMA WidenedDown ==
  ASSUME NEW n \in 2..22, n # 5, NEW t, NEW cs, Widens(n, t, cs), cs \cap VerifiedColumns = {},
         NEW d, At(d, n), NEW e, e = Applied(d, <<DropCol(t, cs)>>)
  PROVE  Down(d, e, n)
<1>. DEFINE C == ColumnsAt(n - 1)
            K == ColumnsAt(n)
<1>1. e = Apply(d, DropCol(t, cs))
  BY Applied1
<1>2. /\ Shaped(d, TablesAt(n), K) /\ ~d.nameless
      /\ n >= 3 => d.serial = {}
      /\ n >= 20 => \A f \in Phones : d.phone[f] \notin {"digits11", "digits10"}
  BY DEF At
<1>3. /\ TablesAt(n) = TablesAt(n - 1) /\ t \in TablesAt(n) /\ t \in AllTables
      /\ K = [C EXCEPT ![t] = C[t] \cup cs] /\ cs \cap C[t] = {}
  BY <1>2 DEF Widens, Shaped
<1>4. DOMAIN C = AllTables /\ C = [x \in AllTables |-> C[x]]
  BY DEF ColumnsAt
<1>. HIDE DEF C, K
<1>5. cs \subseteq K[t] /\ [K EXCEPT ![t] = K[t] \ cs] = C
  <2>1. DOMAIN K = AllTables /\ K[t] = C[t] \cup cs /\ K[t] \ cs = C[t]
        /\ \A x \in AllTables \ {t} : K[x] = C[x]
    BY <1>3, <1>4
  <2>. DEFINE M == [K EXCEPT ![t] = K[t] \ cs]
  <2>2. DOMAIN M = AllTables /\ \A x \in AllTables : M[x] = C[x]
    BY <1>3, <2>1
  <2>. QED
    BY <1>4, <2>1, <2>2
<1>6. Shaped(e, TablesAt(n), [K EXCEPT ![t] = K[t] \ cs]) /\ SameRows(d, e)
  <2>1. Shaped(d, TablesAt(n), K) /\ t \in TablesAt(n) /\ cs \subseteq K[t]
        /\ cs \cap VerifiedColumns = {}
    BY <1>2, <1>3, <1>5
  <2>. QED
    BY <1>1, <2>1, Dropped
<1>. QED
  BY <1>2, <1>3, <1>5, <1>6 DEF Down, At, Kept, SameRows, Shaped, C

LEMMA WidensIf ==
  ASSUME NEW n \in 1..22, NEW t \in TablesAt(n - 1), t \in AllTables,
         TablesAt(n) = TablesAt(n - 1),
         NEW cs, cs \cap ColumnsAt(n - 1)[t] = {}, ColumnsAt(n)[t] = ColumnsAt(n - 1)[t] \cup cs,
         \A x \in AllTables \ {t} : ColumnsAt(n)[x] = ColumnsAt(n - 1)[x]
  PROVE  Widens(n, t, cs)
<1>. DEFINE C == ColumnsAt(n - 1)
            K == ColumnsAt(n)
<1>1. /\ DOMAIN C = AllTables /\ C = [x \in AllTables |-> C[x]]
      /\ DOMAIN K = AllTables /\ K = [x \in AllTables |-> K[x]]
  BY DEF ColumnsAt
<1>2. K[t] = C[t] \cup cs /\ \A x \in AllTables \ {t} : K[x] = C[x]
  OBVIOUS
<1>. HIDE DEF C, K
<1>3. K = [C EXCEPT ![t] = C[t] \cup cs]
  BY <1>1, <1>2
<1>. QED
  BY <1>3 DEF Widens, C, K

LEMMA Wide7 == Widens(7, "users", {"must_change_password"})
<1>1. \A x \in AllTables \ {"users"} : ColumnsAt(7)[x] = ColumnsAt(6)[x]
  BY DEF ColumnsAt, Columns, UserColumns, OrderItemColumns, From, Until
<1>2. ColumnsAt(7)["users"] = UserColumns(7) /\ ColumnsAt(6)["users"] = UserColumns(6)
  BY DEF ColumnsAt, Columns, AllTables, FirstTables
<1>3. UserColumns(7) = UserColumns(6) \cup {"must_change_password"} /\ {"must_change_password"} \cap UserColumns(6) = {}
  BY DEF UserColumns, From, Until, OldIdentity
<1>4. TablesAt(7) = TablesAt(6) /\ "users" \in TablesAt(6) /\ "users" \in AllTables
  BY DEF TablesAt, From, FirstTables, HelpTables, AllTables
<1>. QED
  BY <1>1, <1>2, <1>3, <1>4, WidensIf

LEMMA Wide10 == Widens(10, "users", {"status"})
<1>1. \A x \in AllTables \ {"users"} : ColumnsAt(10)[x] = ColumnsAt(9)[x]
  BY DEF ColumnsAt, Columns, UserColumns, OrderItemColumns, From, Until
<1>2. ColumnsAt(10)["users"] = UserColumns(10) /\ ColumnsAt(9)["users"] = UserColumns(9)
  BY DEF ColumnsAt, Columns, AllTables, FirstTables
<1>3. UserColumns(10) = UserColumns(9) \cup {"status"} /\ {"status"} \cap UserColumns(9) = {}
  BY DEF UserColumns, From, Until, OldIdentity
<1>4. TablesAt(10) = TablesAt(9) /\ "users" \in TablesAt(9) /\ "users" \in AllTables
  BY DEF TablesAt, From, FirstTables, HelpTables, AllTables
<1>. QED
  BY <1>1, <1>2, <1>3, <1>4, WidensIf

LEMMA Wide12 == Widens(12, "users", {"withdrawn_at"})
<1>1. \A x \in AllTables \ {"users"} : ColumnsAt(12)[x] = ColumnsAt(11)[x]
  BY DEF ColumnsAt, Columns, UserColumns, OrderItemColumns, From, Until
<1>2. ColumnsAt(12)["users"] = UserColumns(12) /\ ColumnsAt(11)["users"] = UserColumns(11)
  BY DEF ColumnsAt, Columns, AllTables, FirstTables
<1>3. UserColumns(12) = UserColumns(11) \cup {"withdrawn_at"} /\ {"withdrawn_at"} \cap UserColumns(11) = {}
  BY DEF UserColumns, From, Until, OldIdentity
<1>4. TablesAt(12) = TablesAt(11) /\ "users" \in TablesAt(11) /\ "users" \in AllTables
  BY DEF TablesAt, From, FirstTables, HelpTables, AllTables
<1>. QED
  BY <1>1, <1>2, <1>3, <1>4, WidensIf

LEMMA Wide13 == Widens(13, "addresses", {"label", "memo"})
<1>1. \A x \in AllTables \ {"addresses"} : ColumnsAt(13)[x] = ColumnsAt(12)[x]
  BY DEF ColumnsAt, Columns, UserColumns, OrderItemColumns, From, Until
<1>2. /\ ColumnsAt(13)["addresses"] = ColumnsAt(12)["addresses"] \cup {"label", "memo"}
      /\ {"label", "memo"} \cap ColumnsAt(12)["addresses"] = {}
  BY DEF ColumnsAt, Columns, AllTables, FirstTables, HelpTables, From, Until
<1>3. TablesAt(13) = TablesAt(12) /\ "addresses" \in TablesAt(12) /\ "addresses" \in AllTables
  BY DEF TablesAt, From, FirstTables, HelpTables, AllTables
<1>. QED
  BY <1>1, <1>2, <1>3, WidensIf

LEMMA Wide14 == Widens(14, "order_items", {"product_brand_snapshot"})
<1>1. \A x \in AllTables \ {"order_items"} : ColumnsAt(14)[x] = ColumnsAt(13)[x]
  BY DEF ColumnsAt, Columns, UserColumns, OrderItemColumns, From, Until
<1>2. ColumnsAt(14)["order_items"] = OrderItemColumns(14) /\ ColumnsAt(13)["order_items"] = OrderItemColumns(13)
  BY DEF ColumnsAt, Columns, AllTables, FirstTables
<1>3. OrderItemColumns(14) = OrderItemColumns(13) \cup {"product_brand_snapshot"} /\ {"product_brand_snapshot"} \cap OrderItemColumns(13) = {}
  BY DEF OrderItemColumns, From, Until
<1>4. TablesAt(14) = TablesAt(13) /\ "order_items" \in TablesAt(13) /\ "order_items" \in AllTables
  BY DEF TablesAt, From, FirstTables, HelpTables, AllTables
<1>. QED
  BY <1>1, <1>2, <1>3, <1>4, WidensIf

LEMMA Wide16 == Widens(16, "contacts", {"answer_content"})
<1>1. \A x \in AllTables \ {"contacts"} : ColumnsAt(16)[x] = ColumnsAt(15)[x]
  BY DEF ColumnsAt, Columns, UserColumns, OrderItemColumns, From, Until
<1>2. /\ ColumnsAt(16)["contacts"] = ColumnsAt(15)["contacts"] \cup {"answer_content"}
      /\ {"answer_content"} \cap ColumnsAt(15)["contacts"] = {}
  BY DEF ColumnsAt, Columns, AllTables, FirstTables, HelpTables, From, Until
<1>3. TablesAt(16) = TablesAt(15) /\ "contacts" \in TablesAt(15) /\ "contacts" \in AllTables
  BY DEF TablesAt, From, FirstTables, HelpTables, AllTables
<1>. QED
  BY <1>1, <1>2, <1>3, WidensIf

LEMMA Wide18 == Widens(18, "order_items", {"product_model_name_snapshot"})
<1>1. \A x \in AllTables \ {"order_items"} : ColumnsAt(18)[x] = ColumnsAt(17)[x]
  BY DEF ColumnsAt, Columns, UserColumns, OrderItemColumns, From, Until
<1>2. ColumnsAt(18)["order_items"] = OrderItemColumns(18) /\ ColumnsAt(17)["order_items"] = OrderItemColumns(17)
  BY DEF ColumnsAt, Columns, AllTables, FirstTables
<1>3. OrderItemColumns(18) = OrderItemColumns(17) \cup {"product_model_name_snapshot"} /\ {"product_model_name_snapshot"} \cap OrderItemColumns(17) = {}
  BY DEF OrderItemColumns, From, Until
<1>4. TablesAt(18) = TablesAt(17) /\ "order_items" \in TablesAt(17) /\ "order_items" \in AllTables
  BY DEF TablesAt, From, FirstTables, HelpTables, AllTables
<1>. QED
  BY <1>1, <1>2, <1>3, <1>4, WidensIf

LEMMA Wide21 == Widens(21, "users", {"has_password"})
<1>1. \A x \in AllTables \ {"users"} : ColumnsAt(21)[x] = ColumnsAt(20)[x]
  BY DEF ColumnsAt, Columns, UserColumns, OrderItemColumns, From, Until
<1>2. ColumnsAt(21)["users"] = UserColumns(21) /\ ColumnsAt(20)["users"] = UserColumns(20)
  BY DEF ColumnsAt, Columns, AllTables, FirstTables
<1>3. UserColumns(21) = UserColumns(20) \cup {"has_password"} /\ {"has_password"} \cap UserColumns(20) = {}
  BY DEF UserColumns, From, Until, OldIdentity
<1>4. TablesAt(21) = TablesAt(20) /\ "users" \in TablesAt(20) /\ "users" \in AllTables
  BY DEF TablesAt, From, FirstTables, HelpTables, AllTables
<1>. QED
  BY <1>1, <1>2, <1>3, <1>4, WidensIf

LEMMA Wide22 == Widens(22, "product_categories", {"image_url"})
<1>1. \A x \in AllTables \ {"product_categories"} : ColumnsAt(22)[x] = ColumnsAt(21)[x]
  BY DEF ColumnsAt, Columns, UserColumns, OrderItemColumns, From, Until
<1>2. /\ ColumnsAt(22)["product_categories"] = ColumnsAt(21)["product_categories"] \cup {"image_url"}
      /\ {"image_url"} \cap ColumnsAt(21)["product_categories"] = {}
  BY DEF ColumnsAt, Columns, AllTables, FirstTables, HelpTables, From, Until
<1>3. TablesAt(22) = TablesAt(21) /\ "product_categories" \in TablesAt(21) /\ "product_categories" \in AllTables
  BY DEF TablesAt, From, FirstTables, HelpTables, AllTables
<1>. QED
  BY <1>1, <1>2, <1>3, WidensIf

-----------------------------------------------------------------------------
\* Scripts on one table: the columns are those of C, but for t, which has X.
On(d, D, C, t, X) == t \in D /\ Shaped(d, D, [C EXCEPT ![t] = X])

LEMMA AddedOn ==
  ASSUME NEW d, NEW D, NEW C, NEW t, NEW X, On(d, D, C, t, X), NEW cs, cs \cap X = {},
         NEW e, e = Apply(d, Add(t, cs))
  PROVE  On(e, D, C, t, X \cup cs) /\ SameRows(d, e)
<1>. DEFINE Y == X \cup cs
<1>0. PICK K : K = [C EXCEPT ![t] = X]
  OBVIOUS
<1>1. /\ t \in D /\ K[t] = X /\ Shaped(d, D, K)
      /\ [K EXCEPT ![t] = Y] = [C EXCEPT ![t] = Y]
  <2>1. t \in D /\ t \in AllTables /\ DOMAIN C = AllTables
    BY DEF On, Shaped
  <2>. HIDE DEF Y
  <2>. QED
    BY <1>0, <2>1 DEF On
<1>2. Shaped(e, D, [K EXCEPT ![t] = K[t] \cup cs]) /\ SameRows(d, e)
  BY <1>1, Added
<1>. QED
  BY <1>1, <1>2 DEF On

LEMMA RequiredOn ==
  ASSUME NEW d, NEW D, NEW C, NEW t, NEW X, On(d, D, C, t, X), NEW c, c \notin X,
         NEW e, e = Apply(d, AddRequired(t, c))
  PROVE  /\ DOMAIN e = Fields /\ (e.ok <=> t \notin d.rows)
         /\ e.ok => On(e, D, C, t, X \cup {c}) /\ SameRows(d, e)
<1>. DEFINE Y == X \cup {c}
<1>0. PICK K : K = [C EXCEPT ![t] = X]
  OBVIOUS
<1>1. /\ t \in D /\ K[t] = X /\ Shaped(d, D, K)
      /\ [K EXCEPT ![t] = Y] = [C EXCEPT ![t] = Y]
  <2>1. t \in D /\ t \in AllTables /\ DOMAIN C = AllTables
    BY DEF On, Shaped
  <2>. HIDE DEF Y
  <2>. QED
    BY <1>0, <2>1 DEF On
<1>2. /\ DOMAIN e = Fields /\ (e.ok <=> t \notin d.rows)
      /\ e.ok => Shaped(e, D, [K EXCEPT ![t] = K[t] \cup {c}]) /\ SameRows(d, e)
  BY <1>1, RequiredAdded
<1>. QED
  BY <1>1, <1>2 DEF On

LEMMA DroppedOn ==
  ASSUME NEW d, NEW D, NEW C, NEW t, NEW X, On(d, D, C, t, X), NEW cs, cs \subseteq X,
         cs \cap VerifiedColumns = {}, NEW e, e = Apply(d, DropCol(t, cs))
  PROVE  On(e, D, C, t, X \ cs) /\ SameRows(d, e)
<1>. DEFINE Y == X \ cs
<1>0. PICK K : K = [C EXCEPT ![t] = X]
  OBVIOUS
<1>1. /\ t \in D /\ K[t] = X /\ Shaped(d, D, K)
      /\ [K EXCEPT ![t] = Y] = [C EXCEPT ![t] = Y]
  <2>1. t \in D /\ t \in AllTables /\ DOMAIN C = AllTables
    BY DEF On, Shaped
  <2>. HIDE DEF Y
  <2>. QED
    BY <1>0, <2>1 DEF On
<1>2. Shaped(e, D, [K EXCEPT ![t] = K[t] \ cs]) /\ SameRows(d, e)
  BY <1>1, Dropped
<1>. QED
  BY <1>1, <1>2 DEF On

LEMMA RenamedOn ==
  ASSUME NEW d, NEW D, NEW C, NEW t, NEW X, On(d, D, C, t, X), NEW c \in X, NEW new, new \notin X,
         NEW e, e = Apply(d, Rename(t, c, new))
  PROVE  On(e, D, C, t, (X \ {c}) \cup {new}) /\ SameRows(d, e)
<1>. DEFINE Y == (X \ {c}) \cup {new}
<1>0. PICK K : K = [C EXCEPT ![t] = X]
  OBVIOUS
<1>1. /\ t \in D /\ K[t] = X /\ Shaped(d, D, K)
      /\ [K EXCEPT ![t] = Y] = [C EXCEPT ![t] = Y]
  <2>1. t \in D /\ t \in AllTables /\ DOMAIN C = AllTables
    BY DEF On, Shaped
  <2>. HIDE DEF Y
  <2>. QED
    BY <1>0, <2>1 DEF On
<1>2. Shaped(e, D, [K EXCEPT ![t] = (K[t] \ {c}) \cup {new}]) /\ SameRows(d, e)
  BY <1>1, Renamed
<1>. QED
  BY <1>1, <1>2 DEF On

\* The columns at a revision that differ from those of C in t.
LEMMA OnRevision ==
  ASSUME NEW d, NEW D, NEW n, NEW m, NEW t \in D, t \in AllTables,
         \A x \in AllTables \ {t} : ColumnsAt(n)[x] = ColumnsAt(m)[x]
  PROVE  /\ On(d, D, ColumnsAt(m), t, ColumnsAt(n)[t]) <=> Shaped(d, D, ColumnsAt(n))
<1>. DEFINE C == ColumnsAt(m)
            K == ColumnsAt(n)
<1>1. /\ DOMAIN C = AllTables /\ K = [x \in AllTables |-> K[x]]
  BY DEF ColumnsAt
<1>2. \A x \in AllTables \ {t} : K[x] = C[x]
  OBVIOUS
<1>. HIDE DEF C, K
<1>3. K = [C EXCEPT ![t] = K[t]]
  BY <1>1, <1>2
<1>. QED
  BY <1>3 DEF On, C, K

-----------------------------------------------------------------------------
(***************************************************************************)
(* The revisions one by one: from a database as the revision before has    *)
(* it, and back.                                                           *)
(***************************************************************************)

LEMMA Revision7 ==
  ASSUME NEW d
  PROVE  /\ At(d, 6) => Up(d, Applied(d, MustChangeUp), 7)
         /\ At(d, 7) => Down(d, Applied(d, MustChangeDown), 7)
<1>1. 6 = 7 - 1 /\ {"must_change_password"} \cap VerifiedColumns = {}
  BY DEF VerifiedColumns
<1>. QED
  BY <1>1, Wide7, WidenedUp, WidenedDown DEF MustChangeUp, MustChangeDown

LEMMA Revision10 ==
  ASSUME NEW d
  PROVE  /\ At(d, 9) => Up(d, Applied(d, UserStatusUp), 10)
         /\ At(d, 10) => Down(d, Applied(d, UserStatusDown), 10)
<1>1. 9 = 10 - 1 /\ {"status"} \cap VerifiedColumns = {}
  BY DEF VerifiedColumns
<1>. QED
  BY <1>1, Wide10, WidenedUp, WidenedDown DEF UserStatusUp, UserStatusDown

LEMMA Revision12 ==
  ASSUME NEW d
  PROVE  /\ At(d, 11) => Up(d, Applied(d, WithdrawnAtUp), 12)
         /\ At(d, 12) => Down(d, Applied(d, WithdrawnAtDown), 12)
<1>1. 11 = 12 - 1 /\ {"withdrawn_at"} \cap VerifiedColumns = {}
  BY DEF VerifiedColumns
<1>. QED
  BY <1>1, Wide12, WidenedUp, WidenedDown DEF WithdrawnAtUp, WithdrawnAtDown

LEMMA Revision14 ==
  ASSUME NEW d
  PROVE  /\ At(d, 13) => Up(d, Applied(d, BrandSnapshotUp), 14)
         /\ At(d, 14) => Down(d, Applied(d, BrandSnapshotDown), 14)
<1>1. 13 = 14 - 1 /\ {"product_brand_snapshot"} \cap VerifiedColumns = {}
  BY DEF VerifiedColumns
<1>. QED
  BY <1>1, Wide14, WidenedUp, WidenedDown DEF BrandSnapshotUp, BrandSnapshotDown

LEMMA Revision16 ==
  ASSUME NEW d
  PROVE  /\ At(d, 15) => Up(d, Applied(d, AnswerUp), 16)
         /\ At(d, 16) => Down(d, Applied(d, AnswerDown), 16)
<1>1. 15 = 16 - 1 /\ {"answer_content"} \cap VerifiedColumns = {}
  BY DEF VerifiedColumns
<1>. QED
  BY <1>1, Wide16, WidenedUp, WidenedDown DEF AnswerUp, AnswerDown

LEMMA Revision18 ==
  ASSUME NEW d
  PROVE  /\ At(d, 17) => Up(d, Applied(d, ModelSnapshotUp), 18)
         /\ At(d, 18) => Down(d, Applied(d, ModelSnapshotDown), 18)
<1>1. 17 = 18 - 1 /\ {"product_model_name_snapshot"} \cap VerifiedColumns = {}
  BY DEF VerifiedColumns
<1>. QED
  BY <1>1, Wide18, WidenedUp, WidenedDown DEF ModelSnapshotUp, ModelSnapshotDown

LEMMA Revision21 ==
  ASSUME NEW d
  PROVE  /\ At(d, 20) => Up(d, Applied(d, HasPasswordUp), 21)
         /\ At(d, 21) => Down(d, Applied(d, HasPasswordDown), 21)
<1>1. 20 = 21 - 1 /\ {"has_password"} \cap VerifiedColumns = {}
  BY DEF VerifiedColumns
<1>. QED
  BY <1>1, Wide21, WidenedUp, WidenedDown DEF HasPasswordUp, HasPasswordDown

LEMMA Revision22 ==
  ASSUME NEW d
  PROVE  /\ At(d, 21) => Up(d, Applied(d, CategoryImageUp), 22)
         /\ At(d, 22) => Down(d, Applied(d, CategoryImageDown), 22)
<1>1. 21 = 22 - 1 /\ {"image_url"} \cap VerifiedColumns = {}
  BY DEF VerifiedColumns
<1>. QED
  BY <1>1, Wide22, WidenedUp, WidenedDown DEF CategoryImageUp, CategoryImageDown

\* A script that leaves the rows alone.
LEMMA UpSame ==
  ASSUME NEW n \in 1..22, n \notin {3, 11, 15, 20}, NEW d, At(d, n - 1),
         NEW e, e.ok <=> Allows(d, n), ~e.ok => DOMAIN e = Fields,
         e.ok => Shaped(e, TablesAt(n), ColumnsAt(n)) /\ SameRows(d, e)
  PROVE  Up(d, e, n)
BY DEF Up, At, Allows, Kept, SameRows

LEMMA DownSame ==
  ASSUME NEW n \in 2..22, NEW d, At(d, n), NEW e, e.ok <=> (n = 5 => ~d.nameless), ~e.ok => DOMAIN e = Fields,
         e.ok => Shaped(e, TablesAt(n - 1), ColumnsAt(n - 1)) /\ SameRows(d, e)
  PROVE  Down(d, e, n)
BY DEF Down, At, Kept, SameRows

LEMMA Revision13 ==
  ASSUME NEW d
  PROVE  /\ At(d, 12) => Up(d, Applied(d, AddressMemoUp), 13)
         /\ At(d, 13) => Down(d, Applied(d, AddressMemoDown), 13)
<1>. DEFINE t == "addresses"
            D == TablesAt(12)
            C == ColumnsAt(12)
            X == {"phone", "is_default"}
<1>1. /\ TablesAt(13) = D /\ t \in D /\ t \in AllTables
      /\ \A x \in AllTables \ {t} : ColumnsAt(13)[x] = C[x]
  BY Wide13 DEF Widens, ColumnsAt, AllTables, FirstTables
<1>2. C[t] = X /\ ColumnsAt(13)[t] = X \cup {"label", "memo"}
  BY DEF ColumnsAt, Columns, From, AllTables, FirstTables
<1>3. \A e : (On(e, D, C, t, X) <=> Shaped(e, D, C))
             /\ (On(e, D, C, t, X \cup {"label", "memo"}) <=> Shaped(e, D, ColumnsAt(13)))
  BY <1>1, <1>2, OnRevision
<1>. HIDE DEF D, C
<1>4. ASSUME At(d, 12) PROVE Up(d, Applied(d, AddressMemoUp), 13)
  <2>1. PICK x : x = Apply(d, Add(t, {"label"}))
    OBVIOUS
  <2>2. PICK e : e = Apply(x, Add(t, {"memo"}))
    OBVIOUS
  <2>3. Applied(d, AddressMemoUp) = e
    BY <2>1, <2>2, Applied2 DEF AddressMemoUp
  <2>4. On(d, D, C, t, X)
    BY <1>3, <1>4 DEF At, D, C
  <2>5. On(x, D, C, t, X \cup {"label"}) /\ SameRows(d, x)
    BY <2>1, <2>4, AddedOn
  <2>6. On(e, D, C, t, (X \cup {"label"}) \cup {"memo"}) /\ SameRows(x, e)
    BY <2>2, <2>5, AddedOn
  <2>7. (X \cup {"label"}) \cup {"memo"} = X \cup {"label", "memo"}
    OBVIOUS
  <2>8. Shaped(e, TablesAt(13), ColumnsAt(13)) /\ SameRows(d, e)
    BY <1>1, <1>3, <2>5, <2>6, <2>7 DEF SameRows
  <2>. QED
    BY <1>4, <2>3, <2>8, UpSame DEF Allows, Shaped
<1>5. ASSUME At(d, 13) PROVE Down(d, Applied(d, AddressMemoDown), 13)
  <2>1. PICK x : x = Apply(d, DropCol(t, {"memo"}))
    OBVIOUS
  <2>2. PICK e : e = Apply(x, DropCol(t, {"label"}))
    OBVIOUS
  <2>3. Applied(d, AddressMemoDown) = e
    BY <2>1, <2>2, Applied2 DEF AddressMemoDown
  <2>. DEFINE Y == X \cup {"label", "memo"}
  <2>4. On(d, D, C, t, Y)
    BY <1>1, <1>3, <1>5 DEF At
  <2>5. On(x, D, C, t, Y \ {"memo"}) /\ SameRows(d, x)
    BY <2>1, <2>4, DroppedOn DEF VerifiedColumns
  <2>6. On(e, D, C, t, (Y \ {"memo"}) \ {"label"}) /\ SameRows(x, e)
    BY <2>2, <2>5, DroppedOn DEF VerifiedColumns
  <2>7. (Y \ {"memo"}) \ {"label"} = X
    OBVIOUS
  <2>8. Shaped(e, TablesAt(12), ColumnsAt(12)) /\ SameRows(d, e)
    BY <1>3, <2>5, <2>6, <2>7 DEF SameRows, D, C
  <2>. QED
    BY <1>5, <2>3, <2>8, DownSame DEF Shaped
<1>. QED
  BY <1>4, <1>5

LEMMA Revision17 ==
  ASSUME NEW d
  PROVE  /\ At(d, 16) => Up(d, Applied(d, ContactPhoneUp), 17)
         /\ At(d, 17) => Down(d, Applied(d, ContactPhoneDown), 17)
<1>. DEFINE t == "contacts"
            D == TablesAt(16)
            C == ColumnsAt(16)
            X == {"status", "answer_content"}
            Y == X \cup {"phone"}
<1>1. TablesAt(17) = D /\ t \in D /\ t \in AllTables
  BY DEF TablesAt, From, FirstTables, HelpTables, AllTables
<1>2. \A x \in AllTables \ {t} : ColumnsAt(17)[x] = C[x]
  BY DEF ColumnsAt, Columns, UserColumns, OrderItemColumns, From, Until
<1>3. C[t] = Y /\ ColumnsAt(17)[t] = X
  BY DEF ColumnsAt, Columns, From, Until, AllTables, FirstTables, HelpTables
<1>4. \A e : (On(e, D, C, t, Y) <=> Shaped(e, D, C))
             /\ (On(e, D, C, t, X) <=> Shaped(e, D, ColumnsAt(17)))
  BY <1>1, <1>2, <1>3, OnRevision
<1>. HIDE DEF D, C
<1>5. ASSUME At(d, 16) PROVE Up(d, Applied(d, ContactPhoneUp), 17)
  <2>1. PICK e : e = Apply(d, DropCol(t, {"phone"}))
    OBVIOUS
  <2>2. Applied(d, ContactPhoneUp) = e
    BY <2>1, Applied1 DEF ContactPhoneUp
  <2>3. On(d, D, C, t, Y)
    BY <1>4, <1>5 DEF At, D, C
  <2>4. On(e, D, C, t, Y \ {"phone"}) /\ SameRows(d, e)
    BY <2>1, <2>3, DroppedOn DEF VerifiedColumns
  <2>5. Y \ {"phone"} = X
    OBVIOUS
  <2>6. Shaped(e, TablesAt(17), ColumnsAt(17)) /\ SameRows(d, e)
    BY <1>1, <1>4, <2>4, <2>5
  <2>. QED
    BY <1>5, <2>2, <2>6, UpSame DEF Allows, Shaped
<1>6. ASSUME At(d, 17) PROVE Down(d, Applied(d, ContactPhoneDown), 17)
  <2>1. PICK e : e = Apply(d, Add(t, {"phone"}))
    OBVIOUS
  <2>2. Applied(d, ContactPhoneDown) = e
    BY <2>1, Applied1 DEF ContactPhoneDown
  <2>3. On(d, D, C, t, X)
    BY <1>1, <1>4, <1>6 DEF At
  <2>4. On(e, D, C, t, Y) /\ SameRows(d, e)
    BY <2>1, <2>3, AddedOn
  <2>5. Shaped(e, TablesAt(16), ColumnsAt(16)) /\ SameRows(d, e)
    BY <1>4, <2>4 DEF D, C
  <2>. QED
    BY <1>6, <2>2, <2>5, DownSame DEF Shaped
<1>. QED
  BY <1>5, <1>6

\* Two tables: the columns between the two steps are those of M.
LEMMA Revision4 ==
  ASSUME NEW d
  PROVE  /\ At(d, 3) => Up(d, Applied(d, ImageLabelUp), 4)
         /\ At(d, 4) => Down(d, Applied(d, ImageLabelDown), 4)
<1>. DEFINE o == "order_items"
            i == "product_images"
            D == TablesAt(3)
            C == ColumnsAt(3)
            K == ColumnsAt(4)
            cs == {"product_image_url_snapshot"}
            M == [C EXCEPT ![o] = C[o] \cup cs]
<1>1. TablesAt(4) = D /\ {o, i} \subseteq D
  BY DEF TablesAt, From, FirstTables, HelpTables
<1>2. /\ DOMAIN C = AllTables /\ C = [x \in AllTables |-> C[x]]
      /\ DOMAIN K = AllTables /\ K = [x \in AllTables |-> K[x]] /\ {o, i} \subseteq AllTables
  BY DEF ColumnsAt, AllTables, FirstTables
<1>3. \A x \in AllTables \ {o, i} : K[x] = C[x]
  BY DEF ColumnsAt, Columns, UserColumns, From, Until
<1>4. /\ C[o] = {"price_snapshot"} /\ K[o] = C[o] \cup cs
      /\ C[i] = {"url"} /\ K[i] = C[i] \cup {"label"}
  BY DEF ColumnsAt, Columns, OrderItemColumns, From, AllTables, FirstTables
<1>. HIDE DEF D, C, K
<1>5. /\ [M EXCEPT ![i] = M[i] \cup {"label"}] = K
      /\ [K EXCEPT ![i] = K[i] \ {"label"}] = M
      /\ [M EXCEPT ![o] = M[o] \ cs] = C
      /\ M[i] = C[i] /\ M[o] = C[o] \cup cs
  <2>1. /\ DOMAIN M = AllTables /\ M = [x \in AllTables |-> M[x]]
        /\ M[o] = C[o] \cup cs /\ \A x \in AllTables \ {o} : M[x] = C[x]
    BY <1>2
  <2>2. K[i] \ {"label"} = C[i] /\ K[o] \ cs = C[o]
    BY <1>4
  <2>. HIDE DEF M
  <2>3. [M EXCEPT ![i] = M[i] \cup {"label"}] = K
    BY <1>2, <1>3, <1>4, <2>1
  <2>4. [K EXCEPT ![i] = K[i] \ {"label"}] = M
    BY <1>2, <1>3, <1>4, <2>1, <2>2
  <2>5. [M EXCEPT ![o] = M[o] \ cs] = C
    BY <1>2, <1>4, <2>1, <2>2
  <2>. QED
    BY <1>2, <2>1, <2>3, <2>4, <2>5
<1>. HIDE DEF M
<1>6. ASSUME At(d, 3) PROVE Up(d, Applied(d, ImageLabelUp), 4)
  <2>1. PICK x : x = Apply(d, Add(o, cs))
    OBVIOUS
  <2>2. PICK e : e = Apply(x, Add(i, {"label"}))
    OBVIOUS
  <2>3. Applied(d, ImageLabelUp) = e
    BY <2>1, <2>2, Applied2 DEF ImageLabelUp
  <2>4. Shaped(d, D, C) /\ cs \cap C[o] = {}
    BY <1>4, <1>6 DEF At, D, C
  <2>5. Shaped(x, D, M) /\ SameRows(d, x)
    BY <1>1, <2>1, <2>4, Added DEF M
  <2>6. Shaped(e, D, K) /\ SameRows(x, e)
    <3>1. i \in D /\ {"label"} \cap M[i] = {}
      BY <1>1, <1>4, <1>5
    <3>2. Shaped(e, D, [M EXCEPT ![i] = M[i] \cup {"label"}]) /\ SameRows(x, e)
      BY <2>2, <2>5, <3>1, Added
    <3>. QED
      BY <1>5, <3>2
  <2>7. Shaped(e, TablesAt(4), ColumnsAt(4)) /\ SameRows(d, e)
    BY <1>1, <2>5, <2>6 DEF SameRows, K
  <2>. QED
    BY <1>6, <2>3, <2>7, UpSame DEF Allows, Shaped
<1>7. ASSUME At(d, 4) PROVE Down(d, Applied(d, ImageLabelDown), 4)
  <2>1. PICK x : x = Apply(d, DropCol(i, {"label"}))
    OBVIOUS
  <2>2. PICK e : e = Apply(x, DropCol(o, cs))
    OBVIOUS
  <2>3. Applied(d, ImageLabelDown) = e
    BY <2>1, <2>2, Applied2 DEF ImageLabelDown
  <2>4. Shaped(d, D, K) /\ {"label"} \subseteq K[i] /\ {"label"} \cap VerifiedColumns = {}
        /\ cs \cap VerifiedColumns = {} /\ cs \subseteq M[o]
    BY <1>1, <1>4, <1>5, <1>7 DEF At, K, VerifiedColumns
  <2>5. Shaped(x, D, M) /\ SameRows(d, x)
    <3>1. i \in D
      BY <1>1
    <3>2. Shaped(x, D, [K EXCEPT ![i] = K[i] \ {"label"}]) /\ SameRows(d, x)
      BY <2>1, <2>4, <3>1, Dropped
    <3>. QED
      BY <1>5, <3>2
  <2>6. Shaped(e, D, C) /\ SameRows(x, e)
    BY <1>1, <1>5, <2>2, <2>4, <2>5, Dropped
  <2>7. Shaped(e, TablesAt(3), ColumnsAt(3)) /\ SameRows(d, e)
    BY <2>5, <2>6 DEF SameRows, D, C
  <2>. QED
    BY <1>7, <2>3, <2>7, DownSame DEF Shaped
<1>. QED
  BY <1>6, <1>7

LEMMA Revision2 ==
  ASSUME NEW d
  PROVE  /\ At(d, 1) => Up(d, Applied(d, ShippingMethodUp), 2)
         /\ At(d, 2) => Down(d, Applied(d, ShippingMethodDown), 2)
<1>. DEFINE o == "orders"
            p == "payments"
            D == TablesAt(1)
            C == ColumnsAt(1)
            K == ColumnsAt(2)
            X == {"recipient_phone"}
            Y == X \cup {"discount_amount", "shipping_method"}
            M == [C EXCEPT ![o] = Y]
<1>1. TablesAt(2) = D /\ {o, p} \subseteq D
  BY DEF TablesAt, From, FirstTables, HelpTables
<1>2. /\ DOMAIN C = AllTables /\ C = [x \in AllTables |-> C[x]]
      /\ DOMAIN K = AllTables /\ K = [x \in AllTables |-> K[x]] /\ {o, p} \subseteq AllTables
  BY DEF ColumnsAt, AllTables, FirstTables
<1>3. \A x \in AllTables \ {o, p} : K[x] = C[x]
  BY DEF ColumnsAt, Columns, UserColumns, OrderItemColumns, From, Until
<1>4. /\ C[o] = X /\ K[o] = Y
      /\ C[p] = {"pg_tid"} /\ K[p] = C[p] \cup CardColumns
  BY DEF ColumnsAt, Columns, From, AllTables, FirstTables
<1>5. /\ CardColumns \cap {"pg_tid"} = {} /\ CardColumns \cap VerifiedColumns = {}
      /\ {"discount_amount"} \cap VerifiedColumns = {}
      /\ {"shipping_method"} \cap VerifiedColumns = {}
  BY DEF CardColumns, VerifiedColumns
<1>. HIDE DEF D, C, K
<1>6. /\ [M EXCEPT ![p] = M[p] \cup CardColumns] = K
      /\ [K EXCEPT ![p] = K[p] \ CardColumns] = M
      /\ [C EXCEPT ![o] = X] = C
      /\ M[p] = C[p] /\ CardColumns \cap M[p] = {}
  <2>1. /\ DOMAIN M = AllTables /\ M = [x \in AllTables |-> M[x]]
        /\ M[o] = Y /\ \A x \in AllTables \ {o} : M[x] = C[x]
    BY <1>2
  <2>2. K[p] \ CardColumns = C[p]
    BY <1>4, <1>5
  <2>. HIDE DEF M, X, Y
  <2>3. [M EXCEPT ![p] = M[p] \cup CardColumns] = K
    BY <1>2, <1>3, <1>4, <2>1
  <2>4. [K EXCEPT ![p] = K[p] \ CardColumns] = M
    BY <1>2, <1>3, <1>4, <2>1, <2>2
  <2>5. [C EXCEPT ![o] = X] = C
    BY <1>2, <1>4
  <2>. QED
    BY <1>2, <1>4, <1>5, <2>1, <2>3, <2>4, <2>5
<1>7. \A e : On(e, D, C, o, Y) <=> Shaped(e, D, M)
  BY <1>1 DEF On
<1>8. \A e : On(e, D, C, o, X) <=> Shaped(e, D, C)
  BY <1>1, <1>6 DEF On
<1>. HIDE DEF M
<1>9. ASSUME At(d, 1) PROVE Up(d, Applied(d, ShippingMethodUp), 2)
  <2>1. PICK x : x = Apply(d, Add(o, {"discount_amount"}))
    OBVIOUS
  <2>2. PICK y : y = Apply(x, AddRequired(o, "shipping_method"))
    OBVIOUS
  <2>3. PICK e : e = Apply(y, Add(p, CardColumns))
    OBVIOUS
  <2>4. Applied(d, ShippingMethodUp) = e
    BY <2>1, <2>2, <2>3, Applied3 DEF ShippingMethodUp
  <2>5. On(d, D, C, o, X)
    BY <1>8, <1>9 DEF At, D, C
  <2>6. On(x, D, C, o, X \cup {"discount_amount"}) /\ SameRows(d, x)
    BY <2>1, <2>5, AddedOn
  <2>7. /\ DOMAIN y = Fields /\ (y.ok <=> o \notin x.rows)
        /\ y.ok => On(y, D, C, o, (X \cup {"discount_amount"}) \cup {"shipping_method"})
                   /\ SameRows(x, y)
    BY <2>2, <2>6, RequiredOn
  <2>8. (X \cup {"discount_amount"}) \cup {"shipping_method"} = Y
    OBVIOUS
  <2>9. y.ok => Shaped(y, D, M) /\ SameRows(d, y)
    BY <1>7, <2>6, <2>7, <2>8 DEF SameRows
  <2>10. y.ok => Shaped(e, D, K) /\ SameRows(y, e)
    <3>1. y.ok => Shaped(e, D, [M EXCEPT ![p] = M[p] \cup CardColumns]) /\ SameRows(y, e)
      BY <1>1, <1>6, <2>3, <2>9, Added
    <3>. QED
      BY <1>6, <3>1
  <2>11. ~y.ok => ~e.ok /\ DOMAIN e = Fields
    BY <2>3, <2>7, StaysRefused
  <2>12. y.ok <=> Allows(d, 2)
    BY <2>6, <2>7 DEF Allows, SameRows
  <2>13. e.ok <=> Allows(d, 2)
    BY <2>10, <2>11, <2>12 DEF Shaped
  <2>14. e.ok => Shaped(e, TablesAt(2), ColumnsAt(2)) /\ SameRows(d, e)
    BY <1>1, <2>9, <2>10, <2>11 DEF SameRows, K
  <2>. QED
    BY <1>9, <2>4, <2>11, <2>12, <2>13, <2>14, UpSame
<1>10. ASSUME At(d, 2) PROVE Down(d, Applied(d, ShippingMethodDown), 2)
  <2>1. PICK x : x = Apply(d, DropCol(p, CardColumns))
    OBVIOUS
  <2>2. PICK y : y = Apply(x, DropCol(o, {"shipping_method"}))
    OBVIOUS
  <2>3. PICK e : e = Apply(y, DropCol(o, {"discount_amount"}))
    OBVIOUS
  <2>4. Applied(d, ShippingMethodDown) = e
    BY <2>1, <2>2, <2>3, Applied3 DEF ShippingMethodDown
  <2>5. Shaped(d, D, K) /\ CardColumns \subseteq K[p] /\ p \in D
    BY <1>1, <1>4, <1>10 DEF At, K
  <2>6. Shaped(x, D, [K EXCEPT ![p] = K[p] \ CardColumns]) /\ SameRows(d, x)
    BY <1>5, <2>1, <2>5, Dropped
  <2>7. On(x, D, C, o, Y)
    BY <1>6, <1>7, <2>6
  <2>8. On(y, D, C, o, Y \ {"shipping_method"}) /\ SameRows(x, y)
    BY <1>5, <2>2, <2>7, DroppedOn
  <2>9. On(e, D, C, o, (Y \ {"shipping_method"}) \ {"discount_amount"}) /\ SameRows(y, e)
    BY <1>5, <2>3, <2>8, DroppedOn
  <2>10. (Y \ {"shipping_method"}) \ {"discount_amount"} = X
    OBVIOUS
  <2>11. Shaped(e, TablesAt(1), ColumnsAt(1)) /\ SameRows(d, e)
    BY <1>8, <2>6, <2>8, <2>9, <2>10 DEF SameRows, D, C
  <2>. QED
    BY <1>10, <2>4, <2>11, DownSame DEF Shaped
<1>. QED
  BY <1>9, <1>10

LEMMA Applied5 ==
  ASSUME NEW d, NEW a, NEW b, NEW c, NEW k, NEW l
  PROVE  Applied(d, <<a, b, c, k, l>>) = Apply(Apply(Apply(Apply(Apply(d, a), b), c), k), l)
<1>. DEFINE s == <<a, b, c, k, l>>
<1>1. Len(s) = 5 /\ s[1] = a /\ s[2] = b /\ s[3] = c /\ s[4] = k /\ s[5] = l
  OBVIOUS
<1>. HIDE DEF s
<1>2. PICK f : Passes(f, d, s)
  <2>1. Len(s) \in Nat
    BY <1>1
  <2>. QED
    BY <2>1, AppliedRuns
<1>3. f[1] = Apply(f[0], a) /\ f[2] = Apply(f[1], b) /\ f[3] = Apply(f[2], c) /\ f[4] = Apply(f[3], k)
      /\ f[5] = Apply(f[4], l)
  BY <1>1, <1>2 DEF Passes
<1>. QED
  BY <1>1, <1>2, <1>3 DEF s, Passes

LEMMA Revision5 ==
  ASSUME NEW d
  PROVE  /\ At(d, 4) => Up(d, Applied(d, ConsentUp), 5)
         /\ At(d, 5) => Down(d, Applied(d, ConsentDown), 5)
<1>. DEFINE t == "users"
            D == TablesAt(4)
            C == ColumnsAt(4)
            X == UserColumns(4)
            Y == UserColumns(5)
            n1 == "username"
            n2 == "agreed_terms_at"
            n3 == "agreed_privacy_at"
            n4 == "agreed_marketing_at"
<1>1. TablesAt(5) = D /\ t \in D /\ t \in AllTables
  BY DEF TablesAt, From, FirstTables, HelpTables, AllTables
<1>2. \A x \in AllTables \ {t} : ColumnsAt(5)[x] = C[x]
  BY DEF ColumnsAt, Columns, OrderItemColumns, From, Until
<1>3. C[t] = X /\ ColumnsAt(5)[t] = Y
  BY DEF ColumnsAt, Columns, AllTables, FirstTables
<1>4. Y = X \cup {n1, n2, n3, n4} /\ X \cap {n1, n2, n3, n4} = {} /\ "name" \in Y
  BY DEF UserColumns, From, Until, OldIdentity
<1>5. \A e : (On(e, D, C, t, X) <=> Shaped(e, D, C))
             /\ (On(e, D, C, t, Y) <=> Shaped(e, D, ColumnsAt(5)))
  BY <1>1, <1>2, <1>3, OnRevision
<1>. HIDE DEF D, C, X, Y
<1>6. ASSUME At(d, 4) PROVE Up(d, Applied(d, ConsentUp), 5)
  <2>1. PICK x : x = Apply(d, AddRequired(t, n1))
    OBVIOUS
  <2>2. PICK y : y = Apply(x, AddRequired(t, n2))
    OBVIOUS
  <2>3. PICK z : z = Apply(y, AddRequired(t, n3))
    OBVIOUS
  <2>4. PICK e : e = Apply(z, Add(t, {n4}))
    OBVIOUS
  <2>5. Applied(d, ConsentUp) = e
    BY <2>1, <2>2, <2>3, <2>4, Applied4 DEF ConsentUp
  <2>6. On(d, D, C, t, X)
    BY <1>5, <1>6 DEF At, D, C
  <2>7. /\ DOMAIN x = Fields /\ (x.ok <=> t \notin d.rows)
        /\ x.ok => On(x, D, C, t, X \cup {n1}) /\ SameRows(d, x)
    BY <1>4, <2>1, <2>6, RequiredOn
  <2>8. CASE x.ok
    <3>1. /\ DOMAIN y = Fields /\ (y.ok <=> t \notin x.rows)
          /\ y.ok => On(y, D, C, t, (X \cup {n1}) \cup {n2}) /\ SameRows(x, y)
      <4>1. n2 \notin X \cup {n1}
        BY <1>4
      <4>2. On(x, D, C, t, X \cup {n1})
        BY <2>7, <2>8
      <4>. QED
        BY <2>2, <4>1, <4>2, RequiredOn
    <3>2. y.ok
      BY <2>7, <2>8, <3>1 DEF SameRows
    <3>3. /\ DOMAIN z = Fields /\ (z.ok <=> t \notin y.rows)
          /\ z.ok => On(z, D, C, t, ((X \cup {n1}) \cup {n2}) \cup {n3}) /\ SameRows(y, z)
      <4>1. n3 \notin (X \cup {n1}) \cup {n2}
        BY <1>4
      <4>2. On(y, D, C, t, (X \cup {n1}) \cup {n2})
        BY <3>1, <3>2
      <4>. QED
        BY <2>3, <4>1, <4>2, RequiredOn
    <3>4. z.ok
      BY <3>1, <3>2, <3>3 DEF SameRows
    <3>5. On(e, D, C, t, (((X \cup {n1}) \cup {n2}) \cup {n3}) \cup {n4}) /\ SameRows(z, e)
      <4>1. {n4} \cap (((X \cup {n1}) \cup {n2}) \cup {n3}) = {}
        BY <1>4
      <4>2. On(z, D, C, t, ((X \cup {n1}) \cup {n2}) \cup {n3})
        BY <3>3, <3>4
      <4>. QED
        BY <2>4, <4>1, <4>2, AddedOn
    <3>6. (((X \cup {n1}) \cup {n2}) \cup {n3}) \cup {n4} = Y
      BY <1>4
    <3>7. Shaped(e, TablesAt(5), ColumnsAt(5))
      BY <1>1, <1>5, <3>5, <3>6
    <3>8. SameRows(d, e)
      BY <2>7, <2>8, <3>1, <3>2, <3>3, <3>4, <3>5 DEF SameRows
    <3>9. Allows(d, 5) /\ e.ok
      BY <2>7, <2>8, <3>7 DEF Allows, Shaped
    <3>. QED
      BY <1>6, <2>5, <3>7, <3>8, <3>9, UpSame
  <2>9. CASE ~x.ok
    <3>1. DOMAIN y = Fields /\ ~y.ok
      BY <2>2, <2>7, <2>9, StaysRefused
    <3>2. DOMAIN z = Fields /\ ~z.ok
      BY <2>3, <3>1, StaysRefused
    <3>3. DOMAIN e = Fields /\ ~e.ok
      BY <2>4, <3>2, StaysRefused
    <3>. QED
      BY <2>5, <2>7, <2>9, <3>3 DEF Up, Allows
  <2>. QED
    BY <2>8, <2>9
<1>7. ASSUME At(d, 5) PROVE Down(d, Applied(d, ConsentDown), 5)
  <2>1. PICK w : w = Apply(d, Require(t, "name"))
    OBVIOUS
  <2>2. PICK x : x = Apply(w, DropCol(t, {n4}))
    OBVIOUS
  <2>3. PICK y : y = Apply(x, DropCol(t, {n3}))
    OBVIOUS
  <2>4. PICK z : z = Apply(y, DropCol(t, {n2}))
    OBVIOUS
  <2>5. PICK e : e = Apply(z, DropCol(t, {n1}))
    OBVIOUS
  <2>6. Applied(d, ConsentDown) = e
    BY <2>1, <2>2, <2>3, <2>4, <2>5, Applied5 DEF ConsentDown
  <2>7. On(d, D, C, t, Y)
    BY <1>1, <1>5, <1>7 DEF At
  <2>8. DOMAIN w = Fields /\ (w.ok <=> ~d.nameless) /\ (w.ok => w = d)
    <3>1. Shaped(d, D, ColumnsAt(5)) /\ "name" \in ColumnsAt(5)[t]
      BY <1>3, <1>4, <1>5, <2>7
    <3>. QED
      BY <1>1, <2>1, <3>1, Required
  <2>9. CASE w.ok
    <3>1. On(x, D, C, t, Y \ {n4}) /\ SameRows(d, x)
      BY <1>4, <2>2, <2>7, <2>8, <2>9, DroppedOn DEF VerifiedColumns
    <3>2. On(y, D, C, t, (Y \ {n4}) \ {n3}) /\ SameRows(x, y)
      <4>1. {n3} \subseteq Y \ {n4} /\ {n3} \cap VerifiedColumns = {}
        BY <1>4 DEF VerifiedColumns
      <4>. QED
        BY <2>3, <3>1, <4>1, DroppedOn
    <3>3. On(z, D, C, t, ((Y \ {n4}) \ {n3}) \ {n2}) /\ SameRows(y, z)
      <4>1. {n2} \subseteq (Y \ {n4}) \ {n3} /\ {n2} \cap VerifiedColumns = {}
        BY <1>4 DEF VerifiedColumns
      <4>. QED
        BY <2>4, <3>2, <4>1, DroppedOn
    <3>4. On(e, D, C, t, (((Y \ {n4}) \ {n3}) \ {n2}) \ {n1}) /\ SameRows(z, e)
      <4>1. {n1} \subseteq ((Y \ {n4}) \ {n3}) \ {n2} /\ {n1} \cap VerifiedColumns = {}
        BY <1>4 DEF VerifiedColumns
      <4>. QED
        BY <2>5, <3>3, <4>1, DroppedOn
    <3>5. (((Y \ {n4}) \ {n3}) \ {n2}) \ {n1} = X
      BY <1>4
    <3>6. Shaped(e, TablesAt(4), ColumnsAt(4))
      BY <1>5, <3>4, <3>5 DEF D, C
    <3>7. SameRows(d, e)
      BY <3>1, <3>2, <3>3, <3>4 DEF SameRows
    <3>. QED
      BY <1>7, <2>6, <2>8, <2>9, <3>6, <3>7, DownSame DEF Shaped
  <2>10. CASE ~w.ok
    <3>1. DOMAIN x = Fields /\ ~x.ok
      BY <2>2, <2>8, <2>10, StaysRefused
    <3>2. DOMAIN y = Fields /\ ~y.ok
      BY <2>3, <3>1, StaysRefused
    <3>3. DOMAIN z = Fields /\ ~z.ok
      BY <2>4, <3>2, StaysRefused
    <3>4. DOMAIN e = Fields /\ ~e.ok
      BY <2>5, <3>3, StaysRefused
    <3>. QED
      BY <2>6, <2>8, <2>10, <3>4 DEF Down
  <2>. QED
    BY <2>9, <2>10
<1>. QED
  BY <1>6, <1>7

LEMMA Revision6 ==
  ASSUME NEW d
  PROVE  /\ At(d, 5) => Up(d, Applied(d, LoginIdUp), 6)
         /\ At(d, 6) => Down(d, Applied(d, LoginIdDown), 6)
<1>. DEFINE t == "users"
            D == TablesAt(5)
            C == ColumnsAt(5)
            X == UserColumns(5)
            Y == UserColumns(6)
            Z == X \ {"username", "name"}
<1>1. TablesAt(6) = D /\ t \in D /\ t \in AllTables
  BY DEF TablesAt, From, FirstTables, HelpTables, AllTables
<1>2. \A x \in AllTables \ {t} : ColumnsAt(6)[x] = C[x]
  BY DEF ColumnsAt, Columns, OrderItemColumns, From, Until
<1>3. C[t] = X /\ ColumnsAt(6)[t] = Y
  BY DEF ColumnsAt, Columns, AllTables, FirstTables
<1>4. /\ X = Z \cup {"username", "name"} /\ Y = Z \cup {"username", "login_id"}
      /\ "username" \notin Z /\ "name" \notin Z /\ "login_id" \notin Z
  BY DEF UserColumns, From, Until, OldIdentity
<1>5. \A e : (On(e, D, C, t, X) <=> Shaped(e, D, C))
             /\ (On(e, D, C, t, Y) <=> Shaped(e, D, ColumnsAt(6)))
  BY <1>1, <1>2, <1>3, OnRevision
<1>. HIDE DEF D, C, X, Y, Z
<1>. DEFINE N == (X \ {"username"}) \cup {"login_id"}
<1>6. /\ "username" \in X /\ "login_id" \notin X /\ N = Z \cup {"name", "login_id"}
      /\ "name" \in N /\ "username" \notin N /\ (N \ {"name"}) \cup {"username"} = Y
      /\ "username" \in Y /\ "name" \notin Y /\ (Y \ {"username"}) \cup {"name"} = N
      /\ "login_id" \in N /\ (N \ {"login_id"}) \cup {"username"} = X
  BY <1>4
<1>. HIDE DEF N
<1>7. ASSUME At(d, 5) PROVE Up(d, Applied(d, LoginIdUp), 6)
  <2>1. PICK x : x = Apply(d, Rename(t, "username", "login_id"))
    OBVIOUS
  <2>2. PICK y : y = Apply(x, Require(t, "name"))
    OBVIOUS
  <2>3. PICK e : e = Apply(y, Rename(t, "name", "username"))
    OBVIOUS
  <2>4. Applied(d, LoginIdUp) = e
    BY <2>1, <2>2, <2>3, Applied3 DEF LoginIdUp
  <2>5. On(d, D, C, t, X)
    BY <1>5, <1>7 DEF At, D, C
  <2>6. On(x, D, C, t, N) /\ SameRows(d, x)
    BY <1>6, <2>1, <2>5, RenamedOn DEF N
  <2>7. DOMAIN y = Fields /\ (y.ok <=> ~x.nameless) /\ (y.ok => y = x)
    <3>0. PICK K : K = [C EXCEPT ![t] = N]
      OBVIOUS
    <3>1. Shaped(x, D, K) /\ "name" \in K[t]
      BY <1>1, <1>6, <2>6, <3>0 DEF On, Shaped
    <3>. QED
      BY <1>1, <2>2, <3>1, Required
  <2>8. y.ok => On(e, D, C, t, Y) /\ SameRows(x, e)
    <3>1. y.ok => On(y, D, C, t, N)
      BY <2>6, <2>7
    <3>2. y.ok => On(e, D, C, t, (N \ {"name"}) \cup {"username"}) /\ SameRows(y, e)
      BY <1>6, <2>3, <3>1, RenamedOn
    <3>. QED
      BY <1>6, <2>7, <3>2
  <2>9. ~y.ok => ~e.ok /\ DOMAIN e = Fields
    BY <2>3, <2>7, StaysRefused
  <2>10. y.ok <=> Allows(d, 6)
    BY <2>6, <2>7 DEF Allows, SameRows
  <2>11. y.ok => Shaped(e, TablesAt(6), ColumnsAt(6)) /\ SameRows(d, e)
    BY <1>1, <1>5, <2>6, <2>8 DEF SameRows
  <2>. QED
    BY <1>7, <2>4, <2>9, <2>10, <2>11, UpSame DEF Shaped
<1>8. ASSUME At(d, 6) PROVE Down(d, Applied(d, LoginIdDown), 6)
  <2>1. PICK x : x = Apply(d, Rename(t, "username", "name"))
    OBVIOUS
  <2>2. PICK e : e = Apply(x, Rename(t, "login_id", "username"))
    OBVIOUS
  <2>3. Applied(d, LoginIdDown) = e
    BY <2>1, <2>2, Applied2 DEF LoginIdDown
  <2>4. On(d, D, C, t, Y)
    BY <1>1, <1>5, <1>8 DEF At
  <2>5. On(x, D, C, t, (Y \ {"username"}) \cup {"name"}) /\ SameRows(d, x)
    BY <1>6, <2>1, <2>4, RenamedOn
  <2>6. On(x, D, C, t, N)
    BY <1>6, <2>5
  <2>7. On(e, D, C, t, (N \ {"login_id"}) \cup {"username"}) /\ SameRows(x, e)
    BY <1>6, <2>2, <2>6, RenamedOn
  <2>8. Shaped(e, TablesAt(5), ColumnsAt(5)) /\ SameRows(d, e)
    BY <1>5, <1>6, <2>5, <2>7 DEF SameRows, D, C
  <2>. QED
    BY <1>8, <2>3, <2>8, DownSame DEF Shaped
<1>. QED
  BY <1>7, <1>8

-----------------------------------------------------------------------------
\* A table that is created with the columns that C has for it.
LEMMA CreatedIn ==
  ASSUME NEW d, NEW D, NEW C, Shaped(d, D, C), C = [x \in AllTables |-> C[x]],
         NEW t \in AllTables \ D, NEW cs, cs = C[t],
         NEW ps, ps = Parents[t], ps \subseteq D, NEW e, e = Apply(d, Create(t, cs, ps))
  PROVE  Shaped(e, D \cup {t}, C) /\ SameRows(d, e)
<1>1. Shaped(e, D \cup {t}, [C EXCEPT ![t] = cs]) /\ SameRows(d, e)
  BY Created
<1>2. [C EXCEPT ![t] = cs] = C
  OBVIOUS
<1>. QED
  BY <1>1, <1>2

LEMMA ParentsAre ==
  /\ Parents["products"] = {} /\ Parents["users"] = {} /\ Parents["addresses"] = {"users"}
  /\ Parents["cart_items"] = {"products", "users"}
  /\ Parents["identity_verifications"] = {"users"} /\ Parents["orders"] = {"users"}
  /\ Parents["product_images"] = {"products"}
  /\ Parents["order_items"] = {"orders", "products"}
  /\ Parents["payments"] = {"orders"} /\ Parents["shipments"] = {"orders"}
  /\ Parents["social_accounts"] = {"users"} /\ Parents["favorites"] = {"users", "products"}
  /\ Parents["product_categories"] = {} /\ Parents["faqs"] = {} /\ Parents["notices"] = {}
  /\ Parents["contacts"] = {"users"}
BY DEF Parents, AllTables, FirstTables, HelpTables

\* No table refers to one of these.
LEMMA Leaves ==
  \A x \in AllTables : /\ "social_accounts" \notin Parents[x] /\ "favorites" \notin Parents[x]
                       /\ "product_categories" \notin Parents[x]
                       /\ "contacts" \notin Parents[x] /\ "notices" \notin Parents[x]
                       /\ "faqs" \notin Parents[x] /\ "identity_verifications" \notin Parents[x]
                       /\ "shipments" \notin Parents[x] /\ "payments" \notin Parents[x]
                       /\ "order_items" \notin Parents[x] /\ "product_images" \notin Parents[x]
                       /\ "cart_items" \notin Parents[x] /\ "addresses" \notin Parents[x]
BY DEF Parents

LEMMA ColumnsFcn ==
  ASSUME NEW n PROVE ColumnsAt(n) = [x \in AllTables |-> ColumnsAt(n)[x]]
BY DEF ColumnsAt

\* These revisions change no column.
LEMMA SameColumns ==
  /\ ColumnsAt(3) = ColumnsAt(2) /\ ColumnsAt(8) = ColumnsAt(7) /\ ColumnsAt(9) = ColumnsAt(8)
  /\ ColumnsAt(11) = ColumnsAt(10) /\ ColumnsAt(15) = ColumnsAt(14)
  /\ ColumnsAt(20) = ColumnsAt(19)
<1>1. \A x \in AllTables : ColumnsAt(3)[x] = ColumnsAt(2)[x]
  BY DEF ColumnsAt, Columns, UserColumns, OrderItemColumns, From, Until
<1>2. \A x \in AllTables : ColumnsAt(8)[x] = ColumnsAt(7)[x]
  BY DEF ColumnsAt, Columns, UserColumns, OrderItemColumns, From, Until
<1>3. \A x \in AllTables : ColumnsAt(9)[x] = ColumnsAt(8)[x]
  BY DEF ColumnsAt, Columns, UserColumns, OrderItemColumns, From, Until
<1>4. \A x \in AllTables : ColumnsAt(11)[x] = ColumnsAt(10)[x]
  BY DEF ColumnsAt, Columns, UserColumns, OrderItemColumns, From, Until
<1>5. \A x \in AllTables : ColumnsAt(15)[x] = ColumnsAt(14)[x]
  BY DEF ColumnsAt, Columns, UserColumns, OrderItemColumns, From, Until
<1>6. \A x \in AllTables : ColumnsAt(20)[x] = ColumnsAt(19)[x]
  BY DEF ColumnsAt, Columns, UserColumns, OrderItemColumns, From, Until
<1>7. ASSUME NEW m, NEW n, \A x \in AllTables : ColumnsAt(n)[x] = ColumnsAt(m)[x]
      PROVE  ColumnsAt(n) = ColumnsAt(m)
  <2>1. PICK K : K = ColumnsAt(n)
    OBVIOUS
  <2>2. PICK C : C = ColumnsAt(m)
    OBVIOUS
  <2>3. K = [x \in AllTables |-> K[x]] /\ C = [x \in AllTables |-> C[x]]
    BY <2>1, <2>2, ColumnsFcn
  <2>. QED
    BY <1>7, <2>1, <2>2, <2>3
<1>. QED
  BY <1>1, <1>2, <1>3, <1>4, <1>5, <1>6, <1>7

\* A table that no other refers to comes or goes.
LEMMA TableUp ==
  ASSUME NEW n \in {8, 9}, NEW t \in AllTables, t \notin TablesAt(n - 1),
         TablesAt(n) = TablesAt(n - 1) \cup {t}, ColumnsAt(n) = ColumnsAt(n - 1),
         NEW cs, cs = ColumnsAt(n)[t], NEW ps, ps = Parents[t], ps \subseteq TablesAt(n - 1),
         NEW d, At(d, n - 1)
  PROVE  Up(d, Applied(d, <<Create(t, cs, ps)>>), n)
<1>. DEFINE C == ColumnsAt(n)
            D == TablesAt(n - 1)
<1>1. PICK e : e = Apply(d, Create(t, cs, ps))
  OBVIOUS
<1>2. Applied(d, <<Create(t, cs, ps)>>) = e
  BY <1>1, Applied1
<1>3. Shaped(e, D \cup {t}, C) /\ SameRows(d, e)
  <2>1. Shaped(d, D, C) /\ C = [x \in AllTables |-> C[x]] /\ cs = C[t] /\ ps \subseteq D
        /\ t \in AllTables \ D
    BY ColumnsFcn DEF At
  <2>. HIDE DEF C, D
  <2>. QED
    BY <1>1, <2>1, CreatedIn
<1>4. n \in 1..22 /\ n \notin {3, 11, 15, 20} /\ Allows(d, n)
  BY DEF Allows
<1>5. Shaped(e, TablesAt(n), ColumnsAt(n)) /\ e.ok
  BY <1>3 DEF Shaped
<1>. QED
  BY <1>2, <1>3, <1>4, <1>5, UpSame

LEMMA TableDown ==
  ASSUME NEW n \in {8, 9, 11}, NEW t \in TablesAt(n), t \notin {"users", "products"},
         TablesAt(n - 1) = TablesAt(n) \ {t}, ColumnsAt(n) = ColumnsAt(n - 1),
         \A x \in AllTables : t \notin Parents[x], NEW d, At(d, n)
  PROVE  Down(d, Applied(d, <<Drop(t)>>), n)
<1>. DEFINE C == ColumnsAt(n)
            D == TablesAt(n)
<1>1. PICK e : e = Apply(d, Drop(t))
  OBVIOUS
<1>2. Applied(d, <<Drop(t)>>) = e
  BY <1>1, Applied1
<1>3. Shaped(d, D, C)
  BY DEF At
<1>4. Shaped(e, D \ {t}, C) /\ Forgotten(d, e, t)
  <2>. HIDE DEF C
  <2>1. \A x \in D \ {t} : t \notin Parents[x]
    BY <1>3 DEF Shaped
  <2>. HIDE DEF D
  <2>2. t \in D
    BY DEF D
  <2>. QED
    BY <1>1, <1>3, <2>1, <2>2, TableDropped
<1>5. Shaped(e, TablesAt(n - 1), ColumnsAt(n - 1)) /\ e.ok
  BY <1>4 DEF Shaped
<1>. QED
  BY <1>2, <1>4, <1>5 DEF Down, At, Forgotten, Kept

LEMMA Revision8 ==
  ASSUME NEW d
  PROVE  /\ At(d, 7) => Up(d, Applied(d, SocialAccountsUp), 8)
         /\ At(d, 8) => Down(d, Applied(d, SocialAccountsDown), 8)
<1>1. /\ "social_accounts" \in AllTables /\ "social_accounts" \notin TablesAt(7)
      /\ TablesAt(8) = TablesAt(7) \cup {"social_accounts"} /\ {"users"} \subseteq TablesAt(7)
      /\ TablesAt(7) = TablesAt(8) \ {"social_accounts"} /\ "social_accounts" \in TablesAt(8)
  BY DEF TablesAt, From, FirstTables, HelpTables, AllTables
<1>2. ColumnsAt(8)["social_accounts"] = {"provider", "social_id"}
  BY DEF ColumnsAt, Columns, AllTables
<1>3. 7 = 8 - 1
  OBVIOUS
<1>4. At(d, 7) => Up(d, Applied(d, SocialAccountsUp), 8)
  <2>1. PICK ps : ps = {"users"}
    OBVIOUS
  <2>2. ps = Parents["social_accounts"] /\ ps \subseteq TablesAt(7)
    BY <1>1, <2>1, ParentsAre
  <2>3. SocialAccountsUp = <<Create("social_accounts", {"provider", "social_id"}, ps)>>
    BY <2>1 DEF SocialAccountsUp
  <2>. QED
    BY <1>1, <1>2, <1>3, <2>2, <2>3, SameColumns, TableUp
<1>5. At(d, 8) => Down(d, Applied(d, SocialAccountsDown), 8)
  BY <1>1, <1>3, Leaves, SameColumns, TableDown DEF SocialAccountsDown
<1>. QED
  BY <1>4, <1>5

LEMMA Revision9 ==
  ASSUME NEW d
  PROVE  /\ At(d, 8) => Up(d, Applied(d, FavoritesUp), 9)
         /\ At(d, 9) => Down(d, Applied(d, FavoritesDown), 9)
<1>1. /\ "favorites" \in AllTables /\ "favorites" \notin TablesAt(8)
      /\ TablesAt(9) = TablesAt(8) \cup {"favorites"}
      /\ {"users", "products"} \subseteq TablesAt(8)
      /\ TablesAt(8) = TablesAt(9) \ {"favorites"} /\ "favorites" \in TablesAt(9)
  BY DEF TablesAt, From, FirstTables, HelpTables, AllTables
<1>2. ColumnsAt(9)["favorites"] = {"product_id"}
  BY DEF ColumnsAt, Columns, AllTables
<1>3. 8 = 9 - 1
  OBVIOUS
<1>4. At(d, 8) => Up(d, Applied(d, FavoritesUp), 9)
  <2>1. PICK ps : ps = {"users", "products"}
    OBVIOUS
  <2>2. ps = Parents["favorites"] /\ ps \subseteq TablesAt(8)
    BY <1>1, <2>1, ParentsAre
  <2>3. FavoritesUp = <<Create("favorites", {"product_id"}, ps)>>
    BY <2>1 DEF FavoritesUp
  <2>. QED
    BY <1>1, <1>2, <1>3, <2>2, <2>3, SameColumns, TableUp
<1>5. At(d, 9) => Down(d, Applied(d, FavoritesDown), 9)
  BY <1>1, <1>3, Leaves, SameColumns, TableDown DEF FavoritesDown
<1>. QED
  BY <1>4, <1>5

LEMMA Revision11 ==
  ASSUME NEW d
  PROVE  /\ At(d, 10) => Up(d, Applied(d, CategoriesUp), 11)
         /\ At(d, 11) => Down(d, Applied(d, CategoriesDown), 11)
<1>. DEFINE t == "product_categories"
            cs == {"title", "icon"}
            ps == {}
            C == ColumnsAt(11)
            D == TablesAt(10)
<1>1. /\ t \in AllTables \ D /\ TablesAt(11) = D \cup {t}
      /\ D = TablesAt(11) \ {t} /\ t \in TablesAt(11)
  BY DEF TablesAt, From, FirstTables, HelpTables, AllTables
<1>2. C[t] = cs /\ C = ColumnsAt(10) /\ C = [x \in AllTables |-> C[x]]
  <2>1. C[t] = cs
    BY DEF ColumnsAt, Columns, From, AllTables
  <2>. QED
    BY <2>1, SameColumns, ColumnsFcn
<1>3. ps = Parents[t]
  BY ParentsAre
<1>4. At(d, 11) => Down(d, Applied(d, CategoriesDown), 11)
  <2>1. 10 = 11 - 1
    OBVIOUS
  <2>. QED
    BY <1>1, <2>1, Leaves, SameColumns, TableDown DEF CategoriesDown
<1>5. ASSUME At(d, 10) PROVE Up(d, Applied(d, CategoriesUp), 11)
  <2>1. PICK x : x = Apply(d, Create(t, cs, ps))
    OBVIOUS
  <2>2. PICK e : e = Apply(x, Run("seed categories"))
    OBVIOUS
  <2>3. Applied(d, CategoriesUp) = e
    <3>1. PICK a : a = Create(t, cs, ps)
      OBVIOUS
    <3>2. PICK b : b = Run("seed categories")
      OBVIOUS
    <3>3. CategoriesUp = <<a, b>>
      BY <3>1, <3>2 DEF CategoriesUp
    <3>4. x = Apply(d, a) /\ e = Apply(x, b)
      BY <2>1, <2>2, <3>1, <3>2
    <3>5. Applied(d, <<a, b>>) = Apply(Apply(d, a), b)
      BY Applied2
    <3>. QED
      BY <3>3, <3>4, <3>5
  <2>4. Shaped(d, D, C)
    BY <1>2, <1>5 DEF At
  <2>. HIDE DEF C, D, cs, ps
  <2>5. Shaped(x, D \cup {t}, C) /\ SameRows(d, x)
    <3>1. ps \subseteq D
      BY DEF ps
    <3>2. cs = C[t] /\ C = [y \in AllTables |-> C[y]]
      BY <1>2
    <3>. QED
      BY <1>1, <1>3, <2>1, <2>4, <3>1, <3>2, CreatedIn
  <2>6. Shaped(e, D \cup {t}, C) /\ SameBut(x, e, {"categories"}) /\ e.categories = BuiltIn
    BY <2>2, <2>5, Seeded
  <2>7. Shaped(e, TablesAt(11), ColumnsAt(11)) /\ e.ok
    BY <1>1, <2>6 DEF Shaped, C
  <2>8. /\ e.types = d.types /\ e.serial = d.serial /\ e.rows = d.rows
        /\ e.nameless = d.nameless /\ e.verified = d.verified /\ e.phone = d.phone
        /\ e.product = d.product
    BY <2>5, <2>6 DEF SameRows, SameBut
  <2>. QED
    BY <1>5, <2>3, <2>6, <2>7, <2>8 DEF Up, At, Allows, Kept
<1>. QED
  BY <1>4, <1>5

LEMMA Revision3 ==
  ASSUME NEW d
  PROVE  /\ At(d, 2) => Up(d, Applied(d, IdentityUp), 3)
         /\ At(d, 3) => Down(d, Applied(d, IdentityDown), 3)
<1>1. TablesAt(3) = TablesAt(2) /\ ColumnsAt(3) = ColumnsAt(2)
  BY SameColumns DEF TablesAt, From
<1>2. ASSUME At(d, 2) PROVE Up(d, Applied(d, IdentityUp), 3)
  <2>1. PICK e : e = Apply(d, Run("to identity"))
    OBVIOUS
  <2>2. Applied(d, IdentityUp) = e
    BY <2>1, Applied1 DEF IdentityUp
  <2>3. Shaped(d, TablesAt(3), ColumnsAt(3))
    BY <1>1, <1>2 DEF At
  <2>4. /\ Shaped(e, TablesAt(3), ColumnsAt(3)) /\ SameBut(d, e, {"serial"})
        /\ e.serial = {}
    BY <2>1, <2>3, Numbered
  <2>5. /\ e.types = d.types /\ e.rows = d.rows /\ e.nameless = d.nameless
        /\ e.verified = d.verified /\ e.phone = d.phone /\ e.categories = d.categories
        /\ e.product = d.product /\ e.ok
    BY <2>4 DEF SameBut, Shaped
  <2>. QED
    BY <1>2, <2>2, <2>4, <2>5 DEF Up, At, Allows, Kept
<1>3. ASSUME At(d, 3) PROVE Down(d, Applied(d, IdentityDown), 3)
  <2>1. PICK e : e = Apply(d, Run("to serial"))
    OBVIOUS
  <2>2. Applied(d, IdentityDown) = e
    BY <2>1, Applied1 DEF IdentityDown
  <2>3. Shaped(d, TablesAt(2), ColumnsAt(2))
    BY <1>1, <1>3 DEF At
  <2>4. Shaped(e, TablesAt(2), ColumnsAt(2)) /\ SameBut(d, e, {"serial"})
    BY <2>1, <2>3, Numbered
  <2>5. e.types = d.types /\ e.nameless = d.nameless /\ e.verified = d.verified /\ e.ok
    BY <2>4 DEF SameBut, Shaped
  <2>. QED
    BY <1>3, <2>2, <2>4, <2>5 DEF Down, At, Kept
<1>. QED
  BY <1>2, <1>3

LEMMA Revision20 ==
  ASSUME NEW d
  PROVE  /\ At(d, 19) => Up(d, Applied(d, PhoneBackfillUp), 20)
         /\ At(d, 20) => Down(d, Applied(d, PhoneBackfillDown), 20)
<1>. DEFINE D == TablesAt(20)
            C == ColumnsAt(20)
<1>1. TablesAt(19) = D /\ ColumnsAt(19) = C
  BY SameColumns DEF TablesAt, From
<1>. HIDE DEF D, C
<1>2. ASSUME At(d, 19) PROVE Up(d, Applied(d, PhoneBackfillUp), 20)
  <2>1. PICK x : x = Apply(d, Run("hyphens 11"))
    OBVIOUS
  <2>2. PICK e : e = Apply(x, Run("hyphens 10"))
    OBVIOUS
  <2>3. Applied(d, PhoneBackfillUp) = e
    <3>1. PICK a : a = Run("hyphens 11")
      OBVIOUS
    <3>2. PICK b : b = Run("hyphens 10")
      OBVIOUS
    <3>3. PhoneBackfillUp = <<a, b>>
      BY <3>1, <3>2 DEF PhoneBackfillUp
    <3>4. x = Apply(d, a) /\ e = Apply(x, b)
      BY <2>1, <2>2, <3>1, <3>2
    <3>5. Applied(d, <<a, b>>) = Apply(Apply(d, a), b)
      BY Applied2
    <3>. QED
      BY <3>3, <3>4, <3>5
  <2>4. Shaped(d, D, C)
    BY <1>1, <1>2 DEF At
  <2>5. /\ Shaped(x, D, C) /\ SameBut(d, x, {"phone"})
        /\ \A f \in Phones : x.phone[f] # "digits11"
    BY <2>1, <2>4, Hyphenated
  <2>6. /\ Shaped(e, D, C) /\ SameBut(x, e, {"phone"})
        /\ \A f \in Phones : e.phone[f] \in {x.phone[f], "hyphens10"} \ {"digits10"}
    BY <2>2, <2>5, Hyphenated
  <2>7. \A f \in Phones : e.phone[f] \notin {"digits11", "digits10"}
    BY <2>5, <2>6
  <2>8. /\ e.types = d.types /\ e.rows = d.rows /\ e.nameless = d.nameless
        /\ e.verified = d.verified /\ e.serial = d.serial /\ e.categories = d.categories
        /\ e.product = d.product
    BY <2>5, <2>6 DEF SameBut
  <2>9. Shaped(e, TablesAt(20), ColumnsAt(20)) /\ e.ok
    BY <2>6 DEF Shaped, D, C
  <2>. QED
    BY <1>2, <2>3, <2>7, <2>8, <2>9 DEF Up, At, Allows, Kept
<1>3. ASSUME At(d, 20) PROVE Down(d, Applied(d, PhoneBackfillDown), 20)
  <2>1. PICK e : e = Apply(d, Run("no hyphens"))
    OBVIOUS
  <2>2. Applied(d, PhoneBackfillDown) = e
    BY <2>1, Applied1 DEF PhoneBackfillDown
  <2>3. Shaped(d, D, C)
    BY <1>3 DEF At, D, C
  <2>4. Shaped(e, D, C) /\ SameBut(d, e, {"phone"})
    BY <2>1, <2>3, Hyphenated
  <2>5. e.types = d.types /\ e.nameless = d.nameless /\ e.verified = d.verified
        /\ e.serial = d.serial /\ e.ok
    BY <2>4 DEF SameBut, Shaped
  <2>6. Shaped(e, TablesAt(19), ColumnsAt(19))
    BY <1>1, <2>4
  <2>. QED
    BY <1>3, <2>2, <2>5, <2>6 DEF Down, At, Kept
<1>. QED
  BY <1>2, <1>3

LEMMA Revision15 ==
  ASSUME NEW d
  PROVE  /\ At(d, 14) => Up(d, Applied(d, HelpUp), 15)
         /\ At(d, 15) => Down(d, Applied(d, HelpDown), 15)
<1>. DEFINE C  == ColumnsAt(15)
            D  == TablesAt(14)
            D1 == D \cup {"faqs"}
            D2 == D1 \cup {"notices"}
            D3 == D2 \cup {"contacts"}
<1>1. /\ TablesAt(15) = D3 /\ "faqs" \in AllTables \ D /\ "notices" \in AllTables \ D1
      /\ "contacts" \in AllTables \ D2 /\ "users" \in D
  BY DEF TablesAt, From, FirstTables, HelpTables, AllTables
<1>2. C["faqs"] = {"question"} /\ C["notices"] = {"title"} /\ C["contacts"] = {"phone", "status"}
  BY DEF ColumnsAt, Columns, From, Until, AllTables, HelpTables
<1>3. C = ColumnsAt(14) /\ C = [x \in AllTables |-> C[x]]
  BY SameColumns, ColumnsFcn
<1>. HIDE DEF C, D
<1>4. ASSUME At(d, 14) PROVE Up(d, Applied(d, HelpUp), 15)
  <2>1. PICK x : x = Apply(d, Create("faqs", {"question"}, {}))
    OBVIOUS
  <2>2. PICK y : y = Apply(x, Create("notices", {"title"}, {}))
    OBVIOUS
  <2>3. PICK z : z = Apply(y, NewType("contact_status"))
    OBVIOUS
  <2>4. PICK e : e = Apply(z, Create("contacts", {"phone", "status"}, {"users"}))
    OBVIOUS
  <2>5. Applied(d, HelpUp) = e
    <3>1. PICK a : a = Create("faqs", {"question"}, {})
      OBVIOUS
    <3>2. PICK b : b = Create("notices", {"title"}, {})
      OBVIOUS
    <3>3. PICK c : c = NewType("contact_status")
      OBVIOUS
    <3>4. PICK k : k = Create("contacts", {"phone", "status"}, {"users"})
      OBVIOUS
    <3>5. HelpUp = <<a, b, c, k>>
      BY <3>1, <3>2, <3>3, <3>4 DEF HelpUp
    <3>6. x = Apply(d, a) /\ y = Apply(x, b) /\ z = Apply(y, c) /\ e = Apply(z, k)
      BY <2>1, <2>2, <2>3, <2>4, <3>1, <3>2, <3>3, <3>4
    <3>7. Applied(d, <<a, b, c, k>>) = Apply(Apply(Apply(Apply(d, a), b), c), k)
      BY Applied4
    <3>. QED
      BY <3>5, <3>6, <3>7
  <2>6. Shaped(d, D, C)
    BY <1>3, <1>4 DEF At, D
  <2>7. Shaped(x, D1, C) /\ SameRows(d, x)
    <3>1. PICK cs, ps : cs = {"question"} /\ ps = {}
      OBVIOUS
    <3>2. cs = C["faqs"] /\ ps = Parents["faqs"] /\ ps \subseteq D
      BY <1>2, <3>1, ParentsAre
    <3>3. x = Apply(d, Create("faqs", cs, ps))
      BY <2>1, <3>1
    <3>. QED
      BY <1>1, <1>3, <2>6, <3>2, <3>3, CreatedIn
  <2>. HIDE DEF D1
  <2>8. Shaped(y, D2, C) /\ SameRows(x, y)
    <3>1. PICK cs, ps : cs = {"title"} /\ ps = {}
      OBVIOUS
    <3>2. cs = C["notices"] /\ ps = Parents["notices"] /\ ps \subseteq D1
      BY <1>2, <3>1, ParentsAre
    <3>3. y = Apply(x, Create("notices", cs, ps))
      BY <2>2, <3>1
    <3>. QED
      BY <1>1, <1>3, <2>7, <3>2, <3>3, CreatedIn
  <2>. HIDE DEF D2
  <2>9. /\ DOMAIN z = Fields /\ (z.ok <=> "contact_status" \notin y.types)
        /\ z.ok => /\ Shaped(z, D2, C) /\ z.types = y.types \cup {"contact_status"}
                   /\ SameRows([y EXCEPT !.types = z.types], z)
    BY <2>3, <2>8, TypeMade
  <2>10. z.ok => SameBut(y, z, {"types"})
    <3>. DEFINE ty == z.types
    <3>1. DOMAIN y = Fields
      BY <2>8 DEF Shaped
    <3>2. PICK w : w = [y EXCEPT !.types = ty]
      OBVIOUS
    <3>. HIDE DEF ty
    <3>3. SameBut(y, w, {"types"})
      BY <3>1, <3>2 DEF SameBut, Fields
    <3>4. z.ok => SameRows(w, z)
      BY <2>9, <3>2 DEF ty
    <3>. QED
      BY <3>3, <3>4 DEF SameBut, SameRows
  <2>11. z.ok => Shaped(e, D3, C) /\ SameRows(z, e)
    <3>1. PICK cs, ps : cs = {"phone", "status"} /\ ps = {"users"}
      OBVIOUS
    <3>2. cs = C["contacts"] /\ ps = Parents["contacts"] /\ ps \subseteq D2
      BY <1>1, <1>2, <3>1, ParentsAre DEF D1, D2
    <3>3. e = Apply(z, Create("contacts", cs, ps))
      BY <2>4, <3>1
    <3>. QED
      BY <1>1, <1>3, <2>9, <3>2, <3>3, CreatedIn
  <2>12. ~z.ok => ~e.ok /\ DOMAIN e = Fields
    BY <2>4, <2>9, StaysRefused
  <2>13. z.ok <=> Allows(d, 15)
    BY <2>7, <2>8, <2>9 DEF Allows, SameRows
  <2>14. e.ok => Shaped(e, TablesAt(15), ColumnsAt(15))
    BY <1>1, <2>11, <2>12 DEF C
  <2>15. z.ok <=> e.ok
    BY <2>11, <2>12 DEF Shaped
  <2>16. e.ok => /\ e.types = d.types \cup {"contact_status"} /\ e.rows = d.rows
                 /\ e.nameless = d.nameless /\ e.verified = d.verified
                 /\ e.serial = d.serial /\ e.categories = d.categories
                 /\ e.product = d.product /\ e.phone = d.phone
    BY <2>7, <2>8, <2>9, <2>10, <2>11, <2>15 DEF SameBut, SameRows
  <2>. QED
    BY <1>4, <2>5, <2>12, <2>13, <2>14, <2>15, <2>16 DEF Up, At, Kept
<1>5. ASSUME At(d, 15) PROVE Down(d, Applied(d, HelpDown), 15)
  <2>1. PICK x : x = Apply(d, Drop("contacts"))
    OBVIOUS
  <2>2. PICK y : y = Apply(x, Drop("notices"))
    OBVIOUS
  <2>3. PICK e : e = Apply(y, Drop("faqs"))
    OBVIOUS
  <2>4. Applied(d, HelpDown) = e
    BY <2>1, <2>2, <2>3, Applied3 DEF HelpDown
  <2>5. Shaped(d, D3, C)
    BY <1>1, <1>5 DEF At, C
  <2>6. \A x1 \in D3 : "contacts" \notin Parents[x1] /\ "notices" \notin Parents[x1]
                       /\ "faqs" \notin Parents[x1]
    BY <2>5, Leaves DEF Shaped
  <2>7. /\ "contacts" \in D3 /\ D3 \ {"contacts"} = D2
        /\ "notices" \in D2 /\ D2 \ {"notices"} = D1 /\ "faqs" \in D1 /\ D1 \ {"faqs"} = D
        /\ D1 \subseteq D3 /\ D2 \subseteq D3
    BY <1>1
  <2>. HIDE DEF D1, D2, D3
  <2>8. Shaped(x, D2, C) /\ Forgotten(d, x, "contacts")
    <3>1. \A x1 \in D3 \ {"contacts"} : "contacts" \notin Parents[x1]
      BY <2>6
    <3>2. Shaped(x, D3 \ {"contacts"}, C) /\ Forgotten(d, x, "contacts")
      BY <2>1, <2>5, <2>7, <3>1, TableDropped
    <3>. QED
      BY <2>7, <3>2
  <2>9. Shaped(y, D1, C) /\ Forgotten(x, y, "notices")
    <3>1. \A x1 \in D2 \ {"notices"} : "notices" \notin Parents[x1]
      BY <2>6, <2>7
    <3>2. Shaped(y, D2 \ {"notices"}, C) /\ Forgotten(x, y, "notices")
      BY <2>2, <2>7, <2>8, <3>1, TableDropped
    <3>. QED
      BY <2>7, <3>2
  <2>10. Shaped(e, D, C) /\ Forgotten(y, e, "faqs")
    <3>1. \A x1 \in D1 \ {"faqs"} : "faqs" \notin Parents[x1]
      BY <2>6, <2>7
    <3>2. Shaped(e, D1 \ {"faqs"}, C) /\ Forgotten(y, e, "faqs")
      BY <2>3, <2>7, <2>9, <3>1, TableDropped
    <3>. QED
      BY <2>7, <3>2
  <2>11. Shaped(e, TablesAt(14), ColumnsAt(14)) /\ e.ok
    BY <1>3, <2>10 DEF Shaped, D
  <2>12. /\ e.types = d.types /\ e.verified = d.verified /\ e.phone = d.phone
         /\ e.nameless => d.nameless
         /\ d.serial = {} => e.serial = {}
    BY <2>8, <2>9, <2>10 DEF Forgotten
  <2>. QED
    BY <1>5, <2>4, <2>11, <2>12 DEF Down, At, Kept
<1>. QED
  BY <1>4, <1>5

\* The columns that say a user is verified take that with them.
Unmarked(d, e, cs) ==
    /\ SameBut(d, e, {"verified"})
    /\ \A u \in Users : e.verified[u] = d.verified[u] \ cs

LEMMA VerificationDropped ==
  ASSUME NEW d, NEW D, NEW C, Shaped(d, D, C), NEW t \in D, NEW cs, cs \subseteq C[t],
         NEW e, e = Apply(d, DropCol(t, cs))
  PROVE  Shaped(e, D, [C EXCEPT ![t] = C[t] \ cs]) /\ Unmarked(d, e, cs)
<1>1. d.ok /\ Exists(d, t) /\ Cols(d, t) = C[t] /\ DOMAIN d = Fields
      /\ d.verified \in [Users -> SUBSET VerifiedColumns]
  BY DEF Shaped, Tables, Exists, Cols
<1>2. Accepts(d, DropCol(t, cs))
  BY <1>1 DEF Accepts, DropCol, Step
<1>. DEFINE f == SetCols(d, t, C[t] \ cs)
            v == [u \in Users |-> f.verified[u] \ cs]
<1>3. e = Unmark(f, cs)
  BY <1>1, <1>2, DropColIs
<1>4. Shaped(f, D, [C EXCEPT ![t] = C[t] \ cs]) /\ SameRows(d, f)
  BY ColumnsSet DEF f
<1>. HIDE DEF f
<1>5. v \in [Users -> SUBSET VerifiedColumns] /\ \A u \in Users : v[u] = d.verified[u] \ cs
  BY <1>1, <1>4 DEF SameRows
<1>. HIDE DEF v
<1>6. DOMAIN e = Fields /\ e.tables = f.tables /\ (e.ok <=> f.ok) /\ e.verified = v
      /\ e.phone = f.phone /\ SameBut(f, e, {"verified"})
  <2>1. e = [f EXCEPT !.verified = v] /\ DOMAIN f = Fields
    BY <1>3, <1>4 DEF Shaped, Unmark, v
  <2>. QED
    BY <2>1 DEF Fields, SameBut
<1>7. SameBut(d, e, {"verified"})
  BY <1>4, <1>6 DEF SameBut, SameRows
<1>8. Shaped(e, D, [C EXCEPT ![t] = C[t] \ cs])
  BY <1>4, <1>5, <1>6 DEF Shaped
<1>. QED
  BY <1>5, <1>6, <1>7, <1>8 DEF Unmarked

LEMMA Revision19 ==
  ASSUME NEW d
  PROVE  /\ At(d, 18) => Up(d, Applied(d, DropIdentityUp), 19)
         /\ At(d, 19) => Down(d, Applied(d, DropIdentityDown), 19)
<1>. DEFINE iv == "identity_verifications"
            t == "users"
            D == TablesAt(18)
            E == TablesAt(19)
            C == ColumnsAt(18)
            K == ColumnsAt(19)
            X == UserColumns(18)
            Y == UserColumns(19)
<1>1. /\ E = D \ {iv} /\ D = E \cup {iv} /\ iv \in D /\ iv \in AllTables \ E
      /\ t \in D /\ t \in E /\ t \in AllTables
  BY DEF TablesAt, From, FirstTables, HelpTables, AllTables
<1>2. \A x \in AllTables \ {t} : K[x] = C[x]
  BY DEF ColumnsAt, Columns, OrderItemColumns, From, Until
<1>3. C[t] = X /\ K[t] = Y /\ C[iv] = {"request_id"}
  BY DEF ColumnsAt, Columns, AllTables, FirstTables
<1>4. Y = X \ OldIdentity /\ X = Y \cup OldIdentity /\ OldIdentity \cap Y = {}
      /\ OldIdentity \subseteq X
  BY DEF UserColumns, From, Until, OldIdentity
<1>5. C = [x \in AllTables |-> C[x]] /\ K = [x \in AllTables |-> K[x]]
  BY ColumnsFcn
<1>6. [C EXCEPT ![t] = Y] = K /\ [K EXCEPT ![t] = X] = C
  <2>. HIDE DEF C, K, X, Y
  <2>1. [C EXCEPT ![t] = Y] = K
    BY <1>1, <1>2, <1>3, <1>5
  <2>2. [K EXCEPT ![t] = X] = C
    BY <1>1, <1>2, <1>3, <1>5
  <2>. QED
    BY <2>1, <2>2
<1>. HIDE DEF C, K, D, E, X, Y
<1>7. ASSUME At(d, 18) PROVE Up(d, Applied(d, DropIdentityUp), 19)
  <2>1. PICK x : x = Apply(d, Run("carry verification"))
    OBVIOUS
  <2>2. PICK y : y = Apply(x, Drop(iv))
    OBVIOUS
  <2>3. PICK e : e = Apply(y, DropCol(t, OldIdentity))
    OBVIOUS
  <2>4. Applied(d, DropIdentityUp) = e
    <3>1. PICK a, b, c : a = Run("carry verification") /\ b = Drop(iv) /\ c = DropCol(t, OldIdentity)
      OBVIOUS
    <3>2. DropIdentityUp = <<a, b, c>>
      BY <3>1 DEF DropIdentityUp
    <3>3. x = Apply(d, a) /\ y = Apply(x, b) /\ e = Apply(y, c)
      BY <2>1, <2>2, <2>3, <3>1
    <3>4. Applied(d, <<a, b, c>>) = Apply(Apply(Apply(d, a), b), c)
      BY Applied3
    <3>. QED
      BY <3>2, <3>3, <3>4
  <2>5. Shaped(d, D, C)
    BY <1>7 DEF At, D, C
  <2>6. /\ Shaped(x, D, C) /\ SameBut(d, x, {"verified"})
        /\ \A u \in Users : d.verified[u] # {} => "phone_verified_at" \in x.verified[u]
    BY <2>1, <2>5, Carried
  <2>7. Shaped(y, E, C) /\ Forgotten(x, y, iv)
    <3>1. \A z \in D \ {iv} : iv \notin Parents[z]
      BY <2>5, Leaves DEF Shaped
    <3>2. Shaped(y, D \ {iv}, C) /\ Forgotten(x, y, iv)
      BY <1>1, <2>2, <2>6, <3>1, TableDropped
    <3>. QED
      BY <1>1, <3>2
  <2>8. Shaped(e, E, [C EXCEPT ![t] = C[t] \ OldIdentity]) /\ Unmarked(y, e, OldIdentity)
    <3>1. OldIdentity \subseteq C[t] /\ t \in E
      BY <1>1, <1>3, <1>4
    <3>. QED
      BY <2>3, <2>7, <3>1, VerificationDropped
  <2>9. Shaped(e, TablesAt(19), ColumnsAt(19)) /\ e.ok
    BY <1>3, <1>4, <1>6, <2>8 DEF Shaped, E, K
  <2>10. /\ e.types = d.types /\ e.rows \subseteq d.rows /\ (e.nameless => d.nameless)
         /\ e.serial \subseteq d.serial /\ e.categories = d.categories /\ e.product = d.product
    BY <2>6, <2>7, <2>8 DEF SameBut, Forgotten, Unmarked
  <2>11. Kept(d, e)
    <3>1. "phone_verified_at" \notin OldIdentity
      BY DEF OldIdentity
    <3>2. y.verified = x.verified
      BY <2>7 DEF Forgotten
    <3>. QED
      BY <2>6, <2>8, <3>1, <3>2 DEF Kept, Unmarked
  <2>12. ~d.nameless /\ ~e.nameless /\ d.serial = {} /\ e.serial = {}
    BY <1>7, <2>10 DEF At
  <2>. QED
    BY <2>4, <2>9, <2>10, <2>11, <2>12 DEF Up, At, Allows
<1>8. ASSUME At(d, 19) PROVE Down(d, Applied(d, DropIdentityDown), 19)
  <2>1. PICK x : x = Apply(d, Add(t, OldIdentity))
    OBVIOUS
  <2>2. PICK e : e = Apply(x, Create(iv, {"request_id"}, {"users"}))
    OBVIOUS
  <2>3. Applied(d, DropIdentityDown) = e
    <3>1. PICK a, b : a = Add(t, OldIdentity) /\ b = Create(iv, {"request_id"}, {"users"})
      OBVIOUS
    <3>2. DropIdentityDown = <<a, b>>
      BY <3>1 DEF DropIdentityDown
    <3>3. x = Apply(d, a) /\ e = Apply(x, b)
      BY <2>1, <2>2, <3>1
    <3>4. Applied(d, <<a, b>>) = Apply(Apply(d, a), b)
      BY Applied2
    <3>. QED
      BY <3>2, <3>3, <3>4
  <2>4. Shaped(d, E, K)
    BY <1>8 DEF At, E, K
  <2>5. Shaped(x, E, C) /\ SameRows(d, x)
    <3>1. OldIdentity \cap K[t] = {} /\ t \in E
      BY <1>1, <1>3, <1>4
    <3>2. Shaped(x, E, [K EXCEPT ![t] = K[t] \cup OldIdentity]) /\ SameRows(d, x)
      BY <2>1, <2>4, <3>1, Added
    <3>. QED
      BY <1>3, <1>4, <1>6, <3>2
  <2>6. Shaped(e, D, C) /\ SameRows(x, e)
    <3>1. PICK cs, ps : cs = {"request_id"} /\ ps = {"users"}
      OBVIOUS
    <3>2. cs = C[iv] /\ ps = Parents[iv] /\ ps \subseteq E
      BY <1>1, <1>3, <3>1, ParentsAre
    <3>3. e = Apply(x, Create(iv, cs, ps))
      BY <2>2, <3>1
    <3>4. Shaped(e, E \cup {iv}, C) /\ SameRows(x, e)
      BY <1>1, <1>5, <2>5, <3>2, <3>3, CreatedIn
    <3>. QED
      BY <1>1, <3>4
  <2>7. Shaped(e, TablesAt(18), ColumnsAt(18)) /\ SameRows(d, e)
    BY <2>5, <2>6 DEF SameRows, D, C
  <2>. QED
    BY <1>8, <2>3, <2>7, DownSame DEF Shaped
<1>. QED
  BY <1>7, <1>8

-----------------------------------------------------------------------------
(***************************************************************************)
(* The first revision makes ten tables, each after those it refers to, and *)
(* drops them in the opposite order.                                       *)
(***************************************************************************)
Made == << "products", "users", "addresses", "cart_items", "identity_verifications",
           "orders", "product_images", "order_items", "payments", "shipments" >>
First(n) == {Made[j] : j \in 1..n}

LEMMA MadeAre ==
  /\ Made[1] = "products" /\ Made[2] = "users" /\ Made[3] = "addresses"
  /\ Made[4] = "cart_items" /\ Made[5] = "identity_verifications" /\ Made[6] = "orders"
  /\ Made[7] = "product_images" /\ Made[8] = "order_items" /\ Made[9] = "payments"
  /\ Made[10] = "shipments"
BY DEF Made

LEMMA MadeOnce == \A i \in 1..10, j \in 1..10 : Made[i] = Made[j] => i = j
<1>. DEFINE Place(t) == CASE t = "products" -> 1 [] t = "users" -> 2 [] t = "addresses" -> 3
                          [] t = "cart_items" -> 4 [] t = "identity_verifications" -> 5
                          [] t = "orders" -> 6 [] t = "product_images" -> 7
                          [] t = "order_items" -> 8 [] t = "payments" -> 9
                          [] t = "shipments" -> 10
<1>1. \A i \in 1..10 : Place(Made[i]) = i
  BY MadeAre
<1>. HIDE DEF Place
<1>. QED
  BY <1>1

LEMMA MadeAfter ==
  ASSUME NEW i \in 1..10
  PROVE  Made[i] \in AllTables /\ Parents[Made[i]] \subseteq First(i - 1)
<1>1. Made[i] \in AllTables
  BY MadeAre DEF AllTables, FirstTables
<1>2. \A k \in 1..10 : k < i => Made[k] \in First(i - 1)
  BY DEF First
<1>3. \/ i \in {1, 2}
      \/ i \in {3, 5, 6} \/ i \in {4, 7, 8} \/ i \in {9, 10}
  OBVIOUS
<1>4. CASE i \in {1, 2}
  <2>1. Parents[Made[i]] = {}
    BY <1>4, MadeAre, ParentsAre
  <2>. QED
    BY <1>1, <2>1
<1>5. CASE i \in {3, 5, 6}
  <2>1. Parents[Made[i]] = {"users"} /\ Made[2] \in First(i - 1)
    BY <1>2, <1>5, MadeAre, ParentsAre
  <2>. QED
    BY <1>1, <2>1, MadeAre
<1>6. CASE i \in {4, 7, 8}
  <2>1. /\ i # 8 => Parents[Made[i]] \subseteq {"products", "users"}
        /\ i = 8 => Parents[Made[i]] \subseteq {"orders", "products"}
    BY <1>6, MadeAre, ParentsAre
  <2>2. Made[1] \in First(i - 1) /\ Made[2] \in First(i - 1)
        /\ (i = 8 => Made[6] \in First(i - 1))
    BY <1>2, <1>6
  <2>. QED
    BY <1>1, <2>1, <2>2, MadeAre
<1>7. CASE i \in {9, 10}
  <2>1. Parents[Made[i]] = {"orders"} /\ Made[6] \in First(i - 1)
    BY <1>2, <1>7, MadeAre, ParentsAre
  <2>. QED
    BY <1>1, <2>1, MadeAre
<1>. QED
  BY <1>3, <1>4, <1>5, <1>6, <1>7

LEMMA MadeNext ==
  ASSUME NEW i \in 1..10
  PROVE  /\ Made[i] \in AllTables \ First(i - 1) /\ Made[i] \in First(i)
         /\ First(i) = First(i - 1) \cup {Made[i]} /\ First(i) \ {Made[i]} = First(i - 1)
         /\ Parents[Made[i]] \subseteq First(i - 1)
         /\ \A x \in First(i - 1) : Made[i] \notin Parents[x]
<1>1. \A k \in 1..10 : k < i => Made[k] # Made[i]
  BY MadeOnce
<1>2. /\ Made[i] \notin First(i - 1) /\ Made[i] \in First(i)
      /\ First(i) = First(i - 1) \cup {Made[i]}
  BY <1>1 DEF First
<1>3. ASSUME NEW x \in First(i - 1) PROVE Made[i] \notin Parents[x]
  <2>1. PICK k \in 1..(i - 1) : x = Made[k]
    BY DEF First
  <2>2. Parents[x] \subseteq First(k - 1) /\ First(k - 1) \subseteq First(i - 1)
    BY <2>1, MadeAfter DEF First
  <2>. QED
    BY <1>2, <2>2
<1>. QED
  BY <1>2, <1>3, MadeAfter

LEMMA FirstAre == First(10) = TablesAt(1) /\ First(0) = TablesAt(0) /\ TablesAt(0) = {}
<1>1. First(10) \subseteq FirstTables
  BY MadeAre DEF First, FirstTables
<1>2. \A j \in 1..10 : Made[j] \in First(10)
  BY DEF First
<1>3. FirstTables \subseteq First(10)
  BY <1>2, MadeAre DEF FirstTables
<1>4. TablesAt(1) = FirstTables /\ TablesAt(0) = {}
  BY DEF TablesAt, From
<1>5. First(0) = {}
  BY DEF First
<1>. QED
  BY <1>1, <1>3, <1>4, <1>5

LEMMA InitScript ==
  /\ Len(InitSchemaUp) = 10 /\ Len(InitSchemaDown) = 10
  /\ \A i \in 1..10 :
        /\ InitSchemaUp[i] = Create(Made[i], ColumnsAt(1)[Made[i]], Parents[Made[i]])
        /\ InitSchemaDown[i] = Drop(Made[11 - i])
<1>1. Len(InitSchemaUp) = 10 /\ Len(InitSchemaDown) = 10
  BY DEF InitSchemaUp, InitSchemaDown
<1>2. \A i \in 1..10 : InitSchemaDown[i] = Drop(Made[11 - i])
  BY MadeAre DEF InitSchemaDown
<1>. DEFINE C == ColumnsAt(1)
<1>3. /\ C["products"] = {"category", "model_name"} /\ C["users"] = UserColumns(1)
      /\ C["addresses"] = {"phone", "is_default"} /\ C["cart_items"] = {"quantity"}
      /\ C["identity_verifications"] = {"request_id"} /\ C["orders"] = {"recipient_phone"}
      /\ C["product_images"] = {"url"} /\ C["order_items"] = {"price_snapshot"}
      /\ C["payments"] = {"pg_tid"} /\ C["shipments"] = {"tracking_number"}
  BY DEF ColumnsAt, Columns, OrderItemColumns, From, AllTables, FirstTables
<1>4. UserColumns(1) = {"name", "phone", "is_active", "phone_verified_at"} \cup OldIdentity
  BY DEF UserColumns, From, Until
<1>. HIDE DEF C
<1>. DEFINE Fits(i) == InitSchemaUp[i] = Create(Made[i], C[Made[i]], Parents[Made[i]])
<1>5. Fits(1)
  <2>1. PICK cs, ps : cs = {"category", "model_name"} /\ ps = {}
    OBVIOUS
  <2>2. C["products"] = cs /\ Parents["products"] = ps
    BY <1>3, <2>1, ParentsAre
  <2>3. InitSchemaUp[1] = Create("products", cs, ps)
    BY <2>1 DEF InitSchemaUp
  <2>. QED
    BY <2>2, <2>3, MadeAre
<1>6. Fits(2)
  <2>1. PICK cs, ps : cs = {"name", "phone", "is_active", "phone_verified_at"} \cup OldIdentity /\ ps = {}
    OBVIOUS
  <2>2. C["users"] = cs /\ Parents["users"] = ps
    BY <1>3, <1>4, <2>1, ParentsAre
  <2>3. InitSchemaUp[2] = Create("users", cs, ps)
    BY <2>1 DEF InitSchemaUp
  <2>. QED
    BY <2>2, <2>3, MadeAre
<1>7. Fits(3)
  <2>1. PICK cs, ps : cs = {"phone", "is_default"} /\ ps = {"users"}
    OBVIOUS
  <2>2. C["addresses"] = cs /\ Parents["addresses"] = ps
    BY <1>3, <2>1, ParentsAre
  <2>3. InitSchemaUp[3] = Create("addresses", cs, ps)
    BY <2>1 DEF InitSchemaUp
  <2>. QED
    BY <2>2, <2>3, MadeAre
<1>8. Fits(4)
  <2>1. PICK cs, ps : cs = {"quantity"} /\ ps = {"products", "users"}
    OBVIOUS
  <2>2. C["cart_items"] = cs /\ Parents["cart_items"] = ps
    BY <1>3, <2>1, ParentsAre
  <2>3. InitSchemaUp[4] = Create("cart_items", cs, ps)
    BY <2>1 DEF InitSchemaUp
  <2>. QED
    BY <2>2, <2>3, MadeAre
<1>9. Fits(5)
  <2>1. PICK cs, ps : cs = {"request_id"} /\ ps = {"users"}
    OBVIOUS
  <2>2. C["identity_verifications"] = cs /\ Parents["identity_verifications"] = ps
    BY <1>3, <2>1, ParentsAre
  <2>3. InitSchemaUp[5] = Create("identity_verifications", cs, ps)
    BY <2>1 DEF InitSchemaUp
  <2>. QED
    BY <2>2, <2>3, MadeAre
<1>10. Fits(6)
  <2>1. PICK cs, ps : cs = {"recipient_phone"} /\ ps = {"users"}
    OBVIOUS
  <2>2. C["orders"] = cs /\ Parents["orders"] = ps
    BY <1>3, <2>1, ParentsAre
  <2>3. InitSchemaUp[6] = Create("orders", cs, ps)
    BY <2>1 DEF InitSchemaUp
  <2>. QED
    BY <2>2, <2>3, MadeAre
<1>11. Fits(7)
  <2>1. PICK cs, ps : cs = {"url"} /\ ps = {"products"}
    OBVIOUS
  <2>2. C["product_images"] = cs /\ Parents["product_images"] = ps
    BY <1>3, <2>1, ParentsAre
  <2>3. InitSchemaUp[7] = Create("product_images", cs, ps)
    BY <2>1 DEF InitSchemaUp
  <2>. QED
    BY <2>2, <2>3, MadeAre
<1>12. Fits(8)
  <2>1. PICK cs, ps : cs = {"price_snapshot"} /\ ps = {"orders", "products"}
    OBVIOUS
  <2>2. C["order_items"] = cs /\ Parents["order_items"] = ps
    BY <1>3, <2>1, ParentsAre
  <2>3. InitSchemaUp[8] = Create("order_items", cs, ps)
    BY <2>1 DEF InitSchemaUp
  <2>. QED
    BY <2>2, <2>3, MadeAre
<1>13. Fits(9)
  <2>1. PICK cs, ps : cs = {"pg_tid"} /\ ps = {"orders"}
    OBVIOUS
  <2>2. C["payments"] = cs /\ Parents["payments"] = ps
    BY <1>3, <2>1, ParentsAre
  <2>3. InitSchemaUp[9] = Create("payments", cs, ps)
    BY <2>1 DEF InitSchemaUp
  <2>. QED
    BY <2>2, <2>3, MadeAre
<1>14. Fits(10)
  <2>1. PICK cs, ps : cs = {"tracking_number"} /\ ps = {"orders"}
    OBVIOUS
  <2>2. C["shipments"] = cs /\ Parents["shipments"] = ps
    BY <1>3, <2>1, ParentsAre
  <2>3. InitSchemaUp[10] = Create("shipments", cs, ps)
    BY <2>1 DEF InitSchemaUp
  <2>. QED
    BY <2>2, <2>3, MadeAre
<1>15. \A i \in 1..10 : Fits(i)
  BY <1>5, <1>6, <1>7, <1>8, <1>9, <1>10, <1>11, <1>12, <1>13, <1>14
<1>. QED
  BY <1>1, <1>2, <1>15 DEF C

LEMMA SameRowsOn ==
  ASSUME NEW a, NEW b, NEW c, SameRows(a, b), SameRows(b, c) PROVE SameRows(a, c)
BY DEF SameRows

\* What a table that goes leaves: the types, and no user without a name.
Fewer(d, e) == e.types = d.types /\ (e.nameless => d.nameless)

LEMMA Revision1 ==
  ASSUME NEW d
  PROVE  /\ At(d, 0) => Up(d, Applied(d, InitSchemaUp), 1)
         /\ At(d, 1) => Down(d, Applied(d, InitSchemaDown), 1)
<1>. DEFINE C == ColumnsAt(1)
<1>1. C = [x \in AllTables |-> C[x]]
  BY ColumnsFcn
<1>. HIDE DEF C
<1>2. ASSUME At(d, 0) PROVE Up(d, Applied(d, InitSchemaUp), 1)
  <2>0. Len(InitSchemaUp) \in Nat
    BY InitScript
  <2>1. PICK f : Passes(f, d, InitSchemaUp)
    BY <2>0, AppliedRuns
  <2>. DEFINE T == {i \in 0..10 : Shaped(f[i], First(i), C) /\ SameRows(d, f[i])}
  <2>2. 0 \in T
    <3>1. Shaped(d, {}, ColumnsAt(0)) /\ f[0] = d
      BY <1>2, <2>1, FirstAre DEF At, Passes
    <3>2. Shaped(d, {}, C)
      <4>1. Tables({}, ColumnsAt(0)) = Tables({}, C)
        BY DEF Tables
      <4>2. DOMAIN C = AllTables
        BY <1>1
      <4>. QED
        BY <3>1, <4>1, <4>2 DEF Shaped
    <3>. QED
      BY <3>1, <3>2, FirstAre DEF SameRows
  <2>3. ASSUME NEW i \in 1..10, i - 1 \in T PROVE i \in T
    <3>1. PICK t, cs, ps, D : t = Made[i] /\ cs = C[t] /\ ps = Parents[t] /\ D = First(i - 1)
      OBVIOUS
    <3>2. f[i] = Apply(f[i - 1], InitSchemaUp[i]) /\ InitSchemaUp[i] = Create(t, cs, ps)
      BY <2>1, <3>1, InitScript DEF Passes, C
    <3>3. t \in AllTables \ D /\ First(i) = D \cup {t} /\ ps \subseteq D
      BY <3>1, MadeNext
    <3>4. Shaped(f[i - 1], D, C) /\ SameRows(d, f[i - 1])
      BY <2>3, <3>1
    <3>5. Shaped(f[i], D \cup {t}, C) /\ SameRows(f[i - 1], f[i])
      BY <1>1, <3>1, <3>2, <3>3, <3>4, CreatedIn
    <3>6. SameRows(d, f[i])
      BY <3>4, <3>5, SameRowsOn
    <3>7. Shaped(f[i], First(i), C)
      BY <3>3, <3>5
    <3>. QED
      BY <3>6, <3>7
  <2>. HIDE DEF T
  <2>4. \A i \in 0..10 : i \in T
    BY <2>2, <2>3, UpTo
  <2>5. Shaped(f[10], First(10), C) /\ SameRows(d, f[10])
    BY <2>4 DEF T
  <2>6. Applied(d, InitSchemaUp) = f[10]
    BY <2>1, InitScript DEF Passes
  <2>7. Shaped(f[10], TablesAt(1), ColumnsAt(1)) /\ f[10].ok
    BY <2>5, FirstAre DEF C, Shaped
  <2>8. 0 = 1 - 1 /\ Allows(d, 1)
    BY DEF Allows
  <2>. QED
    BY <1>2, <2>5, <2>6, <2>7, <2>8, UpSame
<1>3. ASSUME At(d, 1) PROVE Down(d, Applied(d, InitSchemaDown), 1)
  <2>0. Len(InitSchemaDown) \in Nat
    BY InitScript
  <2>1. PICK f : Passes(f, d, InitSchemaDown)
    BY <2>0, AppliedRuns
  <2>. DEFINE T == {i \in 0..10 : Shaped(f[i], First(10 - i), C) /\ Fewer(d, f[i])}
  <2>2. 0 \in T
    <3>1. Shaped(d, First(10), C) /\ f[0] = d /\ 10 - 0 = 10
      BY <1>3, <2>1, FirstAre DEF At, Passes, C
    <3>. QED
      BY <3>1 DEF Fewer
  <2>3. ASSUME NEW i \in 1..10, i - 1 \in T PROVE i \in T
    <3>1. PICK k : k = 11 - i
      OBVIOUS
    <3>2. k \in 1..10 /\ 10 - (i - 1) = k /\ 10 - i = k - 1 /\ i \in 0..10
      BY <3>1
    <3>3. PICK t, D : t = Made[k] /\ D = First(k)
      OBVIOUS
    <3>4. f[i] = Apply(f[i - 1], Drop(t))
      BY <2>1, <3>1, <3>3, InitScript DEF Passes
    <3>5. t \in D /\ D \ {t} = First(k - 1) /\ \A x \in D \ {t} : t \notin Parents[x]
      BY <3>2, <3>3, MadeNext
    <3>6. Shaped(f[i - 1], D, C) /\ Fewer(d, f[i - 1])
      BY <2>3, <3>2, <3>3
    <3>7. Shaped(f[i], D \ {t}, C) /\ Forgotten(f[i - 1], f[i], t)
      BY <3>4, <3>5, <3>6, TableDropped
    <3>8. Fewer(d, f[i])
      BY <3>6, <3>7 DEF Fewer, Forgotten
    <3>. QED
      BY <3>2, <3>5, <3>7, <3>8
  <2>. HIDE DEF T
  <2>4. \A i \in 0..10 : i \in T
    BY <2>2, <2>3, UpTo
  <2>5. Shaped(f[10], First(10 - 10), C) /\ Fewer(d, f[10])
    BY <2>4 DEF T
  <2>6. Applied(d, InitSchemaDown) = f[10]
    BY <2>1, InitScript DEF Passes
  <2>7. Shaped(f[10], TablesAt(0), ColumnsAt(0)) /\ f[10].ok
    <3>1. Shaped(f[10], {}, C)
      BY <2>5, FirstAre
    <3>2. Tables({}, ColumnsAt(0)) = Tables({}, C)
      BY DEF Tables
    <3>3. DOMAIN ColumnsAt(0) = AllTables
      BY DEF ColumnsAt
    <3>. QED
      BY <3>1, <3>2, <3>3, FirstAre DEF Shaped
  <2>8. 0 = 1 - 1 /\ ~d.nameless
    BY <1>3 DEF At
  <2>. QED
    BY <2>5, <2>6, <2>7, <2>8 DEF Down, At, Fewer
<1>. QED
  BY <1>2, <1>3

-----------------------------------------------------------------------------
(***************************************************************************)
(* The line of the revisions, and the commands that go along it.           *)
(***************************************************************************)
LEMMA Line ==
  /\ Latest = 22
  /\ Upgrades[1] = InitSchemaUp /\ Downgrades[1] = InitSchemaDown
  /\ Upgrades[2] = ShippingMethodUp /\ Downgrades[2] = ShippingMethodDown
  /\ Upgrades[3] = IdentityUp /\ Downgrades[3] = IdentityDown
  /\ Upgrades[4] = ImageLabelUp /\ Downgrades[4] = ImageLabelDown
  /\ Upgrades[5] = ConsentUp /\ Downgrades[5] = ConsentDown
  /\ Upgrades[6] = LoginIdUp /\ Downgrades[6] = LoginIdDown
  /\ Upgrades[7] = MustChangeUp /\ Downgrades[7] = MustChangeDown
  /\ Upgrades[8] = SocialAccountsUp /\ Downgrades[8] = SocialAccountsDown
  /\ Upgrades[9] = FavoritesUp /\ Downgrades[9] = FavoritesDown
  /\ Upgrades[10] = UserStatusUp /\ Downgrades[10] = UserStatusDown
  /\ Upgrades[11] = CategoriesUp /\ Downgrades[11] = CategoriesDown
  /\ Upgrades[12] = WithdrawnAtUp /\ Downgrades[12] = WithdrawnAtDown
  /\ Upgrades[13] = AddressMemoUp /\ Downgrades[13] = AddressMemoDown
  /\ Upgrades[14] = BrandSnapshotUp /\ Downgrades[14] = BrandSnapshotDown
  /\ Upgrades[15] = HelpUp /\ Downgrades[15] = HelpDown
  /\ Upgrades[16] = AnswerUp /\ Downgrades[16] = AnswerDown
  /\ Upgrades[17] = ContactPhoneUp /\ Downgrades[17] = ContactPhoneDown
  /\ Upgrades[18] = ModelSnapshotUp /\ Downgrades[18] = ModelSnapshotDown
  /\ Upgrades[19] = DropIdentityUp /\ Downgrades[19] = DropIdentityDown
  /\ Upgrades[20] = PhoneBackfillUp /\ Downgrades[20] = PhoneBackfillDown
  /\ Upgrades[21] = HasPasswordUp /\ Downgrades[21] = HasPasswordDown
  /\ Upgrades[22] = CategoryImageUp /\ Downgrades[22] = CategoryImageDown
<1>1. Latest = 22
  BY DEF Latest, Upgrades
<1>2. Upgrades[1] = InitSchemaUp /\ Downgrades[1] = InitSchemaDown
  BY DEF Upgrades, Downgrades
<1>3. Upgrades[2] = ShippingMethodUp /\ Downgrades[2] = ShippingMethodDown
  BY DEF Upgrades, Downgrades
<1>4. Upgrades[3] = IdentityUp /\ Downgrades[3] = IdentityDown
  BY DEF Upgrades, Downgrades
<1>5. Upgrades[4] = ImageLabelUp /\ Downgrades[4] = ImageLabelDown
  BY DEF Upgrades, Downgrades
<1>6. Upgrades[5] = ConsentUp /\ Downgrades[5] = ConsentDown
  BY DEF Upgrades, Downgrades
<1>7. Upgrades[6] = LoginIdUp /\ Downgrades[6] = LoginIdDown
  BY DEF Upgrades, Downgrades
<1>8. Upgrades[7] = MustChangeUp /\ Downgrades[7] = MustChangeDown
  BY DEF Upgrades, Downgrades
<1>9. Upgrades[8] = SocialAccountsUp /\ Downgrades[8] = SocialAccountsDown
  BY DEF Upgrades, Downgrades
<1>10. Upgrades[9] = FavoritesUp /\ Downgrades[9] = FavoritesDown
  BY DEF Upgrades, Downgrades
<1>11. Upgrades[10] = UserStatusUp /\ Downgrades[10] = UserStatusDown
  BY DEF Upgrades, Downgrades
<1>12. Upgrades[11] = CategoriesUp /\ Downgrades[11] = CategoriesDown
  BY DEF Upgrades, Downgrades
<1>13. Upgrades[12] = WithdrawnAtUp /\ Downgrades[12] = WithdrawnAtDown
  BY DEF Upgrades, Downgrades
<1>14. Upgrades[13] = AddressMemoUp /\ Downgrades[13] = AddressMemoDown
  BY DEF Upgrades, Downgrades
<1>15. Upgrades[14] = BrandSnapshotUp /\ Downgrades[14] = BrandSnapshotDown
  BY DEF Upgrades, Downgrades
<1>16. Upgrades[15] = HelpUp /\ Downgrades[15] = HelpDown
  BY DEF Upgrades, Downgrades
<1>17. Upgrades[16] = AnswerUp /\ Downgrades[16] = AnswerDown
  BY DEF Upgrades, Downgrades
<1>18. Upgrades[17] = ContactPhoneUp /\ Downgrades[17] = ContactPhoneDown
  BY DEF Upgrades, Downgrades
<1>19. Upgrades[18] = ModelSnapshotUp /\ Downgrades[18] = ModelSnapshotDown
  BY DEF Upgrades, Downgrades
<1>20. Upgrades[19] = DropIdentityUp /\ Downgrades[19] = DropIdentityDown
  BY DEF Upgrades, Downgrades
<1>21. Upgrades[20] = PhoneBackfillUp /\ Downgrades[20] = PhoneBackfillDown
  BY DEF Upgrades, Downgrades
<1>22. Upgrades[21] = HasPasswordUp /\ Downgrades[21] = HasPasswordDown
  BY DEF Upgrades, Downgrades
<1>23. Upgrades[22] = CategoryImageUp /\ Downgrades[22] = CategoryImageDown
  BY DEF Upgrades, Downgrades
<1>. QED
  BY <1>1, <1>2, <1>3, <1>4, <1>5, <1>6, <1>7, <1>8, <1>9, <1>10, <1>11, <1>12, <1>13, <1>14, <1>15, <1>16, <1>17, <1>18, <1>19, <1>20, <1>21, <1>22, <1>23

\* Each revision takes a database of the one before to its own, and back.
LEMMA Revision ==
  ASSUME NEW n \in 1..22, NEW d
  PROVE  /\ At(d, n - 1) => Up(d, Applied(d, Upgrades[n]), n)
         /\ At(d, n) => Down(d, Applied(d, Downgrades[n]), n)
<1>1. CASE n = 1
  <2>1. n - 1 = 0 /\ Upgrades[n] = InitSchemaUp /\ Downgrades[n] = InitSchemaDown
    BY <1>1, Line
  <2>. QED
    BY <1>1, <2>1, Revision1
<1>2. CASE n = 2
  <2>1. n - 1 = 1 /\ Upgrades[n] = ShippingMethodUp /\ Downgrades[n] = ShippingMethodDown
    BY <1>2, Line
  <2>. QED
    BY <1>2, <2>1, Revision2
<1>3. CASE n = 3
  <2>1. n - 1 = 2 /\ Upgrades[n] = IdentityUp /\ Downgrades[n] = IdentityDown
    BY <1>3, Line
  <2>. QED
    BY <1>3, <2>1, Revision3
<1>4. CASE n = 4
  <2>1. n - 1 = 3 /\ Upgrades[n] = ImageLabelUp /\ Downgrades[n] = ImageLabelDown
    BY <1>4, Line
  <2>. QED
    BY <1>4, <2>1, Revision4
<1>5. CASE n = 5
  <2>1. n - 1 = 4 /\ Upgrades[n] = ConsentUp /\ Downgrades[n] = ConsentDown
    BY <1>5, Line
  <2>. QED
    BY <1>5, <2>1, Revision5
<1>6. CASE n = 6
  <2>1. n - 1 = 5 /\ Upgrades[n] = LoginIdUp /\ Downgrades[n] = LoginIdDown
    BY <1>6, Line
  <2>. QED
    BY <1>6, <2>1, Revision6
<1>7. CASE n = 7
  <2>1. n - 1 = 6 /\ Upgrades[n] = MustChangeUp /\ Downgrades[n] = MustChangeDown
    BY <1>7, Line
  <2>. QED
    BY <1>7, <2>1, Revision7
<1>8. CASE n = 8
  <2>1. n - 1 = 7 /\ Upgrades[n] = SocialAccountsUp /\ Downgrades[n] = SocialAccountsDown
    BY <1>8, Line
  <2>. QED
    BY <1>8, <2>1, Revision8
<1>9. CASE n = 9
  <2>1. n - 1 = 8 /\ Upgrades[n] = FavoritesUp /\ Downgrades[n] = FavoritesDown
    BY <1>9, Line
  <2>. QED
    BY <1>9, <2>1, Revision9
<1>10. CASE n = 10
  <2>1. n - 1 = 9 /\ Upgrades[n] = UserStatusUp /\ Downgrades[n] = UserStatusDown
    BY <1>10, Line
  <2>. QED
    BY <1>10, <2>1, Revision10
<1>11. CASE n = 11
  <2>1. n - 1 = 10 /\ Upgrades[n] = CategoriesUp /\ Downgrades[n] = CategoriesDown
    BY <1>11, Line
  <2>. QED
    BY <1>11, <2>1, Revision11
<1>12. CASE n = 12
  <2>1. n - 1 = 11 /\ Upgrades[n] = WithdrawnAtUp /\ Downgrades[n] = WithdrawnAtDown
    BY <1>12, Line
  <2>. QED
    BY <1>12, <2>1, Revision12
<1>13. CASE n = 13
  <2>1. n - 1 = 12 /\ Upgrades[n] = AddressMemoUp /\ Downgrades[n] = AddressMemoDown
    BY <1>13, Line
  <2>. QED
    BY <1>13, <2>1, Revision13
<1>14. CASE n = 14
  <2>1. n - 1 = 13 /\ Upgrades[n] = BrandSnapshotUp /\ Downgrades[n] = BrandSnapshotDown
    BY <1>14, Line
  <2>. QED
    BY <1>14, <2>1, Revision14
<1>15. CASE n = 15
  <2>1. n - 1 = 14 /\ Upgrades[n] = HelpUp /\ Downgrades[n] = HelpDown
    BY <1>15, Line
  <2>. QED
    BY <1>15, <2>1, Revision15
<1>16. CASE n = 16
  <2>1. n - 1 = 15 /\ Upgrades[n] = AnswerUp /\ Downgrades[n] = AnswerDown
    BY <1>16, Line
  <2>. QED
    BY <1>16, <2>1, Revision16
<1>17. CASE n = 17
  <2>1. n - 1 = 16 /\ Upgrades[n] = ContactPhoneUp /\ Downgrades[n] = ContactPhoneDown
    BY <1>17, Line
  <2>. QED
    BY <1>17, <2>1, Revision17
<1>18. CASE n = 18
  <2>1. n - 1 = 17 /\ Upgrades[n] = ModelSnapshotUp /\ Downgrades[n] = ModelSnapshotDown
    BY <1>18, Line
  <2>. QED
    BY <1>18, <2>1, Revision18
<1>19. CASE n = 19
  <2>1. n - 1 = 18 /\ Upgrades[n] = DropIdentityUp /\ Downgrades[n] = DropIdentityDown
    BY <1>19, Line
  <2>. QED
    BY <1>19, <2>1, Revision19
<1>20. CASE n = 20
  <2>1. n - 1 = 19 /\ Upgrades[n] = PhoneBackfillUp /\ Downgrades[n] = PhoneBackfillDown
    BY <1>20, Line
  <2>. QED
    BY <1>20, <2>1, Revision20
<1>21. CASE n = 21
  <2>1. n - 1 = 20 /\ Upgrades[n] = HasPasswordUp /\ Downgrades[n] = HasPasswordDown
    BY <1>21, Line
  <2>. QED
    BY <1>21, <2>1, Revision21
<1>22. CASE n = 22
  <2>1. n - 1 = 21 /\ Upgrades[n] = CategoryImageUp /\ Downgrades[n] = CategoryImageDown
    BY <1>22, Line
  <2>. QED
    BY <1>22, <2>1, Revision22
<1>. QED
  BY <1>1, <1>2, <1>3, <1>4, <1>5, <1>6, <1>7, <1>8, <1>9, <1>10, <1>11, <1>12, <1>13, <1>14, <1>15, <1>16, <1>17, <1>18, <1>19, <1>20, <1>21, <1>22

LEMMA ScriptRefused ==
  ASSUME NEW d, DOMAIN d = Fields, ~d.ok, NEW script, Len(script) \in Nat
  PROVE  DOMAIN Applied(d, script) = Fields /\ ~Applied(d, script).ok
<1>1. PICK f : Passes(f, d, script)
  BY AppliedRuns
<1>2. PICK n \in Nat : n = Len(script)
  OBVIOUS
<1>. DEFINE T == {i \in 0..n : DOMAIN f[i] = Fields /\ ~f[i].ok}
<1>3. 0 \in T
  BY <1>1 DEF Passes
<1>4. ASSUME NEW i \in 1..n, i - 1 \in T PROVE i \in T
  <2>1. f[i] = Apply(f[i - 1], script[i])
    BY <1>1, <1>2 DEF Passes
  <2>2. DOMAIN f[i] = Fields /\ ~f[i].ok
    BY <1>4, <2>1, StaysRefused
  <2>. QED
    BY <2>2
<1>. HIDE DEF T
<1>5. \A i \in 0..n : i \in T
  BY <1>3, <1>4, UpTo
<1>6. DOMAIN f[n] = Fields /\ ~f[n].ok
  BY <1>5 DEF T
<1>. QED
  BY <1>1, <1>2, <1>6 DEF Passes

LEMMA ScriptsEnd ==
  ASSUME NEW n \in 1..22
  PROVE  Len(Upgrades[n]) \in Nat /\ Len(Downgrades[n]) \in Nat
<1>. DEFINE Ends(script) == Len(script) \in Nat
<1>1. Ends(InitSchemaUp) /\ Ends(InitSchemaDown)
  BY DEF InitSchemaUp, InitSchemaDown
<1>2. Ends(ShippingMethodUp) /\ Ends(ShippingMethodDown)
  BY DEF ShippingMethodUp, ShippingMethodDown
<1>3. Ends(IdentityUp) /\ Ends(IdentityDown)
  BY DEF IdentityUp, IdentityDown
<1>4. Ends(ImageLabelUp) /\ Ends(ImageLabelDown)
  BY DEF ImageLabelUp, ImageLabelDown
<1>5. Ends(ConsentUp) /\ Ends(ConsentDown)
  BY DEF ConsentUp, ConsentDown
<1>6. Ends(LoginIdUp) /\ Ends(LoginIdDown)
  BY DEF LoginIdUp, LoginIdDown
<1>7. Ends(MustChangeUp) /\ Ends(MustChangeDown)
  BY DEF MustChangeUp, MustChangeDown
<1>8. Ends(SocialAccountsUp) /\ Ends(SocialAccountsDown)
  BY DEF SocialAccountsUp, SocialAccountsDown
<1>9. Ends(FavoritesUp) /\ Ends(FavoritesDown)
  BY DEF FavoritesUp, FavoritesDown
<1>10. Ends(UserStatusUp) /\ Ends(UserStatusDown)
  BY DEF UserStatusUp, UserStatusDown
<1>11. Ends(CategoriesUp) /\ Ends(CategoriesDown)
  BY DEF CategoriesUp, CategoriesDown
<1>12. Ends(WithdrawnAtUp) /\ Ends(WithdrawnAtDown)
  BY DEF WithdrawnAtUp, WithdrawnAtDown
<1>13. Ends(AddressMemoUp) /\ Ends(AddressMemoDown)
  BY DEF AddressMemoUp, AddressMemoDown
<1>14. Ends(BrandSnapshotUp) /\ Ends(BrandSnapshotDown)
  BY DEF BrandSnapshotUp, BrandSnapshotDown
<1>15. Ends(HelpUp) /\ Ends(HelpDown)
  BY DEF HelpUp, HelpDown
<1>16. Ends(AnswerUp) /\ Ends(AnswerDown)
  BY DEF AnswerUp, AnswerDown
<1>17. Ends(ContactPhoneUp) /\ Ends(ContactPhoneDown)
  BY DEF ContactPhoneUp, ContactPhoneDown
<1>18. Ends(ModelSnapshotUp) /\ Ends(ModelSnapshotDown)
  BY DEF ModelSnapshotUp, ModelSnapshotDown
<1>19. Ends(DropIdentityUp) /\ Ends(DropIdentityDown)
  BY DEF DropIdentityUp, DropIdentityDown
<1>20. Ends(PhoneBackfillUp) /\ Ends(PhoneBackfillDown)
  BY DEF PhoneBackfillUp, PhoneBackfillDown
<1>21. Ends(HasPasswordUp) /\ Ends(HasPasswordDown)
  BY DEF HasPasswordUp, HasPasswordDown
<1>22. Ends(CategoryImageUp) /\ Ends(CategoryImageDown)
  BY DEF CategoryImageUp, CategoryImageDown
<1>. HIDE DEF Ends
<1>23. Ends(Upgrades[n]) /\ Ends(Downgrades[n])
  BY Line, <1>1, <1>2, <1>3, <1>4, <1>5, <1>6, <1>7, <1>8, <1>9, <1>10, <1>11,
     <1>12, <1>13, <1>14, <1>15, <1>16, <1>17, <1>18, <1>19, <1>20, <1>21, <1>22
<1>. QED
  BY <1>23 DEF Ends

\* What an upgrade does: the data that lets it through, and what becomes of the rest.
Open(d, from, to) ==
    /\ from < 2 => "orders" \notin d.rows
    /\ from < 5 => "users" \notin d.rows
    /\ from < 6 => ~d.nameless
    /\ from < 15 /\ to >= 15 => "contact_status" \notin d.types

Upward(d, e, from, to) ==
    /\ Open(d, from, to) => e.ok
    /\ ~e.ok => DOMAIN e = Fields
    /\ e.ok => /\ At(e, to) /\ Kept(d, e) /\ e.rows \subseteq d.rows
               /\ (e.nameless <=> d.nameless) /\ e.product = d.product
               /\ e.categories = IF from < 11 /\ to >= 11 THEN BuiltIn ELSE d.categories
               /\ e.types = d.types \cup (IF from < 15 /\ to >= 15 THEN {"contact_status"}
                                          ELSE {})

LEMMA OneMoreUp ==
  ASSUME NEW from \in 0..22, NEW n \in (from + 1)..22, NEW d, NEW x, Upward(d, x, from, n - 1),
         NEW e, e = Applied(x, Upgrades[n])
  PROVE  Upward(d, e, from, n)
<1>1. n \in 1..22 /\ n - 1 \in from..22
  OBVIOUS
<1>2. CASE ~x.ok
  <2>1. DOMAIN e = Fields /\ ~e.ok
    BY <1>1, <1>2, ScriptsEnd, ScriptRefused DEF Upward
  <2>2. ~Open(d, from, n - 1)
    BY <1>2 DEF Upward
  <2>3. ~Open(d, from, n)
    BY <1>1, <2>2 DEF Open
  <2>. QED
    BY <2>1, <2>3 DEF Upward
<1>3. CASE x.ok
  <2>1. At(x, n - 1)
    BY <1>3 DEF Upward
  <2>2. Up(x, e, n)
    BY <1>1, <2>1, Revision
  <2>3. ASSUME Open(d, from, n) PROVE e.ok
    <3>1. Allows(x, n)
      BY <1>1, <1>3, <2>3 DEF Open, Allows, Upward
    <3>. QED
      BY <2>2, <3>1 DEF Up
  <2>4. ~e.ok => DOMAIN e = Fields
    BY <2>2 DEF Up
  <2>5. ASSUME e.ok
        PROVE  /\ At(e, n) /\ Kept(d, e) /\ e.rows \subseteq d.rows
               /\ (e.nameless <=> d.nameless) /\ e.product = d.product
    BY <1>3, <2>2, <2>5 DEF Up, Upward, Kept
  <2>6. ASSUME e.ok
        PROVE  e.categories = IF from < 11 /\ n >= 11 THEN BuiltIn ELSE d.categories
    BY <1>1, <1>3, <2>2, <2>6 DEF Up, Upward
  <2>7. ASSUME e.ok
        PROVE  e.types = d.types \cup (IF from < 15 /\ n >= 15 THEN {"contact_status"} ELSE {})
    <3>1. e.types = x.types \cup (IF n = 15 THEN {"contact_status"} ELSE {})
      BY <2>2, <2>7 DEF Up
    <3>2. x.types = d.types \cup (IF from < 15 /\ n - 1 >= 15 THEN {"contact_status"} ELSE {})
      BY <1>3 DEF Upward
    <3>. QED
      BY <1>1, <3>1, <3>2
  <2>. QED
    BY <2>3, <2>4, <2>5, <2>6, <2>7 DEF Upward
<1>. QED
  BY <1>2, <1>3

LEMMA UpgradeGives ==
  ASSUME NEW from \in 0..22, NEW to \in from..22, NEW d, At(d, from)
  PROVE  Upward(d, Upgraded(d, from, to), from, to)
<1>0. from \in Nat /\ to \in Nat /\ from <= to
  OBVIOUS
<1>1. PICK f : Climbs(f, d, from, to)
  BY <1>0, UpgradedRuns
<1>2. PICK m \in Nat : m = to - from
  OBVIOUS
<1>. DEFINE T == {i \in 0..m : Upward(d, f[from + i], from, from + i)}
<1>3. 0 \in T
  <2>1. Upward(d, d, from, from)
    BY DEF Upward, Kept, At, Shaped
  <2>. QED
    BY <1>1, <2>1 DEF Climbs
<1>4. ASSUME NEW i \in 1..m, i - 1 \in T PROVE i \in T
  <2>1. PICK n \in (from + 1)..22 : n = from + i
    BY <1>2
  <2>2. n \in (from + 1)..to /\ from + (i - 1) = n - 1
    BY <1>2, <2>1
  <2>3. Upward(d, f[n - 1], from, n - 1) /\ f[n] = Applied(f[n - 1], Upgrades[n])
    BY <1>1, <1>4, <2>2 DEF Climbs
  <2>4. Upward(d, f[n], from, n)
    BY <2>3, OneMoreUp
  <2>. QED
    BY <2>1, <2>4
<1>. HIDE DEF T
<1>5. \A i \in 0..m : i \in T
  BY <1>3, <1>4, UpTo
<1>6. Upward(d, f[from + m], from, from + m)
  BY <1>5 DEF T
<1>. QED
  BY <1>1, <1>2, <1>6 DEF Climbs

\* What a downgrade does: as far as 589d381b3893 no data refuses it.
Downward(d, e, to) ==
    /\ to >= 5 => e.ok
    /\ ~e.ok => DOMAIN e = Fields
    /\ e.ok => At(e, to) /\ e.types = d.types /\ (to > 0 => Kept(d, e))

LEMMA OneMoreDown ==
  ASSUME NEW n \in 0..21, NEW d, NEW x, Downward(d, x, n + 1),
         NEW e, e = Applied(x, Downgrades[n + 1])
  PROVE  Downward(d, e, n)
<1>1. n + 1 \in 1..22 /\ (n + 1) - 1 = n
  OBVIOUS
<1>2. CASE ~x.ok
  <2>1. DOMAIN e = Fields /\ ~e.ok
    BY <1>1, <1>2, ScriptsEnd, ScriptRefused DEF Downward
  <2>2. ~(n >= 5)
    BY <1>2 DEF Downward
  <2>. QED
    BY <2>1, <2>2 DEF Downward
<1>3. CASE x.ok
  <2>1. At(x, n + 1)
    BY <1>3 DEF Downward
  <2>2. Down(x, e, n + 1)
    BY <1>1, <2>1, Revision
  <2>. QED
    BY <1>1, <1>3, <2>2 DEF Down, Downward, Kept
<1>. QED
  BY <1>2, <1>3

LEMMA DowngradeGives ==
  ASSUME NEW from \in 0..22, NEW to \in 0..from, NEW d, At(d, from)
  PROVE  Downward(d, Downgraded(d, from, to), to)
<1>0. from \in Nat /\ to \in Nat /\ to <= from
  OBVIOUS
<1>1. PICK f : Descends(f, d, from, to)
  BY <1>0, DowngradedRuns
<1>2. PICK m \in Nat : m = from - to
  OBVIOUS
<1>. DEFINE T == {i \in 0..m : Downward(d, f[from - i], from - i)}
<1>3. 0 \in T
  <2>1. Downward(d, d, from)
    BY DEF Downward, Kept, At, Shaped
  <2>. QED
    BY <1>1, <2>1 DEF Descends
<1>4. ASSUME NEW i \in 1..m, i - 1 \in T PROVE i \in T
  <2>1. PICK n \in 0..21 : n = from - i
    BY <1>2
  <2>2. n \in to..(from - 1) /\ from - (i - 1) = n + 1
    BY <1>2, <2>1
  <2>3. Downward(d, f[n + 1], n + 1) /\ f[n] = Applied(f[n + 1], Downgrades[n + 1])
    BY <1>1, <1>4, <2>2 DEF Descends
  <2>4. Downward(d, f[n], n)
    BY <2>3, OneMoreDown
  <2>. QED
    BY <2>1, <2>4
<1>. HIDE DEF T
<1>5. \A i \in 0..m : i \in T
  BY <1>3, <1>4, UpTo
<1>6. Downward(d, f[from - m], from - m)
  BY <1>5 DEF T
<1>. QED
  BY <1>1, <1>2, <1>6 DEF Descends

LEMMA MigratedIs ==
  ASSUME NEW from \in 0..22, NEW to \in 0..22, NEW d, At(d, from)
  PROVE  IF from <= to THEN Upward(d, Migrated(d, from, to), from, to)
                       ELSE Downward(d, Migrated(d, from, to), to)
<1>1. CASE from <= to
  <2>1. to \in from..22
    BY <1>1
  <2>. QED
    BY <1>1, <2>1, UpgradeGives DEF Migrated
<1>2. CASE ~(from <= to)
  <2>1. to \in 0..from
    BY <1>2
  <2>. QED
    BY <1>2, <2>1, DowngradeGives DEF Migrated
<1>. QED
  BY <1>1, <1>2

LEMMA EmptyAt == At(Empty, 0) /\ Empty.rows = {} /\ Empty.types = {} /\ ~Empty.nameless
<1>1. /\ DOMAIN Empty = Fields /\ Empty.ok /\ Empty.tables = <<>> /\ ~Empty.nameless
      /\ Empty.rows = {} /\ Empty.types = {} /\ Empty.verified = Unverified
      /\ Empty.phone = NoPhone
  BY DEF Empty, Fields
<1>2. Unverified \in [Users -> SUBSET VerifiedColumns] /\ NoPhone \in [Phones -> PhoneForms]
  BY DEF Unverified, NoPhone, PhoneForms
<1>3. <<>> = Tables({}, ColumnsAt(0)) /\ DOMAIN ColumnsAt(0) = AllTables
  BY DEF Tables, ColumnsAt
<1>4. Shaped(Empty, TablesAt(0), ColumnsAt(0))
  BY <1>1, <1>2, <1>3, FirstAre DEF Shaped
<1>. QED
  BY <1>1, <1>4 DEF At

\* The database upgraded straight to a revision.
LEMMA StraightAt ==
  ASSUME NEW n \in 0..22
  PROVE  /\ At(Straight[n], n)
         /\ Straight[n].types = IF n >= 15 THEN {"contact_status"} ELSE {}
<1>1. Straight[n] = Migrated(Empty, 0, n)
  BY Line DEF Straight
<1>2. Upward(Empty, Straight[n], 0, n)
  BY <1>1, EmptyAt, MigratedIs
<1>3. Open(Empty, 0, n)
  BY EmptyAt DEF Open
<1>. QED
  BY <1>2, <1>3, EmptyAt DEF Upward

-----------------------------------------------------------------------------
(***************************************************************************)
(* The database is always as its revision has it.                          *)
(***************************************************************************)
IInv == rev \in 0..Latest /\ At(db, rev)

\* Every change of rows leaves the schema.
LEMMA Rewritten ==
  ASSUME NEW d, NEW n, At(d, n), NEW e, DOMAIN e = Fields, (e.ok <=> d.ok), e.tables = d.tables,
         e.serial = d.serial, e.nameless => d.nameless \/ n = 5,
         e.verified \in [Users -> SUBSET VerifiedColumns], e.phone \in [Phones -> PhoneForms],
         n >= 20 => \A f \in Phones : e.phone[f] \notin {"digits11", "digits10"}
  PROVE  At(e, n)
BY DEF At, Shaped

LEMMA InitIInv == Init => IInv
<1>1. CASE rev = 0 /\ db = Empty
  BY <1>1, EmptyAt, Line DEF IInv
<1>2. CASE rev = 1 /\ db = LET d == Migrated(Empty, 0, 1) IN [d EXCEPT !.serial = DOMAIN d.tables]
  <2>1. PICK d : d = Straight[1]
    OBVIOUS
  <2>2. At(d, 1)
    BY <2>1, StraightAt
  <2>3. PICK s : s = DOMAIN d.tables
    OBVIOUS
  <2>4. d = Migrated(Empty, 0, 1)
    BY <2>1, Line DEF Straight
  <2>5. db = [d EXCEPT !.serial = s]
    BY <1>2, <2>3, <2>4
  <2>6. DOMAIN d = Fields
    BY <2>2 DEF At, Shaped
  <2>7. /\ DOMAIN db = Fields /\ (db.ok <=> d.ok) /\ db.tables = d.tables
        /\ (db.nameless <=> d.nameless) /\ db.verified = d.verified /\ db.phone = d.phone
    BY <2>5, <2>6 DEF Fields
  <2>8. At(db, 1)
    BY <2>2, <2>7 DEF At, Shaped
  <2>. QED
    BY <1>2, <2>8, Line DEF IInv
<1>. QED
  BY <1>1, <1>2 DEF Init

LEMMA MigrateIs ==
  ASSUME IInv, Migrate
  PROVE  /\ rev' \in 0..22 /\ db' = Migrated(db, rev, rev') /\ db'.ok
         /\ IF rev <= rev' THEN Upward(db, db', rev, rev') ELSE Downward(db, db', rev')
<1>1. rev \in 0..22 /\ At(db, rev)
  BY Line DEF IInv
<1>2. PICK to \in 0..22 : Migrated(db, rev, to).ok /\ db' = Migrated(db, rev, to) /\ rev' = to
  BY Line DEF Migrate
<1>. QED
  BY <1>1, <1>2, MigratedIs

LEMMA WriteIInv ==
  ASSUME IInv, Write PROVE IInv'
<1>1. rev \in 0..22 /\ rev' = rev /\ At(db, rev)
  BY Line DEF IInv, Write
<1>2. /\ DOMAIN db = Fields /\ db.verified \in [Users -> SUBSET VerifiedColumns]
      /\ db.phone \in [Phones -> PhoneForms]
      /\ rev >= 20 => \A f \in Phones : db.phone[f] \notin {"digits11", "digits10"}
  BY <1>1 DEF At, Shaped
<1>. SUFFICES At(db', rev)
  BY <1>1, Line DEF IInv
<1>3. CASE WriteUser
  <2>1. PICK rs : rs = db.rows \cup {"users"}
    OBVIOUS
  <2>2. \/ db' = [db EXCEPT !.rows = rs]
        \/ db' = [db EXCEPT !.rows = rs, !.nameless = (rev = 5)]
    BY <1>3, <2>1 DEF WriteUser, ConsentRev
  <2>3. /\ DOMAIN db' = Fields /\ (db'.ok <=> db.ok) /\ db'.tables = db.tables
        /\ db'.serial = db.serial /\ (db'.nameless => db.nameless \/ rev = 5)
        /\ db'.verified = db.verified /\ db'.phone = db.phone
    BY <1>2, <2>2 DEF Fields
  <2>. QED
    BY <1>1, <1>2, <2>3, Rewritten
<1>4. CASE WriteOrder
  <2>1. PICK rs : db' = [db EXCEPT !.rows = rs]
    BY <1>4 DEF WriteOrder
  <2>2. /\ DOMAIN db' = Fields /\ (db'.ok <=> db.ok) /\ db'.tables = db.tables
        /\ db'.serial = db.serial /\ (db'.nameless => db.nameless \/ rev = 5)
        /\ db'.verified = db.verified /\ db'.phone = db.phone
    BY <1>2, <2>1 DEF Fields
  <2>. QED
    BY <1>1, <1>2, <2>2, Rewritten
<1>5. CASE WriteVerification
  <2>1. PICK u \in Users, c \in VerifiedColumns :
            db' = [db EXCEPT !.verified = [db.verified EXCEPT ![u] = @ \cup {c}]]
    BY <1>5 DEF WriteVerification, VerifiedColumns
  <2>2. PICK v : v = [db.verified EXCEPT ![u] = @ \cup {c}]
    OBVIOUS
  <2>3. v \in [Users -> SUBSET VerifiedColumns]
    BY <1>2, <2>2
  <2>4. db' = [db EXCEPT !.verified = v]
    BY <2>1, <2>2
  <2>5. /\ DOMAIN db' = Fields /\ (db'.ok <=> db.ok) /\ db'.tables = db.tables
        /\ db'.serial = db.serial /\ (db'.nameless => db.nameless \/ rev = 5)
        /\ db'.verified = v /\ db'.phone = db.phone
    BY <1>2, <2>4 DEF Fields
  <2>. QED
    BY <1>1, <1>2, <2>3, <2>5, Rewritten
<1>6. CASE WritePhone
  <2>1. PICK f \in Phones, p \in PhoneForms :
            /\ db' = [db EXCEPT !.phone = [db.phone EXCEPT ![f] = p]]
            /\ rev >= 20 => p \notin {"digits11", "digits10"}
    <3>. DEFINE forms == {"hyphens11", "hyphens10"} \cup
                            (IF rev < PhoneBackfillRev THEN {"digits11", "digits10"} ELSE {})
    <3>1. PICK f \in Phones, p \in forms : db' = [db EXCEPT !.phone[f] = p]
      BY <1>6 DEF WritePhone
    <3>2. p \in PhoneForms /\ (rev >= 20 => p \notin {"digits11", "digits10"})
      BY <1>1 DEF PhoneBackfillRev, PhoneForms
    <3>3. db' = [db EXCEPT !.phone = [db.phone EXCEPT ![f] = p]]
      BY <3>1
    <3>. HIDE DEF forms
    <3>. QED
      BY <3>2, <3>3
  <2>2. PICK ph : ph = [db.phone EXCEPT ![f] = p]
    OBVIOUS
  <2>3. /\ ph \in [Phones -> PhoneForms]
        /\ rev >= 20 => \A g \in Phones : ph[g] \notin {"digits11", "digits10"}
    BY <1>2, <2>1, <2>2
  <2>4. db' = [db EXCEPT !.phone = ph]
    BY <2>1, <2>2
  <2>5. /\ DOMAIN db' = Fields /\ (db'.ok <=> db.ok) /\ db'.tables = db.tables
        /\ db'.serial = db.serial /\ (db'.nameless => db.nameless \/ rev = 5)
        /\ db'.verified = db.verified /\ db'.phone = ph
    BY <1>2, <2>4 DEF Fields
  <2>. QED
    BY <1>1, <1>2, <2>3, <2>5, Rewritten
<1>7. CASE WriteProduct
  <2>1. PICK pr : db' = [db EXCEPT !.product = pr]
    BY <1>7 DEF WriteProduct
  <2>2. /\ DOMAIN db' = Fields /\ (db'.ok <=> db.ok) /\ db'.tables = db.tables
        /\ db'.serial = db.serial /\ (db'.nameless => db.nameless \/ rev = 5)
        /\ db'.verified = db.verified /\ db'.phone = db.phone
    BY <1>2, <2>1 DEF Fields
  <2>. QED
    BY <1>1, <1>2, <2>2, Rewritten
<1>8. CASE WriteCategory
  <2>1. PICK cs : db' = [db EXCEPT !.categories = cs]
    BY <1>8 DEF WriteCategory
  <2>2. /\ DOMAIN db' = Fields /\ (db'.ok <=> db.ok) /\ db'.tables = db.tables
        /\ db'.serial = db.serial /\ (db'.nameless => db.nameless \/ rev = 5)
        /\ db'.verified = db.verified /\ db'.phone = db.phone
    BY <1>2, <2>1 DEF Fields
  <2>. QED
    BY <1>1, <1>2, <2>2, Rewritten
<1>. QED
  BY <1>3, <1>4, <1>5, <1>6, <1>7, <1>8 DEF Write

LEMMA NextIInv == IInv /\ [Next]_vars => IInv'
<1>. SUFFICES ASSUME IInv, [Next]_vars PROVE IInv'
  OBVIOUS
<1>1. CASE Migrate
  BY <1>1, MigrateIs, Line DEF IInv, Upward, Downward
<1>2. CASE Write
  BY <1>2, WriteIInv
<1>3. CASE UNCHANGED vars
  BY <1>3 DEF vars, IInv
<1>. QED
  BY <1>1, <1>2, <1>3 DEF Next

LEMMA AlwaysIInv == Spec => []IInv
<1>1. Init => IInv
  BY InitIInv
<1>2. IInv /\ [Next]_vars => IInv'
  BY NextIInv
<1>. QED
  BY <1>1, <1>2, PTL DEF Spec

\* Every upgrade from a revision that has been reached, by any way, is let
\* through by the data as soon as four conditions hold (e.g. there are no orders
\* before fe0e26b92c26), and what an upgrade keeps and makes of the data is what
\* Upward says.  Every downgrade as far as 589d381b3893 is let through.
THEOREM UpgradesAndDowngrades ==
  Spec => [](\A to \in 0..Latest :
                IF rev <= to THEN Upward(db, Migrated(db, rev, to), rev, to)
                             ELSE Downward(db, Migrated(db, rev, to), to))
<1>. DEFINE Gives == \A to \in 0..Latest :
                        IF rev <= to THEN Upward(db, Migrated(db, rev, to), rev, to)
                                     ELSE Downward(db, Migrated(db, rev, to), to)
<1>1. IInv => Gives
  BY MigratedIs, Line DEF IInv
<1>. QED
  BY <1>1, AlwaysIInv, PTL

\* The schema depends on the revision alone.
THEOREM ShapeFollows == Spec => []ShapeFollowsRevision
<1>1. ASSUME IInv PROVE ShapeFollowsRevision
  <2>1. rev \in 0..22 /\ At(db, rev)
    BY <1>1, Line DEF IInv
  <2>2. At(Straight[rev], rev)
    BY <2>1, StraightAt
  <2>. QED
    BY <2>1, <2>2 DEF ShapeFollowsRevision, At, Shaped
<1>. QED
  BY <1>1, AlwaysIInv, PTL

\* From c1a4d8e2f6b3 on no data refuses the upgrade to head or the downgrade by one.
THEOREM DataBlocksNothing == Spec => []DataNeverBlocks
<1>1. ASSUME IInv PROVE DataNeverBlocks
  <2>1. rev \in 0..22 /\ At(db, rev) /\ db.ok
    BY <1>1, Line DEF IInv, At, Shaped
  <2>2. ASSUME rev >= 6
        PROVE  Migrated([db EXCEPT !.types = Straight[rev].types], rev, 22).ok
    <3>1. PICK ty : ty = Straight[rev].types
      OBVIOUS
    <3>2. PICK d : d = [db EXCEPT !.types = ty]
      OBVIOUS
    <3>3. DOMAIN db = Fields
      BY <2>1 DEF At, Shaped
    <3>4. /\ DOMAIN d = Fields /\ (d.ok <=> db.ok) /\ d.tables = db.tables
          /\ d.serial = db.serial /\ (d.nameless => db.nameless) /\ d.types = ty
          /\ d.verified = db.verified /\ d.phone = db.phone
      BY <3>2, <3>3 DEF Fields
    <3>5. At(d, rev)
      BY <2>1, <3>4 DEF At, Shaped
    <3>6. ty = IF rev >= 15 THEN {"contact_status"} ELSE {}
      BY <2>1, <3>1, StraightAt
    <3>7. Open(d, rev, 22)
      BY <2>1, <2>2, <3>4, <3>5, <3>6 DEF Open, At
    <3>8. Upward(d, Migrated(d, rev, 22), rev, 22)
      BY <2>1, <3>5, MigratedIs
    <3>. QED
      BY <3>1, <3>2, <3>7, <3>8 DEF Upward
  <2>3. ASSUME rev > 6 PROVE Migrated(db, rev, rev - 1).ok
    <3>1. PICK to \in 0..22 : to = rev - 1
      BY <2>1, <2>3
    <3>2. Downward(db, Migrated(db, rev, to), to)
      BY <2>1, <3>1, MigratedIs
    <3>. QED
      BY <2>1, <2>3, <3>1, <3>2 DEF Downward
  <2>. QED
    BY <2>1, <2>2, <2>3, Line DEF DataNeverBlocks, LoginIdRev
<1>. QED
  BY <1>1, AlwaysIInv, PTL

\* From ea245030888c on every stored mobile number has its hyphens.
THEOREM HyphensStay == Spec => []PhonesHaveHyphens
<1>1. IInv => PhonesHaveHyphens
  <2>1. DOMAIN Digits = {"digits11", "digits10"}
    BY DEF Digits
  <2>. QED
    BY <2>1 DEF IInv, At, PhonesHaveHyphens, PhoneBackfillRev
<1>. QED
  BY <1>1, AlwaysIInv, PTL

\* No migration that keeps the users forgets that one is verified.
THEOREM VerifiedStay == Spec => VerificationSurvives
<1>. DEFINE Survives == rev' > 0 => \A u \in Users : db.verified[u] # {} => db'.verified[u] # {}
<1>1. ASSUME IInv, [Next]_vars PROVE [Survives]_vars
  <2>1. CASE Migrate
    BY <1>1, <2>1, MigrateIs DEF Upward, Downward, Kept
  <2>2. CASE Write
    <3>1. DOMAIN db = Fields /\ db.verified \in [Users -> SUBSET VerifiedColumns]
      BY <1>1 DEF IInv, At, Shaped
    <3>2. CASE WriteVerification
      BY <3>1, <3>2 DEF WriteVerification, Fields
    <3>3. CASE WriteUser \/ WriteOrder \/ WritePhone \/ WriteProduct \/ WriteCategory
      <4>1. db'.verified = db.verified
        BY <3>1, <3>3 DEF WriteUser, WriteOrder, WritePhone, WriteProduct, WriteCategory, Fields
      <4>. QED
        BY <4>1
    <3>. QED
      BY <2>2, <3>2, <3>3 DEF Write
  <2>3. CASE UNCHANGED vars
    BY <2>3
  <2>. QED
    BY <1>1, <2>1, <2>2, <2>3 DEF Next
<1>. QED
  BY <1>1, AlwaysIInv, PTL DEF Spec, VerificationSurvives

\* The upgrade to b427d8f8f268 leaves a row for every category of the enum.
THEOREM CategoriesCover == Spec => CategoriesCoverProducts
<1>. DEFINE Covers == rev < CategoriesRev /\ rev' >= CategoriesRev =>
                         \A p \in Products : db.product[p] \in BuiltIn => db.product[p] \in db'.categories
<1>1. ASSUME IInv, [Next]_vars PROVE [Covers]_vars
  <2>0. rev \in 0..22
    BY <1>1, Line DEF IInv
  <2>1. CASE Migrate
    BY <1>1, <2>0, <2>1, MigrateIs DEF Upward, CategoriesRev
  <2>2. CASE rev' = rev
    BY <2>0, <2>2 DEF CategoriesRev
  <2>. QED
    BY <1>1, <2>1, <2>2 DEF Next, Write, vars
<1>. QED
  BY <1>1, AlwaysIInv, PTL DEF Spec, CategoriesCoverProducts
=============================================================================
