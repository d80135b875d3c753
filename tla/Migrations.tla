----------------------------- MODULE Migrations -----------------------------
(***************************************************************************)
(* The Alembic migrations: twenty-two revisions in a line, each with an    *)
(* upgrade and a downgrade, run against a database that holds data.        *)
(*                                                                         *)
(* A migration is a sequence of steps on the schema (tables, the columns   *)
(* some migration treats specially, the native enum types) and on the rows *)
(* that a step reads or rewrites.  A step that PostgreSQL would refuse     *)
(* (the table exists, a NOT NULL column is added to rows, a referenced     *)
(* table is dropped) fails the run, and env.py runs a whole command in one *)
(* transaction, so a failed command leaves the database as it was.         *)
(* Comments, lengths, indexes and column types are left out.               *)
(***************************************************************************)
EXTENDS Naturals, Sequences

CONSTANTS
    Users,      \* the users there may be
    Phones,     \* the fields of users, addresses and orders that hold a mobile number
    Products,   \* the products there may be
    BuiltIn,    \* the categories of the enum, which become the seeded rows
    Categories  \* any category: those, and what the console makes up

ASSUME CategoriesAssumption == BuiltIn \subseteq Categories

VARIABLES
    rev,        \* how many of the revisions are applied (alembic_version)
    db          \* the schema and the rows the migrations depend on

vars == <<rev, db>>

(***************************************************************************)
(* Steps of a migration.                                                   *)
(***************************************************************************)
Step(op, t, cs, x) == [op |-> op, table |-> t, cols |-> cs, arg |-> x]
Create(t, cs, parents) == Step("create", t, cs, parents)
Drop(t)           == Step("drop", t, {}, {})
Add(t, cs)        == Step("add", t, cs, {})
AddRequired(t, c) == Step("addRequired", t, {c}, {})   \* NOT NULL, no default
DropCol(t, cs)    == Step("dropcol", t, cs, {})
Rename(t, c, new) == Step("rename", t, {c}, {new})
Require(t, c)     == Step("require", t, {c}, {})       \* SET NOT NULL
NewType(ty)       == Step("type", ty, {}, {})
Run(sql)          == Step("run", sql, {}, {})          \* a data statement

Unverified == [u \in Users |-> {}]         \* the columns that say so, of each user
NoPhone    == [f \in Phones |-> "none"]
NoProduct  == [p \in Products |-> "none"]  \* the category of each product

Empty == [ok |-> TRUE, tables |-> <<>>, types |-> {}, serial |-> {},
          rows |-> {}, nameless |-> FALSE, verified |-> Unverified,
          phone |-> NoPhone, categories |-> {}, product |-> NoProduct]

Cols(d, t)   == d.tables[t].cols
Exists(d, t) == t \in DOMAIN d.tables

\* What PostgreSQL accepts.
Accepts(d, s) ==
    CASE s.op = "create"  -> ~Exists(d, s.table) /\ \A p \in s.arg : Exists(d, p)
      [] s.op = "drop"    -> /\ Exists(d, s.table)
                             /\ \A t \in DOMAIN d.tables \ {s.table} :
                                    s.table \notin d.tables[t].parents
      [] s.op = "type"    -> s.table \notin d.types
      [] s.op \in {"add", "addRequired"} ->
             /\ Exists(d, s.table) /\ s.cols \cap Cols(d, s.table) = {}
             /\ s.op = "addRequired" => s.table \notin d.rows
      [] s.op \in {"dropcol", "require", "rename"} ->
             /\ Exists(d, s.table) /\ s.cols \subseteq Cols(d, s.table)
             /\ s.op = "require" => ~d.nameless
             /\ s.op = "rename"  => s.arg \cap Cols(d, s.table) = {}
      [] OTHER -> TRUE

SetCols(d, t, cs) == [d EXCEPT !.tables[t].cols = cs]

\* What a column of users said goes with it.
Unmark(d, cs) == [d EXCEPT !.verified = [u \in Users |-> @[u] \ cs]]

\* The rows of a table go with it.
Forget(d, t) ==
    LET e == [d EXCEPT !.tables = [u \in DOMAIN @ \ {t} |-> @[u]],
                       !.rows = @ \ {t}, !.serial = @ \ {t}]
    IN CASE t = "users"    -> [e EXCEPT !.nameless = FALSE, !.verified = Unverified,
                                        !.phone = NoPhone]
         [] t = "products" -> [e EXCEPT !.product = NoProduct]
         [] t = "product_categories" -> [e EXCEPT !.categories = {}]
         [] OTHER -> e

\* A mobile number is stored as its digits alone or with hyphens.
Digits == [digits11 |-> "hyphens11", digits10 |-> "hyphens10"]
Hyphen == [hyphens11 |-> "digits11", hyphens10 |-> "digits10"]

\* The data statements of the migrations.
Statement(d, sql) ==
    CASE sql = "carry verification" ->
             [d EXCEPT !.verified = [u \in Users |->
                 IF "identity_verified_at" \in @[u] THEN @[u] \cup {"phone_verified_at"}
                 ELSE @[u]]]
      [] sql = "seed categories" -> [d EXCEPT !.categories = BuiltIn]
      [] sql = "hyphens 11" ->
             [d EXCEPT !.phone = [f \in Phones |->
                 IF @[f] = "digits11" THEN Digits[@[f]] ELSE @[f]]]
      [] sql = "hyphens 10" ->
             [d EXCEPT !.phone = [f \in Phones |->
                 IF @[f] = "digits10" THEN Digits[@[f]] ELSE @[f]]]
      [] sql = "no hyphens" ->
             [d EXCEPT !.phone = [f \in Phones |->
                 IF @[f] \in DOMAIN Hyphen THEN Hyphen[@[f]] ELSE @[f]]]
      [] sql = "to identity" -> [d EXCEPT !.serial = {}]
      [] sql = "to serial"   -> [d EXCEPT !.serial = DOMAIN d.tables]

Apply(d, s) ==
    IF ~d.ok \/ ~Accepts(d, s) THEN [d EXCEPT !.ok = FALSE]
    ELSE CASE s.op = "create" ->
                  [d EXCEPT !.tables = [t \in DOMAIN @ \cup {s.table} |->
                      IF t = s.table THEN [cols |-> s.cols, parents |-> s.arg] ELSE @[t]]]
           [] s.op = "drop"   -> Forget(d, s.table)
           [] s.op = "type"   -> [d EXCEPT !.types = @ \cup {s.table}]
           [] s.op \in {"add", "addRequired"} ->
                  SetCols(d, s.table, Cols(d, s.table) \cup s.cols)
           [] s.op = "dropcol" ->
                  Unmark(SetCols(d, s.table, Cols(d, s.table) \ s.cols), s.cols)
           [] s.op = "rename" ->
                  SetCols(d, s.table, (Cols(d, s.table) \ s.cols) \cup s.arg)
           [] s.op = "run"    -> Statement(d, s.table)
           [] OTHER -> d

-----------------------------------------------------------------------------
(***************************************************************************)
(* The revisions, oldest first.                                            *)
(***************************************************************************)
OldIdentity == {"identity_verified_at", "ci", "di", "birth_date", "gender"}

InitSchemaUp ==                                              \* e9bcd41ab78f
    << Create("products", {"category", "model_name"}, {}),
       Create("users", {"name", "phone", "is_active", "phone_verified_at"} \cup OldIdentity, {}),
       Create("addresses", {"phone", "is_default"}, {"users"}),
       Create("cart_items", {"quantity"}, {"products", "users"}),
       Create("identity_verifications", {"request_id"}, {"users"}),
       Create("orders", {"recipient_phone"}, {"users"}),
       Create("product_images", {"url"}, {"products"}),
       Create("order_items", {"price_snapshot"}, {"orders", "products"}),
       Create("payments", {"pg_tid"}, {"orders"}),
       Create("shipments", {"tracking_number"}, {"orders"}) >>
InitSchemaDown ==
    << Drop("shipments"), Drop("payments"), Drop("order_items"), Drop("product_images"),
       Drop("orders"), Drop("identity_verifications"), Drop("cart_items"),
       Drop("addresses"), Drop("users"), Drop("products") >>

CardColumns == {"card_company", "card_last4", "installment_months", "approval_number"}
ShippingMethodUp ==                                          \* fe0e26b92c26
    << Add("orders", {"discount_amount"}), AddRequired("orders", "shipping_method"),
       Add("payments", CardColumns) >>
ShippingMethodDown ==
    << DropCol("payments", CardColumns), DropCol("orders", {"shipping_method"}),
       DropCol("orders", {"discount_amount"}) >>

IdentityUp   == << Run("to identity") >>                     \* 3509e1f6a778
IdentityDown == << Run("to serial") >>

ImageLabelUp ==                                              \* 6ae8f19a3e0f
    << Add("order_items", {"product_image_url_snapshot"}), Add("product_images", {"label"}) >>
ImageLabelDown ==
    << DropCol("product_images", {"label"}),
       DropCol("order_items", {"product_image_url_snapshot"}) >>

ConsentUp ==                                                 \* 589d381b3893
    << AddRequired("users", "username"), AddRequired("users", "agreed_terms_at"),
       AddRequired("users", "agreed_privacy_at"), Add("users", {"agreed_marketing_at"}) >>
ConsentDown ==
    << Require("users", "name"), DropCol("users", {"agreed_marketing_at"}),
       DropCol("users", {"agreed_privacy_at"}), DropCol("users", {"agreed_terms_at"}),
       DropCol("users", {"username"}) >>

\* username -> login_id must come first: it frees the name for name -> username.
LoginIdUp ==                                                 \* c1a4d8e2f6b3
    << Rename("users", "username", "login_id"), Require("users", "name"),
       Rename("users", "name", "username") >>
LoginIdDown ==
    << Rename("users", "username", "name"), Rename("users", "login_id", "username") >>

MustChangeUp   == << Add("users", {"must_change_password"}) >>      \* e364a9ad2db8
MustChangeDown == << DropCol("users", {"must_change_password"}) >>

SocialAccountsUp   == << Create("social_accounts", {"provider", "social_id"}, {"users"}) >>
SocialAccountsDown == << Drop("social_accounts") >>          \* 3304d5b557c6

\* The other thousand lines of e1e85745b3c8 set and clear column comments.
FavoritesUp   == << Create("favorites", {"product_id"}, {"users", "products"}) >>
FavoritesDown == << Drop("favorites") >>

UserStatusUp   == << Add("users", {"status"}) >>             \* 7e4bbdf7f10f
UserStatusDown == << DropCol("users", {"status"}) >>

\* Variant: the table is created without its seed rows.
CategoriesUp_NoSeed == << Create("product_categories", {"title", "icon"}, {}) >>

CategoriesUp ==                                              \* b427d8f8f268
    << Create("product_categories", {"title", "icon"}, {}), Run("seed categories") >>
CategoriesDown == << Drop("product_categories") >>

WithdrawnAtUp   == << Add("users", {"withdrawn_at"}) >>      \* 4cfeaf4318f6
WithdrawnAtDown == << DropCol("users", {"withdrawn_at"}) >>

\* Variant: the downgrade forgets one of the two columns.
AddressMemoDown_LabelOnly == << DropCol("addresses", {"label"}) >>

AddressMemoUp   == << Add("addresses", {"label"}), Add("addresses", {"memo"}) >>
AddressMemoDown == << DropCol("addresses", {"memo"}), DropCol("addresses", {"label"}) >>

BrandSnapshotUp   == << Add("order_items", {"product_brand_snapshot"}) >>
BrandSnapshotDown == << DropCol("order_items", {"product_brand_snapshot"}) >>

\* contact_status is a native enum: creating the table creates the type, and
\* dropping the table by name leaves it.
HelpUp ==                                                    \* 9855aeca0293
    << Create("faqs", {"question"}, {}), Create("notices", {"title"}, {}),
       NewType("contact_status"), Create("contacts", {"phone", "status"}, {"users"}) >>
HelpDown == << Drop("contacts"), Drop("notices"), Drop("faqs") >>

AnswerUp   == << Add("contacts", {"answer_content"}) >>      \* f25b27344175
AnswerDown == << DropCol("contacts", {"answer_content"}) >>

ContactPhoneUp   == << DropCol("contacts", {"phone"}) >>     \* 0de60b6871de
ContactPhoneDown == << Add("contacts", {"phone"}) >>

\* Its UPDATE (1b7cb4efab36:29) fills a column that no later script reads or checks.
ModelSnapshotUp   == << Add("order_items", {"product_model_name_snapshot"}) >>
ModelSnapshotDown == << DropCol("order_items", {"product_model_name_snapshot"}) >>

\* Variant: the script as generated, without the UPDATE.
DropIdentityUp_Generated ==
    << Drop("identity_verifications"), DropCol("users", OldIdentity) >>

\* The verification time is carried over before its column is dropped.
DropIdentityUp ==                                            \* 6105137b8e93
    << Run("carry verification"), Drop("identity_verifications"),
       DropCol("users", OldIdentity) >>
DropIdentityDown ==
    << Add("users", OldIdentity), Create("identity_verifications", {"request_id"}, {"users"}) >>

\* Variant: the old ten-digit numbers are forgotten.
PhoneBackfillUp_ElevenOnly == << Run("hyphens 11") >>

PhoneBackfillUp   == << Run("hyphens 11"), Run("hyphens 10") >>     \* ea245030888c
PhoneBackfillDown == << Run("no hyphens") >>

\* Variant: the column is added NOT NULL without the server default.
HasPasswordUp_NoDefault == << AddRequired("users", "has_password") >>

HasPasswordUp   == << Add("users", {"has_password"}) >>      \* 6c2ff2275130
HasPasswordDown == << DropCol("users", {"has_password"}) >>

CategoryImageUp   == << Add("product_categories", {"image_url"}) >> \* 0181744e708f
CategoryImageDown == << DropCol("product_categories", {"image_url"}) >>

Upgrades ==
    << InitSchemaUp, ShippingMethodUp, IdentityUp, ImageLabelUp, ConsentUp, LoginIdUp,
       MustChangeUp, SocialAccountsUp, FavoritesUp, UserStatusUp, CategoriesUp,
       WithdrawnAtUp, AddressMemoUp, BrandSnapshotUp, HelpUp, AnswerUp, ContactPhoneUp,
       ModelSnapshotUp, DropIdentityUp, PhoneBackfillUp, HasPasswordUp, CategoryImageUp >>
Downgrades ==
    << InitSchemaDown, ShippingMethodDown, IdentityDown, ImageLabelDown, ConsentDown,
       LoginIdDown, MustChangeDown, SocialAccountsDown, FavoritesDown, UserStatusDown,
       CategoriesDown, WithdrawnAtDown, AddressMemoDown, BrandSnapshotDown, HelpDown,
       AnswerDown, ContactPhoneDown, ModelSnapshotDown, DropIdentityDown,
       PhoneBackfillDown, HasPasswordDown, CategoryImageDown >>

Latest == Len(Upgrades)

\* Revisions other definitions speak of, by their place in the line.
ConsentRev       == 5
LoginIdRev       == 6
CategoriesRev    == 11
DropIdentityRev  == 19
PhoneBackfillRev == 20

\* The database once the steps of a script have been applied, in their order.
Applied(d, script) ==
    LET run[i \in 0..Len(script)] ==
            IF i = 0 THEN d ELSE Apply(run[i - 1], script[i])
    IN run[Len(script)]

\* A command applies the scripts between two revisions, one after the other.
Upgraded(d, from, to) ==
    LET run[n \in from..to] ==
            IF n = from THEN d ELSE Applied(run[n - 1], Upgrades[n])
    IN run[to]
Downgraded(d, from, to) ==
    LET run[n \in to..from] ==
            IF n = from THEN d ELSE Applied(run[n + 1], Downgrades[n + 1])
    IN run[to]

Migrated(d, from, to) ==
    IF from <= to THEN Upgraded(d, from, to) ELSE Downgraded(d, from, to)

-----------------------------------------------------------------------------
\* A new database, or one whose init_schema still made SERIAL ids.
Init ==
    \/ rev = 0 /\ db = Empty
    \/ /\ rev = 1
       /\ db = LET d == Migrated(Empty, 0, 1) IN [d EXCEPT !.serial = DOMAIN d.tables]

\* alembic upgrade head, upgrade +1, downgrade -1, downgrade base: env.py runs
\* the command in one transaction, so that it happens whole or not at all.
Migrate ==
    \E to \in {Latest, 0, rev + 1, rev - 1} \cap (0..Latest) :
        /\ Migrated(db, rev, to).ok
        /\ db' = Migrated(db, rev, to)
        /\ rev' = to

(***************************************************************************)
(* The application of the day writes rows: a user, a user without a name   *)
(* (only while the column allowed it), an order, verifications, phones and *)
(* categories.  From the backfill on it stores phones with hyphens.        *)
(***************************************************************************)
WriteUser ==
    /\ rev > 0
    /\ db' \in { [db EXCEPT !.rows = @ \cup {"users"}],
                 [db EXCEPT !.rows = @ \cup {"users"}, !.nameless = (rev = ConsentRev)] }

WriteOrder ==
    /\ "users" \in db.rows
    /\ db' = [db EXCEPT !.rows = @ \cup {"orders"}]

WriteVerification ==
    /\ "users" \in db.rows
    /\ \E u \in Users, c \in {"phone_verified_at", "identity_verified_at"} \cap Cols(db, "users") :
           db' = [db EXCEPT !.verified[u] = @ \cup {c}]

WritePhone ==
    /\ "users" \in db.rows
    /\ \E f \in Phones,
          p \in {"hyphens11", "hyphens10"} \cup
                (IF rev < PhoneBackfillRev THEN {"digits11", "digits10"} ELSE {}) :
           db' = [db EXCEPT !.phone[f] = p]

\* Until b427d8f8f268 the category is one of the six of the enum; from then on it
\* is any text, which no table is asked about.
WriteProduct ==
    /\ rev > 0
    /\ \E p \in Products, c \in IF rev < CategoriesRev THEN BuiltIn ELSE Categories :
           db' = [db EXCEPT !.product[p] = c]

\* The console adds and deletes categories, also ones that products are in.
WriteCategory ==
    /\ rev >= CategoriesRev
    /\ \E c \in Categories :
           db' \in { [db EXCEPT !.categories = @ \cup {c}], [db EXCEPT !.categories = @ \ {c}] }

Write ==
    /\ WriteUser \/ WriteOrder \/ WriteVerification \/ WritePhone \/ WriteProduct \/ WriteCategory
    /\ UNCHANGED rev

Next == Migrate \/ Write
Spec == Init /\ [][Next]_vars

-----------------------------------------------------------------------------
\* What upgrading an empty database straight to each revision gives.
Straight == [n \in 0..Latest |-> Migrated(Empty, 0, n)]

\* Whatever upgrades and downgrades came before, the tables, their columns and
\* their foreign keys are those the revision has on a database upgraded straight
\* to it, and from 3509e1f6a778 on no id is SERIAL: each downgrade undoes its
\* upgrade (alembic/versions).
ShapeFollowsRevision ==
    /\ db.tables = Straight[rev].tables
    /\ rev >= 3 => db.serial = {}

\* From c1a4d8e2f6b3 on, rows never refuse a migration: with any data the upgrade to
\* head runs and so does each downgrade by one, back to that revision.  (The type a
\* downgrade past 9855aeca0293 leaves behind is the one exception.)
DataNeverBlocks ==
    rev >= LoginIdRev =>
        /\ Migrated([db EXCEPT !.types = Straight[rev].types], rev, Latest).ok
        /\ rev > LoginIdRev => Migrated(db, rev, rev - 1).ok

\* A user who was verified, by phone or by the old identity check, is still
\* verified after any migration that keeps the users (6105137b8e93:21).
VerificationSurvives ==
    [][rev' > 0 => \A u \in Users : db.verified[u] # {} => db'.verified[u] # {}]_vars

\* From ea245030888c on every stored mobile number has hyphens, also after
\* downgrades and upgrades back.
PhonesHaveHyphens ==
    rev >= PhoneBackfillRev => \A f \in Phones : db.phone[f] \notin DOMAIN Digits

\* The upgrade to b427d8f8f268, which lets the category of a product be any text,
\* leaves every product with the row of its category, however often it is undone
\* and repeated.  (A category of the console's own is lost by the downgrade.)
CategoriesCoverProducts ==
    [][rev < CategoriesRev /\ rev' >= CategoriesRev =>
          \A p \in Products : db.product[p] \in BuiltIn => db.product[p] \in db'.categories]_vars
=============================================================================
