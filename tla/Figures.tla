------------------------------- MODULE Figures -------------------------------
(***************************************************************************)
(* The figures of the console (app/admin, admin_members_repository.py):    *)
(* sums over the orders of a range of time, computed by different queries  *)
(* on different pages.  Days begin at midnight UTC where Python computes   *)
(* them, and date_trunc cuts the time in the time zone of the database,    *)
(* ZoneOffset ahead (docker-compose.yml:10).  Time is counted in ticks.    *)
(***************************************************************************)
EXTENDS Integers, Sequences, FiniteSets, Functions

CONSTANTS
    Users,
    Amounts,
    Day,          \* ticks of a day
    Week,         \* days of a week
    ZoneOffset,   \* ticks the database's midnight is before that of UTC
    MaxTick,      \* bound: last tick
    MaxOrders     \* bound: orders

VARIABLES
    now,
    orders        \* in the order of created_at: [user, total_amount, status, created_at]

vars == <<now, orders>>

\* The statuses no figure tells apart from these: all but CANCELLED are sales.
Statuses == {"PENDING", "PAID", "CANCELLED"}

Init == now = 0 /\ orders = <<>>

CreateOrder ==
    /\ Len(orders) < MaxOrders
    /\ \E u \in Users, a \in Amounts :
           orders' = Append(orders, [user |-> u, total_amount |-> a,
                                     status |-> "PENDING", created_at |-> now])
    /\ UNCHANGED now

\* Payments, cancellations and the console, which may set any status.
ChangeStatus ==
    /\ \E o \in DOMAIN orders, s \in Statuses : orders' = [orders EXCEPT ![o].status = s]
    /\ UNCHANGED now

Tick == now < MaxTick /\ now' = now + 1 /\ UNCHANGED orders

Next == CreateOrder \/ ChangeStatus \/ Tick

Spec == Init /\ [][Next]_vars

-----------------------------------------------------------------------------
Created(f, t) == {o \in DOMAIN orders : orders[o].created_at >= f /\ orders[o].created_at <= t}
Sold(S) == {o \in S : orders[o].status # "CANCELLED"}
Revenue(S) == SumFunctionOnSet([o \in DOMAIN orders |-> orders[o].total_amount], S)

\* _parse_range: a date of the query is its midnight; the default is now.
ParsedRange(f, t) == f <= t /\ \A d \in {f, t} : d = now \/ d % Day = 0

\* SalesService.get_summary
Summary(f, t) ==
    LET S == Created(f, t) IN
    [total_revenue |-> Revenue(Sold(S)), order_count |-> Cardinality(Sold(S)),
     cancel_count  |-> Cardinality(S \ Sold(S))]

\* date_trunc_literal
Trunc(unit, t) == (t + ZoneOffset) \div (IF unit = "week" THEN Week * Day ELSE Day)

\* Variant: cancelled orders are left in.
TimeSeries_All(f, t, unit) ==
    LET S == Created(f, t) IN
    [p \in {Trunc(unit, orders[o].created_at) : o \in S} |->
        LET group == {o \in S : Trunc(unit, orders[o].created_at) = p}
        IN [revenue |-> Revenue(group), order_count |-> Cardinality(group)]]

\* get_timeseries; get_sales_chart is the one by day, up to now.
TimeSeries(f, t, unit) ==
    LET S == Sold(Created(f, t)) IN
    [p \in {Trunc(unit, orders[o].created_at) : o \in S} |->
        LET group == {o \in S : Trunc(unit, orders[o].created_at) = p}
        IN [revenue |-> Revenue(group), order_count |-> Cardinality(group)]]

\* The date shown for a period: its start, which asyncpg delivers in UTC.
Label(p) == (p * Day - ZoneOffset) \div Day

TodayStart == (now \div Day) * Day

\* DashboardService.get_summary
TodayOrders == {o \in DOMAIN orders : orders[o].created_at >= TodayStart}
TodayRevenue == Revenue(Sold(TodayOrders))

\* _order_agg_subquery, for one member
Member(u) ==
    LET S == {o \in Sold(DOMAIN orders) : orders[o].user = u}
    IN [order_count |-> Cardinality(S), total_purchased |-> Revenue(S)]

-----------------------------------------------------------------------------
\* The chart of a range adds up to the headline above it, by day and by week, and
\* wherever the range and the periods begin (sales_service.py:28 and 57).
ChartAddsUp ==
    \A f, t \in 0..now, unit \in {"day", "week"} : ParsedRange(f, t) =>
        LET series == TimeSeries(f, t, unit)  total == Summary(f, t) IN
        /\ total.total_revenue = SumFunction([p \in DOMAIN series |-> series[p].revenue])
        /\ total.order_count = SumFunction([p \in DOMAIN series |-> series[p].order_count])

\* What the dashboard calls today is what the sales page shows for the range from
\* today on (dashboard_service.py:32, sales_router.py:23).
TodayIsTheLastRange ==
    LET sales == Summary(TodayStart, now) IN
    /\ TodayRevenue = sales.total_revenue
    /\ Cardinality(TodayOrders) = sales.order_count + sales.cancel_count

\* The purchases of the members add up to the sales of all time
\* (admin_members_repository.py:28).
MembersAddUp ==
    LET all == Summary(0, now) IN
    /\ all.total_revenue = SumFunction([u \in Users |-> Member(u).total_purchased])
    /\ all.order_count = SumFunction([u \in Users |-> Member(u).order_count])

\* Every page of the console shows the same money.
FiguresAgree == ChartAddsUp /\ TodayIsTheLastRange /\ MembersAddUp

\* The last point of the chart by day is today's (docs/todo.md:193).
TodayIsOnChart ==
    LET chart == TimeSeries(0, now, "day") IN
    TodayRevenue > 0 =>
        \E p \in DOMAIN chart : Label(p) = now \div Day /\ chart[p].revenue = TodayRevenue
=============================================================================
