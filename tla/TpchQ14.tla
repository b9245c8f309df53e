-------------------------------- MODULE TpchQ14 --------------------------------
(***************************************************************************)
(* TPC-H Q14 (workload/tpch/drivers/tpch_q14.cpp): the promotion-revenue  *)
(* share of one month's shipments.  The plan submit() builds is a scan of *)
(* LINEITEM filtered on the ship date, a scan of PART, their hash join on *)
(* the part key, and an aggregate whose finish() computes                 *)
(*     100 * PROMO_SUM / TOTAL_SUM                                         *)
(* in decimal arithmetic (Decimal).  The scans and the join are operators *)
(* over the database; the aggregate consumes the joined rows one at a    *)
(* time, in whatever order the join hands them over, and finish() runs    *)
(* once they are all in.  Money is in cents, as decimal holds it.         *)
(***************************************************************************)
EXTENDS Decimal, FiniteSets

CONSTANTS
    NL,          \* number of LINEITEM rows
    Parts,       \* part keys; PART holds one row per key
    Types,       \* P_TYPE values
    PromoTypes,  \* the P_TYPE values matching LIKE 'PROMO%'
    Days,        \* ship dates
    Date1,       \* 1995-09-01
    Date2,       \* time_add_month(Date1, 1)
    Prices,      \* L_EXTENDEDPRICE values, in cents
    Discounts    \* L_DISCOUNT values, in cents (0.05 is 5)

VARIABLES
    lineitem,  \* the LINEITEM rows, 1..NL -> Row
    ptype,     \* P_TYPE of each part key
    pending,   \* joined rows the aggregate has not consumed yet
    grouped,   \* the aggregate has seen a row, so its one group exists
    promo,     \* agg->PROMO_SUM
    total,     \* agg->TOTAL_SUM
    phase,     \* "aggregate", then "output" after finish(), "empty", "fault"
    result     \* the output tuple's decimal, in cents

vars == <<lineitem, ptype, pending, grouped, promo, total, phase, result>>

Row == [ship : Days, part : Parts, price : Prices, disc : Discounts]

\* lineitem_tscan_filter_t::select: L_SHIPDATE >= date1 and < date2.
Selected(l) == Date1 <= l.ship /\ l.ship < Date2

\* q14_join over the two scans: a LINEITEM row that passed the filter meets
\* the PART row with P_PARTKEY = L_PARTKEY.  The part scan keeps every row.
Joined == {i \in 1..NL : Selected(lineitem[i])}

\* q14_aggregate's _filter: P_TYPE LIKE 'PROMO%'.
IsPromo(i) == ptype[lineitem[i].part] \in PromoTypes

\* L_EXTENDEDPRICE*(1 - L_DISCOUNT).
Revenue(i) == DecMul(lineitem[i].price, IntMinusDec(1, lineitem[i].disc))

Init ==
    /\ lineitem \in [1..NL -> Row]
    /\ ptype \in [Parts -> Types]
    /\ pending = Joined
    /\ grouped = FALSE
    /\ promo = 0 /\ total = 0
    /\ phase = "aggregate" /\ result = 0

\* q14_aggregate::aggregate for one joined row.
Aggregate(i) ==
    /\ i \in pending
    /\ total' = DecAdd(total, Revenue(i))
    /\ promo' = IF IsPromo(i) THEN DecAdd(promo, Revenue(i)) ELSE promo
    /\ pending' = pending \ {i}
    /\ grouped' = TRUE
    /\ UNCHANGED <<lineitem, ptype, phase, result>>

\* The join is drained.  With no joined row there is no group and no output
\* tuple; otherwise q14_aggregate::finish computes *dest = 100.*PROMO_SUM/
\* TOTAL_SUM, and a zero TOTAL_SUM faults in operator/=.
Finish ==
    /\ pending = {} /\ phase = "aggregate"
    /\ phase' = CASE ~grouped -> "empty"
                 []  total = 0 -> "fault"
                 []  OTHER     -> "output"
    /\ result' = IF phase' = "output"
                 THEN DecDiv(DoubleTimesDec(100, promo), total) ELSE 0
    /\ UNCHANGED <<lineitem, ptype, pending, grouped, promo, total>>

\* The driver has printed the one output tuple; nothing more happens.
Done == phase # "aggregate" /\ UNCHANGED vars

Next == (\E i \in 1..NL : Aggregate(i)) \/ Finish \/ Done

Spec == Init /\ [][Next]_vars

TypeOK ==
    /\ lineitem \in [1..NL -> Row]
    /\ ptype \in [Parts -> Types]
    /\ pending \subseteq Joined
    /\ promo \in Nat /\ total \in Nat /\ promo <= total
    /\ phase \in {"aggregate", "output", "empty", "fault"} /\ result \in Int

(***************************************************************************)
(* finish() reports the promotion share to the nearest cent of a percent: *)
(* 100 * PROMO_SUM / TOTAL_SUM rounded half up, the rounding operator*=   *)
(* and to_long() apply by adding half the divisor.  operator/= adds 50    *)
(* whatever the divisor, so the share is truncated instead.               *)
(***************************************************************************)
PromoRevenueRounded ==
    phase = "output" => result = RoundDiv(100 * 100 * promo, total)
=============================================================================
