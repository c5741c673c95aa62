----------------------------- MODULE CrossSections -----------------------------
(* What is done to the values of a factor on one day, a function from        *)
(* instruments to numbers: missing values, winsorization by the median       *)
(* absolute deviation and neutralization by industry                         *)
(* (quant/factors/post_processing.py), and the quantile groups an evaluation *)
(* makes of them (evaluation.py).  Instruments are numbered in the order of  *)
(* their ids.                                                                *)
EXTENDS FactorFormulas

CONSTANT IndustryOf       \* of each instrument; Missing goes into one bucket

\* Processed values are whole: a value times this.  Medians halve it twice,
\* the mean of an industry divides it by up to three.
Scale == 24

\* Values ascend, and where they are the same the ids do.
ComesBefore(values, i, j) ==
    values[i] < values[j] \/ (values[i] = values[j] /\ i < j)

Ordered(values) ==
    SetToSortSeq(DOMAIN values, LAMBDA i, j : ComesBefore(values, i, j))

Place(values, i) == Cardinality({j \in DOMAIN values : ComesBefore(values, j, i)}) + 1

TwiceMedian(values) ==
    LET order == Ordered(values) n == Len(order)
    IN  values[order[(n + 1) \div 2]] + values[order[n \div 2 + 1]]

-----------------------------------------------------------------------------
Observed(values) == {i \in DOMAIN values : values[i] # Missing}

\* _apply_missing_policy; what is left is scaled.
FillValue(values, strategy) ==
    IF strategy = "zero" THEN 0
    ELSE (Scale \div 2) * TwiceMedian([i \in Observed(values) |-> values[i]])

KeepsMissing(values, strategy) ==
    strategy = "zero" \/ (strategy = "fill_median" /\ Observed(values) # {})

Filled(values, strategy) ==
    [i \in IF KeepsMissing(values, strategy)
           THEN DOMAIN values ELSE Observed(values) |->
        IF values[i] # Missing THEN Scale * values[i]
        ELSE FillValue(values, strategy)]

\* _apply_winsorization: within so many deviations of the median, if any
\* value deviates at all.
Winsorized(values, limit) ==
    LET median == TwiceMedian(values) \div 2
        spread == TwiceMedian([i \in DOMAIN values |->
                      Max({values[i] - median, median - values[i]})]) \div 2
    IN  IF Cardinality(DOMAIN values) <= 1 \/ spread = 0 THEN values
        ELSE [i \in DOMAIN values |->
                Max({median - limit * spread,
                     Min({median + limit * spread, values[i]})})]

\* _apply_neutralization by industry: what least squares leaves is the
\* difference to the industry's mean.
Neutralized(values) ==
    LET Peers(i) == {j \in DOMAIN values : IndustryOf[j] = IndustryOf[i]}
    IN  IF Cardinality(DOMAIN values) <= 1 THEN [i \in DOMAIN values |-> 0]
        ELSE [i \in DOMAIN values |-> values[i] -
                MapThenSumSet(LAMBDA j : values[j], Peers(i))
                    \div Cardinality(Peers(i))]

\* process_cross_sectional_factor_values of a day.
Processed(values, spec) ==
    LET filled == Filled(values, spec.missing)
        clipped == IF spec.limit = Missing THEN filled
                   ELSE Winsorized(filled, spec.limit)
    IN  IF spec.neutralize THEN Neutralized(clipped) ELSE clipped

-----------------------------------------------------------------------------
\* Mutant: the groups are of equal size, the last takes the rest.
EqualGroups(values, count) ==
    LET size == Max({1, Cardinality(DOMAIN values) \div count})
    IN  [i \in DOMAIN values |-> Min({count, Place(values, i) \div size + 1})]

\* _assign_groups: the k-th of n is in group ceil(k * count / n).
QuantileGroups(values, count) ==
    LET size == Cardinality(DOMAIN values)
    IN  [i \in DOMAIN values |->
            Max({1, Min({count, (Place(values, i) * count + size - 1) \div size})})]

-----------------------------------------------------------------------------
(* evaluate_factor, of a set of [inst, day, value, return].  A pair needs    *)
(* both a value and a return; only pairs are grouped.                        *)
Coverage(rows) ==
    LET Count(P(_)) == Cardinality({r \in rows : P(r)})
    IN  [total |-> Cardinality(rows),
         factor |-> Count(LAMBDA r : r.value # Missing),
         return |-> Count(LAMBDA r : r.return # Missing),
         overlap |-> Count(LAMBDA r : Missing \notin {r.value, r.return})]

Pairs(rows, day) ==
    {r \in rows : r.day = day /\ Missing \notin {r.value, r.return}}

PairedValues(rows, day) ==
    [i \in {r.inst : r \in Pairs(rows, day)} |->
        (CHOOSE r \in Pairs(rows, day) : r.inst = i).value]

\* The groups of all days are pooled; a day of few pairs leaves some empty.
GroupBuckets(rows, count) ==
    LET Group(r) == QuantileGroups(PairedValues(rows, r.day), count)[r.inst]
        Bucket(g) == {r \in rows : r \in Pairs(rows, r.day) /\ Group(r) = g}
    IN  [g \in 1..count |->
            [count |-> Cardinality(Bucket(g)),
             sum |-> SumFunction([r \in Bucket(g) |-> r.return])]]

\* What is bought, and whose return the long leg is.
SelectedGroup(direction, count) ==
    IF direction = "lower_is_better" THEN 1 ELSE count

Selected(rows, day, direction, count) ==
    LET values == PairedValues(rows, day)
    IN  {i \in DOMAIN values :
            QuantileGroups(values, count)[i] = SelectedGroup(direction, count)}

\* How many of those selected before are selected still.
Retained(rows, before, day, direction, count) ==
    Cardinality(Selected(rows, before, direction, count)
                \cap Selected(rows, day, direction, count))
=============================================================================
