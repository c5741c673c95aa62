---------------------------- MODULE FactorFormulas ----------------------------
(* The factor DSL as compiled (quant/factors/dsl.py), and what the engine    *)
(* plans from it (engine.py): the cache partitions of each factor and, when  *)
(* data change, the partitions to compute again.  A definition is a record   *)
(* [id, semantic, formula, inputs, windows]; inputs maps each input id to    *)
(* [dataset, version, numeric].  A formula is the sequence of its nodes as   *)
(* the engine interns them, the whole expression last; a node is a record    *)
(* [op, args, n, name]: args are the places of its operands, n is the window *)
(* of delay and rolling_*, or the value of a constant.                       *)
EXTENDS Integers, Sequences, FiniteSetsExt, SequencesExt

Missing == -99     \* None: no value

-----------------------------------------------------------------------------
\* The operators allowed, by the types of their operands and of their result.
RollingOps == {"rolling_mean", "rolling_sum", "rolling_min", "rolling_max",
               "rolling_std"}
WindowOps == {"delay"} \cup RollingOps
NumericUnary == {"abs", "log", "sqrt", "rank", "neg", "pos"} \cup WindowOps
Arithmetic == {"add", "sub", "mul", "guarded_divide"}
Comparisons == {"comparison.gt", "comparison.gte", "comparison.lt",
                "comparison.lte", "comparison.eq", "comparison.ne"}

\* Operands are interned before what they are operands of, and nothing else is.
IsFormula(f) ==
    /\ f \in Seq(Range(f)) /\ f # <<>>
    /\ \A k \in DOMAIN f : Range(f[k].args) \subseteq 1..(k - 1)
    /\ \A j \in 1..(Len(f) - 1) : \E k \in DOMAIN f : j \in Range(f[k].args)

TypeOf(e) ==
    IF e.op \in Comparisons \cup {"and", "or", "not"} THEN "boolean"
    ELSE IF e.op = "string" THEN "string" ELSE "numeric"

OperandTypes(f, k) == [a \in DOMAIN f[k].args |-> TypeOf(f[f[k].args[a]])]

WellTyped(f, k) ==
    LET op == f[k].op types == OperandTypes(f, k)
    IN  \/ op \in {"input", "constant", "string"} /\ types = <<>>
        \/ op \in NumericUnary /\ types = <<"numeric">>
        \/ op \in Arithmetic \cup Comparisons /\ types = <<"numeric", "numeric">>
        \/ op = "not" /\ types = <<"boolean">>
        \/ op \in {"and", "or"} /\ Len(types) >= 2 /\ Range(types) = {"boolean"}
        \/ op = "where" /\ types = <<"boolean", "numeric", "numeric">>

RequiredInputs(f) == {f[k].name : k \in {j \in DOMAIN f : f[j].op = "input"}}

RequiredOperators(f) ==
    {f[k].op : k \in DOMAIN f} \ {"input", "constant", "string"}

\* A window of zero or less would read the future; it is refused with the rest.
Compiles(spec) ==
    /\ DOMAIN spec.inputs # {}
    /\ \A k \in DOMAIN spec.formula :
          LET e == spec.formula[k]
              Operand(a) == spec.formula[e.args[a]]
          IN  /\ WellTyped(spec.formula, k)
              /\ e.op = "input" =>
                    e.name \in DOMAIN spec.inputs /\ spec.inputs[e.name].numeric
              /\ e.op \in WindowOps => e.n > 0 /\ e.n \in spec.windows
              /\ e.op = "guarded_divide" =>
                    ~(Operand(2).op = "constant" /\ Operand(2).n = 0)
    /\ \A i, j \in RequiredInputs(spec.formula) :
          spec.inputs[i].dataset = spec.inputs[j].dataset =>
              spec.inputs[i].version = spec.inputs[j].version

Window(e) == IF e.op \in WindowOps THEN e.n ELSE 0

\* Mutant: of nested windows, only the longest counts.
LongestWindow(f) == Max({Window(f[k]) : k \in DOMAIN f})

\* How many periods each node looks back: its window and its operands' furthest.
Lookbacks(f) ==
    LET lookback[k \in DOMAIN f] ==
            Window(f[k]) + Max({lookback[a] : a \in Range(f[k].args)} \cup {0})
    IN  lookback

LookbackPeriods(f) == Lookbacks(f)[Len(f)]

DatasetsOf(spec) ==
    {spec.inputs[i].dataset : i \in RequiredInputs(spec.formula)}

-----------------------------------------------------------------------------
\* plan_factor_cache_partitions.  dates is the sequence of planned days.
NeedsTimeSeries(spec) == RequiredOperators(spec.formula) \cap WindowOps # {}

NeedsCrossSection(spec) ==
    "rank" \in RequiredOperators(spec.formula) \/ ~NeedsTimeSeries(spec)

\* The instrument of a partition is Missing where it holds all of them.
PartitionsOf(spec, instruments, dates) ==
    {[spec |-> spec, inst |-> i, day |-> dates[k],
      start |-> dates[Max({1, k - LookbackPeriods(spec.formula)})]] :
        i \in (IF NeedsTimeSeries(spec) THEN instruments ELSE {})
              \cup (IF NeedsCrossSection(spec) THEN {Missing} ELSE {}),
        k \in DOMAIN dates}

\* build_factor_dag accepts definitions with ids of their own that compile,
\* over one version of each dataset.
BuildsDag(specs) ==
    /\ specs # {}
    /\ \A s, t \in specs : s.id = t.id => s = t
    /\ \A s \in specs : Compiles(s)
    /\ \A a, b \in UNION {Range(s.inputs) : s \in specs} :
          a.dataset = b.dataset => a.version = b.version

Partitions(specs, instruments, dates) ==
    UNION {PartitionsOf(s, instruments, dates) : s \in specs}

\* FactorIncrementalChangeSet, and the partitions it selects.
NoChange == [datasets |-> {}, specs |-> {}, days |-> {}]

RecomputePlan(partitions, change) ==
    {p \in partitions :
        \/ DatasetsOf(p.spec) \cap change.datasets # {}
        \/ p.spec \in change.specs
        \/ \E d \in change.days : p.start <= d /\ d <= p.day}

-----------------------------------------------------------------------------
(* What a formula is worth for an instrument on a day, data being a function *)
(* from input, instrument and day to a number.  The engine only plans: this  *)
(* is what the executor it plans for computes.  What a day before the first  *)
(* one would give is Missing.                                                *)
Known(values) == \A v \in Range(values) : v # Missing

\* The operators that make whole numbers of whole numbers (a rolling mean is
\* taken times its window); only what they make is a number here.
Computed ==
    {"input", "constant", "delay", "rank", "add", "sub", "mul", "neg", "pos",
     "rolling_sum", "rolling_mean", "rolling_min", "rolling_max"}

Fold(op, values) ==
    IF op = "rolling_min" THEN Min(Range(values))
    ELSE IF op = "rolling_max" THEN Max(Range(values))
    ELSE SumFunction(values)

OfOperands(op, values) ==
    IF op = "add" THEN values[1] + values[2]
    ELSE IF op = "sub" THEN values[1] - values[2]
    ELSE IF op = "mul" THEN values[1] * values[2]
    ELSE IF op = "neg" THEN -values[1]
    ELSE values[1]

\* The day that many days before, if there is one.
Back(days, day, n) ==
    {d \in days : d <= day /\ Cardinality({x \in days : d < x /\ x <= day}) = n}

\* The days that are at most n days before a day.
Recent(days, day, n) ==
    {d \in days : d <= day /\ Cardinality({x \in days : d < x /\ x <= day}) <= n}

\* What a node is worth, given its operands' values by instrument and day.
NodeValue(e, operands, inst, day, days, data) ==
    LET At(n) == LET back == Back(days, day, n)
                 IN  IF back = {} THEN Missing
                     ELSE operands[1][inst][CHOOSE d \in back : TRUE]
        window == [m \in 1..e.n |-> At(e.n - m)]
        own == operands[1][inst][day]
        Lower(value) == value # Missing /\ value < own
        current == [a \in DOMAIN operands |-> operands[a][inst][day]]
    IN  IF e.op = "input" THEN data[<<e.name, inst, day>>]
        ELSE IF e.op = "constant" THEN e.n
        ELSE IF e.op = "delay" THEN At(e.n)
        ELSE IF e.op \in RollingOps
             THEN IF Known(window) THEN Fold(e.op, window) ELSE Missing
        ELSE IF e.op = "rank"
             THEN IF own = Missing THEN Missing
                  ELSE Cardinality({i \in DOMAIN operands[1] :
                                        Lower(operands[1][i][day])})
        ELSE IF Known(current) THEN OfOperands(e.op, current) ELSE Missing

NodeValues(f, instruments, days, data) ==
    LET values[k \in DOMAIN f] ==
            [i \in instruments |-> [day \in days |->
                NodeValue(f[k], [a \in DOMAIN f[k].args |-> values[f[k].args[a]]],
                          i, day, days, data)]]
    IN  values

ValueOf(f, instruments, days, data) == NodeValues(f, instruments, days, data)[Len(f)]
=============================================================================
