---------------------------- MODULE FactorScreening ----------------------------
(* From published factor definitions to screens: a plan of cache partitions  *)
(* is made for published versions, the partitions are computed and, after    *)
(* data are restated, computed again as planned; screens run over them.      *)
EXTENDS Screening

CONSTANTS
    Instruments,
    Published,       \* factor definitions that have a version
    Data,            \* input, instrument and day -> number, at first
    Restatements,    \* [key, value]: what the provider may restate
    PlannedDays,     \* sequence of days the cache is planned for
    Universe,        \* the universe definition
    Screens,         \* screen definitions
    Batches,         \* candidate batches of the provider
    Processing,      \* the post-processing of every factor
    MaxReleases,     \* bound on the times the cache is computed
    MaxRuns          \* bound on the screens run

ASSUME ScreeningConstants ==
    /\ \A s \in Screens : ValidScreen(s) /\ s.maxCandidates \in Nat
                             /\ s.factors \in Seq(Range(s.factors))
    /\ \A b \in Batches : b.candidates \in Seq(Range(b.candidates))
    /\ IsFiniteSet(Listings)

\* Planned days are sorted and trading days; the inputs of what is published
\* have an entry, Missing or not, for each instrument on each of those.
ASSUME PlanningConstants ==
    /\ PlannedDays \in Seq(TradingDays) /\ PlannedDays # <<>>
    /\ \A k, m \in DOMAIN PlannedDays : k < m => PlannedDays[k] < PlannedDays[m]
    /\ Missing \notin Instruments
    /\ \A s \in Published :
          /\ IsFormula(s.formula) /\ s.windows \subseteq Nat
          /\ RequiredInputs(s.formula) \X Instruments \X TradingDays
                \subseteq DOMAIN Data

\* A restatement is of a day, and of the dataset its input comes from.
ASSUME RestatedConstants ==
    \A r \in Restatements :
        /\ r.key[3] \in Int
        /\ \A s \in Published :
              r.key[1] \in RequiredInputs(s.formula) =>
                  s.inputs[r.key[1]].dataset = r.dataset

\* What is evaluated are numbers: inputs, restated or not, and what the
\* published formulas compute; there is a close of each instrument and day.
ASSUME EvaluatedConstants ==
    /\ Instruments \subseteq Int /\ IsFiniteSet(Instruments)
    /\ \A q \in DOMAIN Data : Data[q] \in Int
    /\ \A r \in Restatements : r.value \in Int
    /\ {"close"} \X Instruments \X TradingDays \subseteq DOMAIN Data
    /\ \A s \in Published : \A k \in DOMAIN s.formula :
          /\ s.formula[k].op \in Computed
          /\ s.formula[k].op = "constant" => s.formula[k].n \in Int

VARIABLES
    data,            \* the values of the inputs
    cache,           \* partition -> values, once they are computed
    pending,         \* FactorIncrementalChangeSet since then
    told,            \* history: restatements told by their day only
    release,         \* version of the factor values in the cache
    runs             \* screens that were run

screeningVars == <<data, cache, pending, told, release, runs>>

ScreeningInit ==
    /\ data = Data /\ cache = <<>> /\ pending = NoChange
    /\ told = {} /\ release = 0 /\ runs = {}

ValuesOf(partition) ==
    LET values == ValueOf(partition.spec.formula, Instruments, TradingDays, data)
    IN  [i \in IF partition.inst = Missing THEN Instruments ELSE {partition.inst} |->
            values[i][partition.day]]

-----------------------------------------------------------------------------
\* build_factor_dag and plan_factor_cache_partitions, of published versions.
PlanCache(specs) ==
    /\ cache = <<>> /\ BuildsDag(specs)
    /\ cache' = [p \in Partitions(specs, Instruments, PlannedDays) |-> ValuesOf(p)]
    /\ release' = release + 1
    /\ UNCHANGED <<data, pending, told, runs>>

\* What is restated is told by its day, or as a new version of its dataset.
Restate(r, byDay) ==
    /\ cache # <<>> /\ data[r.key] # r.value
    /\ data' = [data EXCEPT ![r.key] = r.value]
    /\ pending' = IF byDay
                  THEN [pending EXCEPT !.days = @ \cup {r.key[3]}]
                  ELSE [pending EXCEPT !.datasets = @ \cup {r.dataset}]
    /\ told' = IF byDay THEN told \cup {r} ELSE told
    /\ UNCHANGED <<cache, release, runs>>

\* plan_incremental_factor_recompute, and what it plans done.
Recompute ==
    /\ pending # NoChange /\ release < MaxReleases
    /\ cache' = [p \in DOMAIN cache |->
                    IF p \in RecomputePlan(DOMAIN cache, pending)
                    THEN ValuesOf(p) ELSE cache[p]]
    /\ pending' = NoChange
    /\ told' = {r \in told : r.dataset \notin pending.datasets}
    /\ release' = release + 1
    /\ UNCHANGED <<data, runs>>

CachedValues(spec, day) ==
    LET of == {p \in DOMAIN cache : p.spec = spec /\ p.day = day}
    IN  [i \in Instruments |->
            cache[CHOOSE p \in of : i \in DOMAIN cache[p]][i]]

FactorResults(day) ==
    [id \in {p.spec.id : p \in DOMAIN cache} |->
        LET spec == (CHOOSE p \in DOMAIN cache : p.spec.id = id).spec
        IN  [version |-> release,
             values |-> Processed(CachedValues(spec, day), Processing)]]

Bars(day) ==
    {<<i, day>> : i \in {j \in Instruments : \A q \in DOMAIN data :
                            q[2] = j /\ q[3] = day => data[q] # Missing}}

\* run_screen_pipeline and build_screen_snapshot as of a planned day.
RunScreen(screen, batch, day) ==
    LET universe == UniverseOn(Universe, day, Bars(day))
        results == FactorResults(day)
        result == Screened(screen, batch, universe, results)
    IN  /\ Cardinality(runs) < MaxRuns
        /\ AcceptsUniverse(screen, universe)
        /\ AcceptsBatch(screen, batch)
        /\ AcceptsFactors(screen, results)
        /\ runs' = runs \cup {[screen |-> screen, batch |-> batch, day |-> day,
                               universe |-> universe, result |-> result]}
        /\ UNCHANGED <<data, cache, pending, told, release>>

ScreeningNext ==
    \/ \E specs \in SUBSET Published : PlanCache(specs)
    \/ \E r \in Restatements, byDay \in BOOLEAN : Restate(r, byDay)
    \/ Recompute
    \/ \E s \in Screens, b \in Batches, day \in Range(PlannedDays) :
          RunScreen(s, b, day)

ScreeningSpec == ScreeningInit /\ [][ScreeningNext]_screeningVars

-----------------------------------------------------------------------------
\* The formula of p looks back from p's day to what r restates.
LooksBackTo(p, r) ==
    /\ r.key[1] \in RequiredInputs(p.spec.formula)
    /\ r.key[3] \in Recent(TradingDays, p.day, LookbackPeriods(p.spec.formula))

(* A partition that the recompute of the pending changes leaves as it is     *)
(* holds what the data now give, with one exception: the start of a          *)
(* partition is no earlier than the first planned day, so that a restatement *)
(* told by its day, before that day but within the formula's look-back,      *)
(* selects nothing and its effect stays in the cache until the dataset gets  *)
(* a new version.                                                            *)
StaleIsSelected ==
    \A p \in DOMAIN cache \ RecomputePlan(DOMAIN cache, pending) :
        cache[p] # ValuesOf(p) =>
            \E r \in told : r.key[3] < PlannedDays[1] /\ LooksBackTo(p, r)

(* A snapshot has one result of each instrument proposed or in the universe, *)
(* and whoever passes could be traded on that day.                           *)
EveryResultIsAccounted ==
    \A run \in runs :
        LET result == run.result
            proposed == {c.inst : c \in Range(Proposed(run.screen, run.batch))}
        IN  /\ proposed \cup run.universe.members # {} => MakesSnapshot(result)
            /\ {f[1] : f \in result.failed} \cup result.passed
                  = proposed \cup run.universe.members
            /\ \A i \in result.passed :
                  /\ \E l \in EffectiveListings(run.day) : l.inst = i /\ Listed(l, run.day)
                  /\ Universe.excludeSuspended => <<i, run.day>> \notin Suspensions

(* A screen that pins the universe and the factor values is reproducible:    *)
(* for the same candidates and day, restated data or not, no mismatch is     *)
(* found and the comparison shows no change.                                 *)
ScreensReproduce ==
    \A a, b \in runs :
        /\ a.screen = b.screen /\ a.batch = b.batch /\ a.day = b.day
        /\ {"factor_values", "universe"} \subseteq DOMAIN a.screen.versions
        => /\ MismatchReasons(a, b) = {}
           /\ \A change \in Range(Compared(a, b)) : change = {}

\* Observations of a cached factor with the return to the next day.
ObservationsOf(spec) ==
    LET Close(i, day) == data[<<"close", i, day>>]
        Return(i, day) ==
            IF NextDay(day) = 0 THEN Missing
            ELSE IF Missing \in {Close(i, day), Close(i, NextDay(day))} THEN Missing
            ELSE Close(i, NextDay(day)) - Close(i, day)
    IN  {[inst |-> i, day |-> day, value |-> CachedValues(spec, day)[i],
          return |-> Return(i, day)] : i \in Instruments, day \in Range(PlannedDays)}

(* An evaluation of a cached factor puts every pair it counts into one group *)
(* of its day, and the returns of the groups add up to those of the pairs;   *)
(* no group grows ahead of another by more than one pair a day; of two pairs *)
(* of a day the one of higher value is in no lower group; and between days   *)
(* that have the same instruments in the same order nothing is turned over.  *)
EvaluationsAreBalanced ==
    \A spec \in {p.spec : p \in DOMAIN cache}, count \in 2..Cardinality(Instruments) :
        LET rows == ObservationsOf(spec)
            days == {d \in Range(PlannedDays) : Pairs(rows, d) # {}}
            pairs == UNION {Pairs(rows, d) : d \in days}
            buckets == GroupBuckets(rows, count)
            values == [d \in days |-> PairedValues(rows, d)]
            groups == [d \in days |-> QuantileGroups(values[d], count)]
        IN  /\ Cardinality(pairs) = Coverage(rows).overlap
            /\ SumFunction([g \in 1..count |-> buckets[g].count]) = Cardinality(pairs)
            /\ SumFunction([g \in 1..count |-> buckets[g].sum])
                  = SumFunction([r \in pairs |-> r.return])
            /\ \A g, h \in 1..count :
                  buckets[g].count <= buckets[h].count + Cardinality(days)
            /\ \A d \in days : \A i, j \in DOMAIN values[d] :
                  values[d][i] < values[d][j] => groups[d][i] <= groups[d][j]
            /\ \A d, e \in days, direction \in {"higher_is_better", "lower_is_better"} :
                  (/\ DOMAIN values[d] = DOMAIN values[e]
                   /\ \A i, j \in DOMAIN values[d] :
                         ComesBefore(values[d], i, j) <=> ComesBefore(values[e], i, j))
                  => Retained(rows, d, e, direction, count)
                        = Cardinality(Selected(rows, d, direction, count))
=============================================================================
