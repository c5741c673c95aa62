------------------------------ MODULE DataQuality ------------------------------
(* The rules a dataset is put through before it is published, and the status *)
(* their issues add up to (datasets/quality.py), for bars and adjusted bars, *)
(* and the schema a dataset is declared with (datasets/schema_registry.py).  *)
EXTENDS MarketData

CONSTANTS
    RequiredFields,  \* the fields the schema declares as not nullable
    MaxReturn,       \* ReturnOutlierRule.max_abs_return, in percent
    MaxVolumeTimes,  \* VolumeSpikeRule.max_multiple
    MaxFactorJump,   \* AdjustmentFactorJumpRule.max_abs_pct_change, in percent
    MaxNullPercent   \* NullRatioDriftRule: baseline and max_delta together

ASSUME RulesAssumption == MaxFactorJump \in Nat

Distance(a, b) == IF a >= b THEN a - b ELSE b - a

\* Time series of a snapshot: the bars of an instrument and provider.
SameSeries(a, b) == a.inst = b.inst /\ a.provider = b.provider

\* Each bar with the one before it in its series.
Neighbours(bars) ==
    {pair \in bars \X bars :
        /\ SameSeries(pair[1], pair[2]) /\ pair[1].day < pair[2].day
        /\ \A c \in bars : SameSeries(pair[1], c) =>
              c.day <= pair[1].day \/ pair[2].day <= c.day}

-----------------------------------------------------------------------------
\* SchemaFieldRule: a required field is missing.
LacksRequiredField(bars) == \E b \in bars, f \in RequiredFields : b[f] = Missing

\* OhlcRelationshipRule.
BreaksOhlc(bars) ==
    \E b \in bars :
        ~ /\ b.low <= b.open /\ b.open <= b.high
          /\ b.low <= b.close /\ b.close <= b.high

NonNegativeFields == {"open", "high", "low", "close", "volume"}

HasNegativeField(bars) == \E b \in bars, f \in NonNegativeFields : b[f] < 0

\* NullRatioDriftRule, of the one nullable field there is.
NullRatioDrifts(bars) ==
    Cardinality({b \in bars : b.sourceTime = Missing}) * 100
        > Cardinality(bars) * MaxNullPercent

\* Mutant: a gap counts only if no bar follows it.
HasGapAtTheEnd(bars) ==
    \E a \in bars : \E day \in TradingDays :
        \A b \in bars : SameSeries(a, b) => b.day < day

\* TradingContinuityRule: expected days between the first bar and the last.
HasGap(bars) ==
    \E a, c \in bars : SameSeries(a, c)
        /\ \E day \in TradingDays : /\ a.day < day /\ day < c.day
              /\ \A b \in bars : SameSeries(a, b) => b.day # day

\* ReturnOutlierRule and VolumeSpikeRule: one bar against the one before it.
HasReturnOutlier(bars) ==
    \E pair \in Neighbours(bars) :
        /\ pair[1].close # 0
        /\ Distance(pair[2].close, pair[1].close) * 100
             > MaxReturn * pair[1].close

HasVolumeSpike(bars) ==
    \E pair \in Neighbours(bars) :
        /\ pair[1].volume > 0 /\ pair[2].volume > 0
        /\ \/ pair[2].volume > MaxVolumeTimes * pair[1].volume
           \/ pair[1].volume > MaxVolumeTimes * pair[2].volume

\* AdjustmentFactorJumpRule: factors of neighbouring bars, in one mode.
FactorJumps(x, y) ==
    Distance(y.num * x.den, x.num * y.den) * 100
        > MaxFactorJump * x.num * y.den

HasFactorJump(adjusted, mode) ==
    LET factor(b) == adjusted[AdjustedKey(b, mode)].factor
        bars == {adjusted[k].raw : k \in {key \in DOMAIN adjusted : key[4] = mode}}
    IN  \E pair \in Neighbours(bars) : FactorJumps(factor(pair[1]), factor(pair[2]))

-----------------------------------------------------------------------------
\* DataQualityReport.status: that of the gravest issue.
BlockingIssues(bars) ==
    {rule \in {"schema", "ohlc", "non_negative"} :
        CASE rule = "schema" -> LacksRequiredField(bars)
          [] rule = "ohlc" -> BreaksOhlc(bars)
          [] rule = "non_negative" -> HasNegativeField(bars)}

QuarantineIssues(bars) ==
    {rule \in {"null_ratio", "continuity"} :
        CASE rule = "null_ratio" -> NullRatioDrifts(bars)
          [] rule = "continuity" -> HasGap(bars)}

WarningIssues(bars) ==
    {rule \in {"return", "volume"} :
        CASE rule = "return" -> HasReturnOutlier(bars)
          [] rule = "volume" -> HasVolumeSpike(bars)}

QualityStatus(blocking, quarantine, warning) ==
    IF blocking # {} THEN "blocking"
    ELSE IF quarantine # {} THEN "quarantine"
    ELSE IF warning # {} THEN "warning" ELSE "passed"

BarsStatus(bars) ==
    QualityStatus(BlockingIssues(bars), QuarantineIssues(bars), WarningIssues(bars))

AdjustedStatus(adjusted) ==
    QualityStatus({}, {m \in Modes : HasFactorJump(adjusted, m)}, {})

\* _publication_status_for_quality, in the publication of a version.
PublicationStatus(status) ==
    CASE status = "passed" -> "published"
      [] status = "warning" -> "held"
      [] status = "quarantine" -> "quarantined"
      [] status = "blocking" -> "blocked"

-----------------------------------------------------------------------------
\* A schema: its version, and each field's [type, nullable, meaning].
\* compare_compatibility: what a candidate breaks of the version before.
Removes(old, new) == DOMAIN old.fields \ DOMAIN new.fields # {}

Kept(old, new) == DOMAIN old.fields \cap DOMAIN new.fields

Retypes(old, new) ==
    \E f \in Kept(old, new) : new.fields[f].type # old.fields[f].type

Requires(old, new) ==
    \/ \E f \in Kept(old, new) : old.fields[f].nullable /\ ~new.fields[f].nullable
    \/ \E f \in DOMAIN new.fields \ DOMAIN old.fields : ~new.fields[f].nullable

MeansOtherwise(old, new) ==
    \E f \in Kept(old, new) :
        /\ "" \notin {old.fields[f].meaning, new.fields[f].meaning}
        /\ new.fields[f].meaning # old.fields[f].meaning

IsBackwardCompatible(old, new) ==
    /\ ~Removes(old, new) /\ ~Retypes(old, new)
    /\ ~Requires(old, new) /\ ~MeansOtherwise(old, new)
    /\ new.key = old.key

Newer(v, w) ==
    v.major > w.major \/ (v.major = w.major /\ v.minor > w.minor)

LatestSchema(registry) ==
    CHOOSE s \in registry : \A r \in registry : r = s \/ Newer(s, r)

\* ArrowSchemaRegistry.register.
MayRegister(registry, declaration) ==
    registry # {} =>
        LET latest == LatestSchema(registry)
        IN  /\ Newer(declaration, latest)
            /\ IsBackwardCompatible(latest, declaration)
                 \/ declaration.major # latest.major
=============================================================================
