------------------------------ MODULE MarketData ------------------------------
(* The datasets of market data: the instrument master, the raw daily bars,   *)
(* the corporate actions with the adjusted bars derived from them, and the   *)
(* point-in-time fundamentals (datasets/instrument_master.py,                *)
(* raw_daily_bars.py, corporate_actions.py, fundamentals.py).  A dataset is  *)
(* a function from the primary key of its records to the record.             *)
EXTENDS TradingCalendar, Integers, Sequences, TLC, Functions

CONSTANTS
    Instruments,
    Providers,
    Master        \* InstrumentMasterDataset.records

Missing == -1     \* None, and an open end of a window

-----------------------------------------------------------------------------
\* Instrument master: records with half-open validity windows.
ContainsDate(window, day) ==
    window.from <= day /\ (window.to = Missing \/ day < window.to)

ValidWindow(window) == window.to = Missing \/ window.from < window.to

\* In the order of valid_from, each window ends before the next one starts.
NoOverlap(windows) ==
    \A v, w \in windows :
        v # w => \/ v.to # Missing /\ v.to <= w.from
                 \/ w.to # Missing /\ w.to <= v.from

InstrumentRecords ==
    [inst : Instruments, from : Days, to : Days \cup {Missing},
     active : BOOLEAN, symbols : SUBSET [provider : Providers, from : Days,
                                         to : Days \cup {Missing}]]

MasterAccepts(records) ==
    /\ records # {}
    /\ \A r \in records :
          /\ ValidWindow(r)
          /\ \A s \in r.symbols : ValidWindow(s)
          /\ \A p \in Providers : NoOverlap({s \in r.symbols : s.provider = p})
    /\ \A i \in Instruments : NoOverlap({r \in records : r.inst = i})

ASSUME MasterAssumption ==
    Master \subseteq InstrumentRecords /\ MasterAccepts(Master)

QueryAsOf(day, includeInactive) ==
    {r \in Master : ContainsDate(r, day) /\ (includeInactive \/ r.active)}

\* get: exactly one record, or an error.
ExistsAsOf(inst, day) ==
    Cardinality({r \in QueryAsOf(day, TRUE) : r.inst = inst}) = 1

-----------------------------------------------------------------------------
\* Every dataset: one record a key, and a merge that replaces by key.
UniqueKeys(records, Key(_)) ==
    \A m, n \in DOMAIN records : Key(records[m]) = Key(records[n]) => m = n

Keyed(records, Key(_)) ==
    [k \in {Key(r) : r \in Range(records)} |->
        CHOOSE r \in Range(records) : Key(r) = k]

MergeIncremental(old, incremental) ==
    [key \in DOMAIN old \cup DOMAIN incremental |->
        IF key \in DOMAIN incremental THEN incremental[key] ELSE old[key]]

-----------------------------------------------------------------------------
\* Raw daily bars.
BarKey(bar) == <<bar.inst, bar.day, bar.provider>>

OrderedPrices(bar) ==
    /\ 0 <= bar.low
    /\ bar.low <= bar.open /\ bar.open <= bar.high
    /\ bar.low <= bar.close /\ bar.close <= bar.high

ValidBar(bar) == OrderedPrices(bar) /\ bar.volume >= 0

AcceptsBars(bars) ==
    /\ bars # <<>> /\ UniqueKeys(bars, BarKey)
    /\ \A b \in Range(bars) :
          ValidBar(b) /\ ExistsAsOf(b.inst, b.day) /\ b.day \in TradingDays

BarsByKey(bars) == Keyed(bars, BarKey)

BarsOf(dataset, inst, provider) ==
    {b \in Range(dataset) : b.inst = inst /\ b.provider = provider}

-----------------------------------------------------------------------------
\* Corporate actions.  Ratios are whole numbers; no price is Missing.
ActionKey(action) ==
    <<action.inst, action.exDate, action.type, action.provider>>

HasNoCashOrRights(a) == a.cash = 0 /\ a.rights = 0 /\ a.price = Missing

ValidTerms(a) ==
    CASE a.type = "cash_dividend" ->
           a.cash > 0 /\ a.bonus = 0 /\ a.split = 1 /\ a.rights = 0
             /\ a.price = Missing
      [] a.type = "bonus_share" ->
           a.bonus > 0 /\ a.split = 1 /\ HasNoCashOrRights(a)
      [] a.type = "rights_issue" ->
           a.rights > 0 /\ a.price # Missing
             /\ a.cash = 0 /\ a.bonus = 0 /\ a.split = 1
      [] a.type = "share_split" ->
           a.split # 1 /\ a.bonus = 0 /\ HasNoCashOrRights(a)

AcceptsActions(actions) ==
    /\ UniqueKeys(actions, ActionKey)
    /\ \A a \in Range(actions) :
          ValidTerms(a) /\ ExistsAsOf(a.inst, a.exDate) /\ a.exDate \in TradingDays

\* actions_for_instrument, from one day to another and of one provider.
ActionsBetween(actions, inst, provider, first, last) ==
    {a \in actions : /\ a.inst = inst /\ a.provider = provider
                     /\ first <= a.exDate /\ a.exDate <= last}

-----------------------------------------------------------------------------
\* Adjustment factors are fractions: event by event, multiplied up.
Times(x, y) == [num |-> x.num * y.num, den |-> x.den * y.den]
Inverted(x) == [num |-> x.den, den |-> x.num]
SameFraction(x, y) == x.num * y.den = y.num * x.den
Whole == [num |-> 1, den |-> 1]

ProductOf(ratios) == FoldFunction(LAMBDA r, product : r * product, 1, ratios)

\* _event_coefficient: the ex-rights price over the close before it.
TheoreticalValue(actions, close) ==
    LET priced == {a \in actions : a.price # Missing}
    IN  close - SumFunction([a \in actions |-> a.cash])
              + SumFunction([a \in priced |-> a.rights * a.price])

ShareMultiple(actions) ==
    ProductOf([a \in actions |-> a.split])
        * (1 + SumFunction([a \in actions |-> a.bonus]))
        + SumFunction([a \in actions |-> a.rights])

MayAdjustFrom(actions, close) ==
    /\ close > 0 /\ SumFunction([a \in actions |-> a.cash]) < close
    /\ TheoreticalValue(actions, close) > 0

EventCoefficient(actions, close) ==
    [num |-> TheoreticalValue(actions, close),
     den |-> ShareMultiple(actions) * close]

\* _previous_raw_bar: the last bar of the window before the day.
BarsBefore(bars, day) == {b \in bars : b.day < day}

PreviousBar(bars, day) ==
    CHOOSE b \in BarsBefore(bars, day) :
        \A c \in BarsBefore(bars, day) : c.day <= b.day

\* The actions that fall within the bars of one instrument and provider.
ActionsWithin(bars, actions) ==
    LET days == {b.day : b \in bars}
        one == CHOOSE b \in bars : TRUE
    IN  ActionsBetween(actions, one.inst, one.provider, Min(days), Max(days))

OnDay(actions, day) == {a \in actions : a.exDate = day}
ExDates(actions) == {a.exDate : a \in actions}

CoefficientOn(bars, actions, day) ==
    EventCoefficient(OnDay(actions, day), PreviousBar(bars, day).close)

MayAdjustBars(bars, actions) ==
    LET within == ActionsWithin(bars, actions)
    IN  \A day \in ExDates(within) :
            /\ BarsBefore(bars, day) # {}
            /\ MayAdjustFrom(OnDay(within, day), PreviousBar(bars, day).close)

\* Mutant: an action of the day itself is taken for a later one.
EventDatesFromDay(exDates, mode, day) ==
    IF mode = "forward" THEN {d \in exDates : d >= day}
                        ELSE {d \in exDates : d <= day}

\* _factor_for_bar: later events for forward, past ones for backward, in the
\* order of their days.
EventDates(exDates, mode, day) ==
    IF mode = "forward" THEN {d \in exDates : d > day}
                        ELSE {d \in exDates : d <= day}

FactorForBar(bars, actions, mode, day) ==
    LET within == ActionsWithin(bars, actions)
        dates == EventDates(ExDates(within), mode, day)
        Event(d) == IF mode = "forward" THEN CoefficientOn(bars, within, d)
                    ELSE Inverted(CoefficientOn(bars, within, d))
        Upto[d \in 0..LastDay] ==
            IF d = 0 THEN Whole
            ELSE IF d \in dates THEN Times(Event(d), Upto[d - 1]) ELSE Upto[d - 1]
    IN  Upto[LastDay]

Modes == {"forward", "backward"}

AdjustedKey(bar, mode) == <<bar.inst, bar.day, bar.provider, mode>>

Identities(raw) == {<<b.inst, b.provider>> : b \in Range(raw)}

\* from_raw_bars: one action that cannot be adjusted refuses the whole build.
MayBuildAdjusted(raw, actions) ==
    \A id \in Identities(raw) : MayAdjustBars(BarsOf(raw, id[1], id[2]), actions)

BuildAdjusted(raw, actions) ==
    [key \in {AdjustedKey(b, m) : b \in Range(raw), m \in Modes} |->
        [raw |-> raw[<<key[1], key[2], key[3]>>],
         factor |-> FactorForBar(BarsOf(raw, key[1], key[3]), actions,
                                 key[4], key[2])]]

-----------------------------------------------------------------------------
\* Point-in-time fundamentals.
FundamentalKey(r) == <<r.inst, r.period, r.item, r.revision, r.provider>>

\* _record_from_provider_row: what a row leaves out.
RecordFromRow(row, fetchedAt) ==
    [row EXCEPT !.revision = IF @ = Missing THEN 1 ELSE @,
                !.ingested = IF @ = Missing THEN fetchedAt ELSE @]

TemporalConfidence(r) == IF r.announced = Missing THEN "unknown" ELSE "exact"

\* _validate_pit_timing.
ValidTiming(r) ==
    /\ r.available <= r.ingested
    /\ TemporalConfidence(r) = "exact" => r.announced <= r.available

AcceptsFundamentals(records) ==
    /\ UniqueKeys(records, FundamentalKey)
    /\ \A r \in Range(records) : r.revision > 0 /\ ValidTiming(r) /\ ExistsAsOf(r.inst, r.period)

FundamentalsByKey(records) == Keyed(records, FundamentalKey)

\* Mutant: what has become available since is not left out.
QueryCandidatesAnyTime(dataset, inst, item, decisionTime) ==
    {r \in Range(dataset) : r.inst = inst /\ r.item = item}

QueryCandidates(dataset, inst, item, decisionTime) ==
    {r \in Range(dataset) :
        r.inst = inst /\ r.item = item /\ r.available <= decisionTime}

\* _latest_sort_key, compared field by field.
NotNewer(r, s) ==
    \/ r.period < s.period
    \/ r.period = s.period /\ r.available < s.available
    \/ r.period = s.period /\ r.available = s.available
         /\ r.revision <= s.revision

\* latest_as_of; no record is an error.
LatestAsOf(dataset, inst, item, decisionTime) ==
    LET candidates == QueryCandidates(dataset, inst, item, decisionTime)
    IN  {r \in candidates : \A s \in candidates : NotNewer(s, r)}
=============================================================================
