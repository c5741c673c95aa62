------------------------------ MODULE MarketStore ------------------------------
(* Market data as it comes in: schemas are registered, provider batches of   *)
(* bars and of fundamentals are validated and merged by key, corporate       *)
(* actions are published, and the adjusted bars are built from both.  Signals *)
(* are evaluated on the bars there are.                                      *)
EXTENDS ProviderPolicy, SignalEvaluation

CONSTANTS
    Declarations,   \* schema declarations that may be registered
    Answers,        \* what the providers may answer: a function of those that do
    ActionLists,    \* sequences of corporate actions, each a whole dataset
    FundamentalRows,\* provider rows; a field left out is Missing
    Signals,        \* a sequence of advice on instruments: see ForwardBars
    MaxTime         \* bound on the clock

ASSUME StoreConstants == MaxTime \in Nat

Qualities == {"none", "passed", "warning", "quarantine", "blocking"}

\* A batch is one provider's, and its rows are given that provider's name.
ASSUME AnswersAreBatches ==
    \A answers \in Answers :
        /\ DOMAIN answers \subseteq Providers
        /\ \A p \in DOMAIN answers :
              /\ answers[p].fails \in BOOLEAN
              /\ ~answers[p].fails =>
                    /\ answers[p].freshUntil \in Nat /\ answers[p].quality \in Qualities
                    /\ answers[p].records \in Seq(Range(answers[p].records))
                    /\ \A r \in Range(answers[p].records) :
                          /\ r.provider = p
                          /\ {r.low, r.close} \subseteq Nat \cup {Missing}

\* What CorporateAction lets through before its terms are looked at.
CorporateAction ==
    [inst : Instruments, exDate : Nat, type : {"cash_dividend", "bonus_share",
        "rights_issue", "share_split"}, provider : Providers, cash : Nat, bonus : Nat,
     split : Nat \ {0}, rights : Nat, price : (Nat \ {0}) \cup {Missing}]

ASSUME ListsAreActions == \A list \in ActionLists : list \in Seq(CorporateAction)

\* What a row of fundamentals may be: dates are numbers.
FundamentalRow ==
    [inst : Instruments, period : Nat, item : STRING, revision : Nat \cup {Missing},
     provider : Providers, value : Int, announced : Nat \cup {Missing},
     available : Nat, ingested : Nat \cup {Missing}]

ASSUME RowsAreFundamentals == FundamentalRows \subseteq FundamentalRow

\* Dates and prices are numbers, and a window has a day at least.
ASSUME SignalsAreDated ==
    /\ Signals \in Seq(Range(Signals))
    /\ \A s \in Range(Signals) :
          s.day \in Int /\ s.start \in Int /\ s.days \in Nat \ {0}

VARIABLES
    registry,       \* ArrowSchemaRegistry._schemas of one schema name
    raw,            \* RawDailyBarsDataset, as merged
    published,      \* the latest bars to have passed the quality gate
    actions,        \* CorporateActionsDataset
    adjusted,       \* AdjustedDailyBarsDataset
    fundamentals,   \* FundamentalsDataset
    now             \* the time: rows are ingested at it, questions are not later

storeVars == <<registry, raw, published, actions, adjusted, fundamentals, now>>

Nothing == <<>>

StoreInit ==
    /\ registry = {} /\ raw = Nothing /\ published = Nothing /\ actions = {}
    /\ adjusted = Nothing /\ fundamentals = Nothing /\ now = 0

-----------------------------------------------------------------------------
Register(declaration) ==
    /\ MayRegister(registry, declaration)
    /\ registry' = registry \cup {declaration}
    /\ UNCHANGED <<raw, published, actions, adjusted, fundamentals, now>>

\* RawDailyBarsDataset.from_provider_batch, merged into what there is.
IngestBars(batch) ==
    /\ AcceptsBars(batch)
    /\ raw' = MergeIncremental(raw, BarsByKey(batch))
    /\ UNCHANGED <<registry, published, actions, adjusted, fundamentals, now>>

\* The batch the policy selects, if it selects one.
SyncBars(answers) ==
    LET selection == Select(answers, now)
    IN  /\ selection.status = "selected"
        /\ IngestBars(answers[selection.selected].records)

\* QualityGatedDatasetPublisher.publish: what has passed becomes the latest.
PublishBars ==
    /\ raw # Nothing
    /\ PublicationStatus(BarsStatus(Range(raw))) = "published"
    /\ published' = raw
    /\ UNCHANGED <<registry, raw, actions, adjusted, fundamentals, now>>

PublishActions(list) ==
    /\ AcceptsActions(list)
    /\ actions' = Range(list)
    /\ UNCHANGED <<registry, raw, published, adjusted, fundamentals, now>>

\* AdjustedDailyBarsDataset.from_raw_bars of all published bars, then merged.
BuildFromAll ==
    /\ published # Nothing
    /\ MayBuildAdjusted(published, actions)
    /\ adjusted' = MergeIncremental(adjusted, BuildAdjusted(published, actions))
    /\ UNCHANGED <<registry, raw, published, actions, fundamentals, now>>

\* FundamentalsDataset.from_provider_batch of a row, merged.
IngestFundamentals(row) ==
    LET records == <<RecordFromRow(row, now)>>
    IN  /\ AcceptsFundamentals(records)
        /\ fundamentals' =
              MergeIncremental(fundamentals, FundamentalsByKey(records))
        /\ UNCHANGED <<registry, raw, published, actions, adjusted, now>>

Tick ==
    /\ now < MaxTime /\ now' = now + 1
    /\ UNCHANGED <<registry, raw, published, actions, adjusted, fundamentals>>

StoreNext ==
    \/ \E d \in Declarations : Register(d)
    \/ \E a \in Answers : SyncBars(a)
    \/ PublishBars
    \/ \E l \in ActionLists : PublishActions(l)
    \/ BuildFromAll
    \/ \E row \in FundamentalRows : IngestFundamentals(row)
    \/ Tick

StoreSpec == StoreInit /\ [][StoreNext]_storeVars

-----------------------------------------------------------------------------
Factor(bar, mode) == adjusted[AdjustedKey(bar, mode)].factor

AdjustedBars == {adjusted[k].raw : k \in DOMAIN adjusted}

(* Forward and backward adjusted prices show the same return from each bar   *)
(* to the next: every event between two bars is in both factors, once.       *)
ModesAgree ==
    \A pair \in Neighbours(AdjustedBars) :
        SameFraction(
            Times(Factor(pair[1], "forward"), Factor(pair[2], "backward")),
            Times(Factor(pair[2], "forward"), Factor(pair[1], "backward")))

(* Built from what has passed the gate, factors move only where the series'   *)
(* own provider reports an event of that very day, and the jumps that the    *)
(* gate of the adjusted bars quarantines are such days.                      *)
FactorsMoveOnExDates ==
    published # Nothing /\ MayBuildAdjusted(published, actions) =>
        LET built == BuildAdjusted(published, actions)
            moves == {pair \in Neighbours(Range(published)) : \E m \in Modes :
                        ~SameFraction(built[AdjustedKey(pair[1], m)].factor,
                                      built[AdjustedKey(pair[2], m)].factor)}
        IN  /\ \A pair \in moves : \E a \in actions :
                  /\ a.inst = pair[2].inst /\ a.provider = pair[2].provider
                  /\ a.exDate = pair[2].day
            /\ AdjustedStatus(built) # "passed" => moves # {}

(* docs/provider-policy-fallback-trace.md:18,72: bars come into the dataset   *)
(* from a batch that is fresh, complete and of fair quality, when no provider *)
(* of a higher priority had one, and they do not differ from what the cross  *)
(* provider, if it had such a batch, said of the day last.                   *)
SelectionIsEarned ==
    [][\A answers \in Answers : raw' # raw /\ SyncBars(answers) =>
         LET sound == {p \in DOMAIN answers : ~answers[p].fails
                        /\ now <= answers[p].freshUntil
                        /\ answers[p].quality \in {"none", "passed", "warning"}
                        /\ \A r \in Range(answers[p].records) :
                              Missing \notin {r[f] : f \in Requested}}
         IN  \A b \in Range(raw') \ Range(raw) :
                /\ b.provider \in sound
                /\ \E n \in DOMAIN OrderedProviders :
                      /\ OrderedProviders[n] = b.provider
                      /\ \A m \in 1..(n - 1) : OrderedProviders[m] \notin sound
                /\ Policy.cross \in sound /\ Policy.maxDiff # Missing =>
                      LET said == answers[Policy.cross].records
                          about == {n \in DOMAIN said : RecordKey(said[n]) = RecordKey(b)}
                      IN  \A n \in about : (\A m \in about : m <= n) =>
                              ~Differs(b.close, said[n].close)]_storeVars

\* The bars a signal of a day is evaluated on, which the caller picks.
ForwardBars(dataset, signal) ==
    LET later == {b \in BarsOf(dataset, signal.inst, signal.provider) : b.day > signal.day}
        Before(b) == {c \in later : c.day < b.day}
    IN  [n \in 1..Cardinality(later) |->
            CHOOSE b \in later : Cardinality(Before(b)) = n - 1]

Evaluations(dataset) ==
    [n \in DOMAIN Signals |-> EvaluateSingle(Signals[n], ForwardBars(dataset, Signals[n]))]

\* What is completed changes only with a bar of the days it is about.
EvaluationsStand ==
    \A n \in DOMAIN Signals :
        LET s == Signals[n]
            old == Evaluations(raw)[n]
            bars == BarsOf(raw', s.inst, s.provider)
            Between(b) == {c \in bars : s.day < c.day /\ c.day < b.day}
        IN  old.status = "completed" /\ Evaluations(raw')[n] # old =>
                \E b \in bars \ Range(raw) : s.day < b.day /\ Cardinality(Between(b)) < s.days

\* Who is long expects prices not to fall and a win is a hit.  A stop that is
\* reached no later than the profit target is what the position is closed at.
EnginesAgree(s, forward) ==
    LET result == EvaluateSingle(s, forward)
        direction == DirectionExpected(s.advice)
        decided == EvaluateDecision(direction, s.start, s.days, forward)
    IN  /\ result.position = "long" <=> direction \in {"up", "not_down"}
        /\ result.status = "completed" /\ result.position = "long" =>
              /\ <<result.outcome, decided.outcome>> \in
                    {<<"win", "hit">>, <<"loss", "miss">>, <<"neutral", "neutral">>}
              /\ \A d \in 1..s.days :
                    /\ HitsStop(forward[d], s.stop)
                    /\ \A c \in 1..(d - 1) : ~HitsTake(forward[c], s.take)
                    => result.simulated = {Return(s.start, s.stop)}

EvaluationsAgree ==
    \A n \in DOMAIN Signals : EnginesAgree(Signals[n], ForwardBars(raw, Signals[n]))

SummaryAddsUp ==
    LET sum == Summary(Evaluations(raw))
    IN  /\ sum.long + sum.cash = sum.completed
        /\ sum.win + sum.loss + sum.neutral = sum.completed
        /\ \A o \in {"win", "loss", "neutral"} :
              sum[o] = SumFunction([a \in DOMAIN sum.advice |-> sum.advice[a][o]])

(* docs/signal-evaluation-engine.md:11: a completed evaluation is of the days *)
(* right after the advice, and neither what comes after them nor anything    *)
(* but a late or restated bar of these days gives it another result.  The    *)
(* two engines and the two readings of the advice agree, and what a summary  *)
(* counts adds up to what was completed.                                     *)
SignalsStand ==
    [](EvaluationsAgree /\ SummaryAddsUp) /\ [][raw' # raw => EvaluationsStand]_storeVars

(* docs/fundamentals-pit-dataset.md:13,19: what was answered about a past      *)
(* decision changes only with a record that by its own dates was available   *)
(* then: one that comes in late, or one that is replaced under its key.      *)
PastAnswersStand ==
    [][\A inst \in Instruments, t \in 0..MaxTime :
          LatestAsOf(fundamentals', inst, "eps", t)
            # LatestAsOf(fundamentals, inst, "eps", t)
          => \/ \E r \in Range(fundamentals') \ Range(fundamentals) :
                   r.available <= t /\ r \in LatestAsOf(fundamentals', inst, "eps", t)
             \/ \E r \in Range(fundamentals) \ Range(fundamentals') :
                   r.available <= t /\ r \in LatestAsOf(fundamentals, inst, "eps", t)]_storeVars
=============================================================================
