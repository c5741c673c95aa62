---------------------------- MODULE BacktestEvidence ----------------------------
(* What a formal backtest is finalized from: its spec (quant/backtest/spec.py), *)
(* the bias audit of its samples (quant/backtest/audit.py), its bundle of output *)
(* artifacts (quant/backtest/artifacts.py) and the stages of its Run             *)
(* (domain/run_lifecycle.py).  FormalBacktest takes a verdict for each request *)
(* as given; here the verdict follows from the evidence.  Ratios and returns   *)
(* are counted in quanta of 0.0001, times in days.                             *)
EXTENDS FormalBacktest, SequencesExt, FiniteSetsExt

CONSTANTS
    Evidence,     \* what each request hands in
    AuditPolicy   \* [minOverlap, blockOverlap, costWarn, costBlock]

One == 10000
Ratios == 0..One

-----------------------------------------------------------------------------
(* The spec                                                                *)

RequiredDatasets ==
    {"adjusted_daily_bars", "raw_daily_bars", "trading_calendar",
     "corporate_actions", "instrument_master"}

\* _validate_dataset_version: a version, and not the alias of one.
IsConcrete(version) == version # "latest"

\* Every required dataset, every one with the hash of its content.
IsDatasetSpec(d) ==
    /\ RequiredDatasets \subseteq DOMAIN d.versions
    /\ DOMAIN d.hashes = DOMAIN d.versions
    /\ \A n \in DOMAIN d.versions : IsConcrete(d.versions[n])

FormalStrategies ==
    {"screen_snapshot_rebalance", "screen_definition_rebalance",
     "model_prediction_rebalance", "external_weight_schedule"}

\* Bound to a screen, a factor or a model; evaluations of signals
\* ("legacy_signal_evaluation") are no strategies.
IsStrategySpec(s) ==
    /\ s.kind \in FormalStrategies
    /\ IsInjective(s.factors)
    /\ s.screens # {} \/ s.factors # <<>> \/ s.model # None

\* What a close decides is not executed at that close.
IsExecutionSpec(x) ==
    /\ x.lag \in Nat /\ x.lot \in Nat \ {0} /\ x.seed \in Nat
    /\ ~(/\ x.signal = "at_close" /\ x.signalPrice = "close"
         /\ x.execution = "same_bar_close" /\ x.executionPrice = "close")

CostRates ==
    {"commission", "minCommission", "stampTax", "transferFee", "slippage", "impact"}

IsCostSpec(c) ==
    /\ \A r \in CostRates : c[r] \in Nat
    /\ c.participation \in Ratios \ {0}

RiskRatios == {"perInstrument", "perIndustry", "turnover", "cashBuffer"}

IsRiskSpec(r) ==
    /\ \A limit \in RiskRatios : r[limit] \in Ratios
    /\ r.liquidityFloor \in Nat

IsSpec(s) ==
    /\ IsDatasetSpec(s.dataset) /\ IsConcrete(s.universe)
    /\ IsStrategySpec(s.strategy) /\ IsExecutionSpec(s.execution)
    /\ IsCostSpec(s.costs) /\ IsRiskSpec(s.risk)
    /\ s.start <= s.end /\ s.capital > 0

\* What the spec_hash is taken of: not when and by which run it was created.
HashPayload(s) == Restrict(s, DOMAIN s \ {"createdAt", "createdBy"})

\* Requests with the same spec_hash have the same payload.
ASSUME SpecsAreBound ==
    /\ \A q \in Requests : IsSpec(Evidence[q].spec)
    /\ \A p, q \in Requests :
          InputOf[p] = InputOf[q] =>
            HashPayload(Evidence[p].spec) = HashPayload(Evidence[q].spec)

\* pit_available_at may be absent.
Never == 0

-----------------------------------------------------------------------------
(* The audit                                                               *)

\* BacktestBiasAuditPolicy: no threshold blocks before it warns.
IsAuditPolicy(p) ==
    /\ p.minOverlap \in Ratios /\ p.costWarn \in Nat /\ p.costBlock \in Nat
    /\ p.costWarn <= p.costBlock
    /\ p.blockOverlap # None => p.blockOverlap \in 0..p.minOverlap

ASSUME PolicyIsSound == IsAuditPolicy(AuditPolicy)

\* BacktestBiasAuditObservation: one instrument on one trade date.
SampleKey(o) == <<o.inst, o.trade>>

BlockIf(offends) == IF offends THEN "block" ELSE "pass"

LookaheadBias(observations) ==
    BlockIf(\E o \in observations : o.available > o.decided)

SurvivorshipBias(observations) ==
    BlockIf(\E o \in observations : ~o.historical \/ o.universe > o.trade)

\* Mutant: what has no date of its own is not late.
PitOfDated(observations) ==
    BlockIf(\E o \in observations : o.pit > o.decided \/ ~o.known)

PitDataAvailability(observations) ==
    BlockIf(\E o \in observations :
               o.pit = Never \/ o.pit > o.decided \/ ~o.known)

\* To the nearest quantum, halves to the even one (_quantize_ratio).
Ratio(part, whole) ==
    LET q == (part * One) \div whole
        r == (part * One) % whole
    IN  IF 2 * r > whole \/ (2 * r = whole /\ q % 2 = 1) THEN q + 1 ELSE q

\* The hard threshold is asked before the minimum, and only if there is one.
SampleOverlap(observations) ==
    LET strategy == {SampleKey(o) : o \in {p \in observations : p.inStrategy}}
        returns == {SampleKey(o) : o \in {p \in observations : p.inReturn}}
        overlap == Ratio(Cardinality(strategy \intersect returns),
                         Cardinality(strategy \union returns))
    IN  IF strategy \union returns = {} THEN "not_evaluable"
        ELSE IF AuditPolicy.blockOverlap # None /\ overlap < AuditPolicy.blockOverlap
        THEN "block"
        ELSE IF overlap < AuditPolicy.minOverlap THEN "warn" ELSE "pass"

Baselines(scenarios) == {s \in scenarios : s.baseline}

\* The worst of the other scenarios against the baseline; a gain is no loss.
Degradation(scenarios) ==
    LET base == CHOOSE s \in Baselines(scenarios) : TRUE
    IN  Max({0} \union {base.total - s.total : s \in scenarios})

CostSensitivity(scenarios) ==
    IF scenarios = Baselines(scenarios) THEN "not_evaluable"
    ELSE IF Degradation(scenarios) > AuditPolicy.costBlock THEN "block"
    ELSE IF Degradation(scenarios) > AuditPolicy.costWarn THEN "warn" ELSE "pass"

\* evaluate() raises for anything else.
MayAudit(e) ==
    /\ e.observations # {} /\ e.scenarios # {}
    /\ Cardinality({s.id : s \in e.scenarios}) = Cardinality(e.scenarios)
    /\ Cardinality(Baselines(e.scenarios)) = 1
    /\ \A o \in e.observations : o.versions = e.spec.dataset.versions

\* evaluate(): the outcome of every rule.
Outcomes(e) ==
    [lookahead |-> LookaheadBias(e.observations),
     survivorship |-> SurvivorshipBias(e.observations),
     pitAvailability |-> PitDataAvailability(e.observations),
     sampleOverlap |-> SampleOverlap(e.observations),
     costSensitivity |-> CostSensitivity(e.scenarios)]

\* hard_failure_rule_ids, warning_rule_ids and not_evaluable_rule_ids.
RulesWith(e, statuses) == {r \in DOMAIN Outcomes(e) : Outcomes(e)[r] \in statuses}

\* A rule that cannot be evaluated counts as one that failed.
AuditStatus(e) ==
    IF RulesWith(e, {"block", "not_evaluable"}) # {} THEN "invalid"
    ELSE IF RulesWith(e, {"warn"}) # {} THEN "warn" ELSE "pass"

\* eligible_for_ranking and agent_strong_conclusion_allowed of a report.
Promotable(e) == AuditStatus(e) # "invalid"

-----------------------------------------------------------------------------
(* The bundle                                                              *)

OutputKinds ==
    {"orders", "executions", "positions", "cash", "equity_curve", "metrics", "audit"}

\* BacktestOutputArtifact: named by the digest of its content.
IsOutput(o) ==
    /\ o.kind \in OutputKinds /\ o.rows \in Nat
    /\ o.hash = o.stored /\ o.uri = o.stored
    /\ IsInjective(o.partitions)

\* _normalize_outputs: every kind once.
CoversEveryKind(outputs) ==
    LET kinds == [n \in DOMAIN outputs |-> outputs[n].kind]
    IN  IsInjective(kinds) /\ Range(kinds) = OutputKinds

\* BacktestArtifactBundle: a state that fits what was noted about it, and no
\* evaluation of signals.
MakesBundle(b) ==
    /\ \A n \in DOMAIN b.outputs : IsOutput(b.outputs[n])
    /\ CoversEveryKind(b.outputs)
    /\ b.scope # "legacy_signal_evaluation"
    /\ b.state = "partial" => b.warned \/ b.erred
    /\ b.state = "invalid" => b.erred
    /\ b.state = "formal" => ~b.erred

-----------------------------------------------------------------------------
(* The Run and its stages                                                  *)

Logged(run, kind) == [run EXCEPT !.events = Append(@, kind)]

StartRun == [status |-> "running", stages |-> <<>>, events |-> <<"run.started">>]

IsActive(run) == run.status = "running"

StageIds(run) == {run.stages[n].id : n \in DOMAIN run.stages}

RunsStage(run, id) ==
    \E n \in DOMAIN run.stages : run.stages[n] = [id |-> id, status |-> "running"]

MayStartStage(run, id) == IsActive(run) /\ id \notin StageIds(run)
StartStage(run, id) ==
    [Logged(run, "stage.started") EXCEPT
        !.stages = Append(@, [id |-> id, status |-> "running"])]

\* record_stage_event() of _build_record, for a stage that did not end.
NoteStage(run) == Logged(run, "info")

MayCompleteStage(run, id) == IsActive(run) /\ RunsStage(run, id)
CompleteStage(run, id) ==
    [Logged(run, "stage.completed") EXCEPT
        !.stages = [n \in DOMAIN @ |->
            IF @[n].id = id THEN [id |-> id, status |-> "completed"] ELSE @[n]]]

MayCompleteRun(run) == IsActive(run) /\ \A id \in StageIds(run) : ~RunsStage(run, id)
CompleteRun(run) == [Logged(run, "run.completed") EXCEPT !.status = "completed"]

\* complete_stage() of _build_record: started, noted and completed at once.  An
\* id that is taken raises InvalidTransition, and finalize() with it.
Raised(run) == [run EXCEPT !.status = "raised"]

RecordStage(run, id) ==
    LET noted == NoteStage(StartStage(run, id))
    IN  IF MayStartStage(run, id) /\ MayCompleteStage(noted, id)
        THEN CompleteStage(noted, id) ELSE Raised(run)

\* The Run after the stages with these ids, one after the other.
Recorded(ids) ==
    LET After[n \in 0..Len(ids)] ==
            IF n = 0 THEN StartRun ELSE RecordStage(After[n - 1], ids[n])
    IN  After[Len(ids)]

\* "stage-spec", the stages the layers name themselves, and "stage-summary",
\* which comes after the summary artifact was stored.
BuildLifecycle(e) ==
    LET run == Recorded(<<"stage-spec">> \o e.stages \o <<"stage-summary">>)
    IN  IF MayCompleteRun(run) THEN CompleteRun(run) ELSE Raised(run)

-----------------------------------------------------------------------------
\* The orchestrator's view of the evidence: layers bound to the spec and a Run
\* that can be recorded, the risk decision, the audit and the bundle.
VerdictOf(e) ==
    LET Unless(holds, check) == IF holds THEN {} ELSE {check}
    IN  [fails |-> Unless(/\ e.bundle.versions = e.spec.dataset.versions
                          /\ BuildLifecycle(e).status = "completed", "bindings")
                   \union Unless(e.risk # "block", "risk")
                   \union Unless(Promotable(e), "audit"),
         formal |-> e.bundle.state = "formal", ranking |-> Promotable(e)]

\* The days of a sample, the returns of a scenario and the ids of the stages.
ASSUME EvidenceIsTyped ==
    \A q \in Requests :
        /\ \A o \in Evidence[q].observations :
              /\ {o.decided, o.available, o.pit, o.trade, o.universe} \subseteq Nat
              /\ o.historical \in BOOLEAN
        /\ IsFiniteSet(Evidence[q].scenarios)
        /\ \A s \in Evidence[q].scenarios : s.total \in Int
        /\ Evidence[q].stages \in Seq(Range(Evidence[q].stages))

ASSUME VerdictsFollow ==
    /\ \A q \in Requests : MayAudit(Evidence[q]) /\ MakesBundle(Evidence[q].bundle)
    /\ Verdict = [q \in Requests |-> VerdictOf(Evidence[q])]

-----------------------------------------------------------------------------
\* docs/backtest-bias-audit.md:34: whatever is final or ranked, directly or by
\* reuse, was computed from samples that saw nothing of the future, with dated
\* data and historical universes, and keeps its return when costs rise.
SawNoFuture(e) ==
    /\ \A o \in e.observations :
          /\ o.available <= o.decided
          /\ o.pit \in 1..o.decided
          /\ o.historical /\ o.universe <= o.trade
    /\ \E o \in e.observations : o.inStrategy \/ o.inReturn
    /\ \A base, s \in e.scenarios :
          base.baseline => base.total - s.total <= AuditPolicy.costBlock

\* Its Run has every stage once, each ended before the Run ended.
IsRecordedInFull(e) ==
    LET run == BuildLifecycle(e)
        Completions == {n \in DOMAIN run.events : run.events[n] = "stage.completed"}
    IN  /\ Last(run.events) = "run.completed"
        /\ Cardinality(StageIds(run)) = Len(run.stages)
        /\ Cardinality(Completions) = Len(e.stages) + 2

SoundRequests ==
    {q \in Requests : SawNoFuture(Evidence[q]) /\ IsRecordedInFull(Evidence[q])}

\* A run that became final was made of evidence that saw no future data, and its
\* lifecycle says so stage by stage (audit.py, run_lifecycle.py).
FinalRunsAreSound ==
    \A f \in final :
        /\ f.origin \in SoundRequests
        /\ f.ranked => ~Evidence[f.origin].bundle.erred
=============================================================================
