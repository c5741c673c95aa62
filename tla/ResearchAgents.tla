--------------------------- MODULE ResearchAgents ---------------------------
(***************************************************************************)
(* What the four research agents are shown and what they may answer: the   *)
(* evidence bundle of a role (application/evidence_bundle_builder.py) and  *)
(* the checks of the technical, intel, risk/portfolio and decision agents  *)
(* on their evidence and on the structured output of the model             *)
(* (application/technical_agent.py, intel_agent.py,                        *)
(* risk_portfolio_agent.py, decision_agent.py).                            *)
(***************************************************************************)
EXTENDS Evidence, SequencesExt

CONSTANTS
  EvidenceTokens(_),     \* the tokens a piece of evidence takes in a prompt
  SchemaTokens,          \* and the ones the instructions take
  MaxSourceAge           \* days after which a source is stale

Roles == {"technical", "intel", "risk_portfolio", "decision"}

(***************************************************************************)
(* The bundle: evidence the role may see, the most relevant first, one     *)
(* piece for each content, as much of it as the budget takes.              *)
(***************************************************************************)
KindWeights ==
  [technical |->
     [backtest_performance_metrics |-> 1000, factor_evaluation |-> 950, screen_snapshot |-> 900,
      risk_policy_result |-> 850, backtest_bias_audit |-> 800, backtest_run_summary |-> 760,
      backtest_artifact_bundle |-> 740, formal_backtest_api_record |-> 720],
   intel |->
     [unstructured_source |-> 1000, quant_lab_lineage |-> 800, formal_backtest_api_record |-> 760,
      screen_snapshot |-> 700, screen_pipeline_snapshot |-> 680],
   risk_portfolio |->
     [risk_policy_result |-> 1000, backtest_bias_audit |-> 960, backtest_performance_metrics |-> 900,
      backtest_run_summary |-> 860, backtest_artifact_bundle |-> 830, formal_backtest_api_record |-> 780],
   decision |->
     [risk_policy_result |-> 1000, backtest_performance_metrics |-> 980, backtest_bias_audit |-> 960,
      backtest_run_summary |-> 930, formal_backtest_api_record |-> 900, screen_snapshot |-> 860,
      factor_evaluation |-> 840]]

TrustWeights == [authoritative |-> 500, high |-> 400, medium |-> 250, low |-> 100, untrusted |-> 0]

Least(a, b) == IF a < b THEN a ELSE b

Recency(request, e) ==
  IF e.available_at > request.decision_time THEN 0
  ELSE 30 - Least(request.decision_time - e.available_at, 30)

Priority(request, e) ==
  LET kinds == KindWeights[request.role]
  IN  (IF e.kind \in DOMAIN kinds THEN kinds[e.kind] ELSE 100) + TrustWeights[e.trust]
        + (IF e.evaluation_scope = "formal_portfolio_backtest" THEN 80 ELSE 0)
        + (IF e.instrument_id = None THEN 10 ELSE IF e.instrument_id = request.instrument_id THEN 50 ELSE 0)
        + Recency(request, e)

Precedes(request, d, e) ==
  \/ Priority(request, d) > Priority(request, e)
  \/ Priority(request, d) = Priority(request, e) /\ d.evidence_id < e.evidence_id

ExclusionRules ==
  <<"kind_filtered", "evaluation_scope_filtered", "future_available_at", "instrument_mismatch">>

IsExcludedBy(rule, request, e) ==
  CASE rule = "kind_filtered" -> request.kinds # {} /\ e.kind \notin request.kinds
    [] rule = "evaluation_scope_filtered" -> request.scopes # {} /\ e.evaluation_scope \notin request.scopes
    [] rule = "future_available_at" -> e.available_at > request.decision_time
    [] rule = "instrument_mismatch" ->
         request.instrument_id # None /\ e.instrument_id \notin {None, request.instrument_id}

Exclusions(request, e) == SelectSeq(ExclusionRules, LAMBDA rule : IsExcludedBy(rule, request, e))

IsExcluded(request, e) == \E n \in DOMAIN ExclusionRules : IsExcludedBy(ExclusionRules[n], request, e)

IsRepeatIn(request, candidates, e) ==
  \E d \in candidates : d.content_hash = e.content_hash /\ Precedes(request, d, e)

(* The candidates in their order, each after those that precede it.        *)
Ranked(request, candidates) ==
  [n \in 1..Cardinality(candidates) |->
     CHOOSE e \in candidates : Cardinality({d \in candidates : Precedes(request, d, e)}) = n - 1]

(* Evidence that does not fit is left out, what comes after it may fit.    *)
Filled(request, ranked) ==
  LET Taken[n \in 0..Len(ranked)] ==
        IF n = 0 THEN [items |-> <<>>, trimmed |-> {}, tokens |-> SchemaTokens]
        ELSE LET b == Taken[n - 1] e == ranked[n]
             IN  IF Len(b.items) >= request.max_items \/ b.tokens + EvidenceTokens(e) > request.max_tokens
                 THEN [items |-> b.items, trimmed |-> b.trimmed \cup {e}, tokens |-> b.tokens]
                 ELSE [items |-> Append(b.items, e), trimmed |-> b.trimmed,
                       tokens |-> b.tokens + EvidenceTokens(e)]
  IN  Taken[Len(ranked)]

BundleStatus(filled) ==
  CASE filled.trimmed # {} /\ filled.items = <<>> -> "budget_exhausted"
    [] filled.trimmed # {} /\ filled.items # <<>> -> "trimmed"
    [] filled.trimmed = {} /\ filled.items = <<>> -> "empty"
    [] filled.trimmed = {} /\ filled.items # <<>> -> "complete"

(* Mutant: of two pieces with one content the better one is kept before    *)
(* the ones the role may not see are left out.                             *)
BuildDedupedFirst(request, records) ==
  LET distinct == {e \in records : ~IsRepeatIn(request, records, e)}
      seen == {e \in distinct : ~IsExcluded(request, e)}
      filled == Filled(request, Ranked(request, seen))
  IN  [request |-> request, items |-> filled.items, status |-> BundleStatus(filled),
       excluded |-> {<<e.evidence_id, Head(Exclusions(request, e))>> : e \in distinct \ seen}
                      \cup {<<e.evidence_id, "duplicate_content_hash">> : e \in records \ distinct}
                      \cup {<<e.evidence_id, "budget_trimmed">> : e \in filled.trimmed}]

Build(request, records) ==
  LET seen == {e \in records : ~IsExcluded(request, e)}
      distinct == {e \in seen : ~IsRepeatIn(request, seen, e)}
      filled == Filled(request, Ranked(request, distinct))
  IN  [request |-> request, items |-> filled.items, status |-> BundleStatus(filled),
       excluded |-> {<<e.evidence_id, Head(Exclusions(request, e))>> : e \in records \ seen}
                      \cup {<<e.evidence_id, "duplicate_content_hash">> : e \in seen \ distinct}
                      \cup {<<e.evidence_id, "budget_trimmed">> : e \in filled.trimmed}]

(***************************************************************************)
(* The prompt of a role: any item of another kind refuses the bundle.      *)
(***************************************************************************)
AllowedScopes ==
  [technical |-> [screen_snapshot |-> {"screening"}, screen_pipeline_snapshot |-> {"screening"},
                  factor_evaluation |-> {"factor_evaluation"}, factor_cache_manifest |-> {"dataset_lineage"}],
   intel |-> [unstructured_source |-> {"market_intelligence"}],
   risk_portfolio |-> [k \in FormalKinds |->
                         {"formal_portfolio_backtest"}
                           \cup (IF k = "formal_backtest_api_record" THEN {"api_lineage"} ELSE {})]]

Severity == [pass |-> 0, warn |-> 1, not_evaluable |-> 2, block |-> 3]

(* A status the gate does not know raises, and no prompt is made.          *)
StatusesAreKnown(e) ==
  e.risk_status \in {None} \cup DOMAIN Severity /\ e.audit_status \in {None, "pass", "warn", "invalid"}

IsShown(role, e) ==
  /\ e.llm_recompute_allowed = FALSE
  /\ role # "decision" =>
       /\ e.kind \in DOMAIN AllowedScopes[role]
       /\ e.evaluation_scope \in AllowedScopes[role][e.kind]
  /\ role = "intel" => e.source_trust # None /\ e.source_trust.available_at = e.available_at
  /\ role = "risk_portfolio" => StatusesAreKnown(e)

(* What one piece of evidence asks of the gate.                            *)
GateOf(e) ==
  {"pass"} \cup (IF e.risk_status # None THEN {e.risk_status} ELSE {})
    \cup When(e.audit_status = "invalid" \/ e.eligible_for_ranking = FALSE, "block")
    \cup When(e.audit_status = "warn", "warn")
    \cup When(e.not_evaluable_rules, "not_evaluable")

Conjoined(values) == IF FALSE \in values THEN FALSE ELSE IF TRUE \in values THEN TRUE ELSE None

(* Mutant: the gate is the one of the last piece of evidence.              *)
GateOfLast(items) ==
  [status |-> IF items = <<>> THEN "pass"
              ELSE CHOOSE s \in GateOf(Last(items)) : \A t \in GateOf(Last(items)) : Severity[s] >= Severity[t],
   eligible_for_ranking |-> Conjoined({e.eligible_for_ranking : e \in ToSet(items)}),
   agent_strong_conclusion_allowed |-> Conjoined({e.agent_strong_conclusion_allowed : e \in ToSet(items)})]

(* The gate is as severe as the most severe evidence, and one refusal of   *)
(* a ranking or of a strong conclusion stands.                             *)
HardGate(items) ==
  LET asked == {"pass"} \cup UNION {GateOf(e) : e \in ToSet(items)}
  IN  [status |-> CHOOSE s \in asked : \A t \in asked : Severity[s] >= Severity[t],
       eligible_for_ranking |-> Conjoined({e.eligible_for_ranking : e \in ToSet(items)}),
       agent_strong_conclusion_allowed |-> Conjoined({e.agent_strong_conclusion_allowed : e \in ToSet(items)})]

(* A source the intel agent reads: fresh, and not telling it what to do.   *)
IsFresh(request, source) ==
  /\ source.published_at <= request.decision_time
  /\ request.decision_time - source.published_at <= MaxSourceAge

MayBeStrong(request, e) ==
  e.source_trust.strong_claim_allowed /\ ~e.source_trust.malicious /\ IsFresh(request, e.source_trust)

IsCleanSource(items, i) ==
  /\ ~items[i].source_trust.malicious
  /\ \A j \in 1..(i - 1) : items[j].source_trust.malicious
       \/ items[j].source_trust.cleaned_body # items[i].source_trust.cleaned_body

(* The evidence the output may cite; `prior` is what the other roles cited.*)
AllowedIds(role, items, prior) ==
  {items[i].evidence_id : i \in {i \in DOMAIN items :
     /\ role = "intel" => IsCleanSource(items, i)
     /\ role = "decision" => items[i].evidence_id \in prior}}

(* A budget that does not even take the instructions refuses any bundle.   *)
Fits(request) == SchemaTokens <= request.max_tokens

PreparesPrompt(role, items) == \A e \in ToSet(items) : IsShown(role, e)

(***************************************************************************)
(* The checks on an output: its citations agree with their evidence, its   *)
(* claims with their citations, and the gate is not softened.              *)
(***************************************************************************)
CitationsAgree(role, items, allowed, output) ==
  /\ Unique(output.citations, LAMBDA c : c.citation_id)
  /\ \A c \in output.citations : \E e \in ToSet(items) :
       /\ e.evidence_id = c.evidence_id /\ e.evidence_id \in allowed
       /\ Departures(c.lineage, e.lineage) = {}
       /\ role # "intel" => ~FormulaIsForeign(c, e)

(* The technical agent does not compare the stages of a numeric claim.     *)
NumericAgrees(role, claim, c) ==
  /\ c.unit # None /\ c.formula_version # None
  /\ claim.value = c.cited_value /\ claim.unit = c.unit /\ claim.formula_version = c.formula_version
  /\ claim.lineage["dataset_versions"] = c.lineage["dataset_versions"]
  /\ Departures(claim.lineage, c.lineage) \subseteq (IF role = "technical" THEN {"stage_id"} ELSE {})

RiskGateAgrees(role, claim, cited, gate, output) ==
  /\ cited # {} /\ claim.computation_policy # "llm_narrative"
  /\ role = "risk_portfolio" /\ claim.value # None =>
       /\ claim.value = output.gate_status
       /\ \A c \in cited : c.cited_value \in {None, claim.value}
  /\ role = "decision" /\ claim.value # None /\ gate.status \in {"block", "not_evaluable"} =>
       claim.value = gate.status

ClaimAgrees(role, claim, gate, output) ==
  LET cited == {c \in output.citations : c.citation_id \in claim.citation_ids}
  IN  /\ {c.citation_id : c \in cited} = claim.citation_ids
      /\ claim.kind = "numeric_metric" =>
           /\ role # "intel" /\ claim.computation_policy = "deterministic_evidence"
           /\ \A c \in cited : NumericAgrees(role, claim, c)
      /\ claim.kind = "risk_gate" /\ role \in {"risk_portfolio", "decision"} =>
           RiskGateAgrees(role, claim, cited, gate, output)

GateIsPreserved(gate, output) ==
  IF gate.status \in {"block", "not_evaluable"} THEN output.gate_status = gate.status
  ELSE Severity[output.gate_status] >= Severity[gate.status]

(* What a gate leaves to the decision.                                     *)
DecisionIsAllowed(gate, output) ==
  /\ gate.status = "block" => output.recommendation \in {"blocked", "avoid"}
  /\ gate.status = "not_evaluable" => output.recommendation \in {"insufficient_evidence", "blocked", "avoid"}
  /\ gate.eligible_for_ranking = FALSE => ~output.ranking_eligible
  /\ gate.agent_strong_conclusion_allowed = FALSE =>
       output.recommendation \notin {"strong_buy", "buy"} /\ output.confidence_level # "high"

CitationIds(output) == {c.citation_id : c \in output.citations}

(* A strong event of the intel agent rests on a source that may carry it   *)
(* (one with instructions is none of those allowed).                       *)
EventsAreSupported(request, items, allowed, output) ==
  \A event \in output.events :
    /\ event.evidence_ids \subseteq allowed
    /\ event.citation_ids \subseteq CitationIds(output)
    /\ event.strong => \E e \in ToSet(items) : e.evidence_id \in event.evidence_ids /\ MayBeStrong(request, e)

(* The cases for and against differ, and each cites only what one of the   *)
(* roles it names has cited.                                               *)
CasesAreSupported(output, citedBy) ==
  /\ \A part \in {"thesis", "citation_ids", "factors"} : output.bull[part] # output.bear[part]
  /\ \A case \in {output.bull, output.bear} :
       /\ case.citation_ids # {} /\ case.factors # {}
       /\ \A i \in case.citation_ids : \E c \in output.citations :
            c.citation_id = i /\ \E role \in case.source_roles : c.evidence_id \in citedBy[role]
  /\ output.disagreement \subseteq CitationIds(output)
  /\ \A condition \in output.invalidation_conditions : condition # {} /\ condition \subseteq CitationIds(output)

(* An output is made of lists of citations and of claims that are valid as *)
(* such.                                                                   *)
IsOutput(output) ==
  /\ IsFiniteSet(output.claims) /\ IsFiniteSet(output.citations)
  /\ \A c \in output.citations : IsRecordOf(CitationFields, c)
  /\ \A claim \in output.claims : IsRecordOf(ClaimFields, claim) /\ ValidClaim(claim)

Finalizes(role, bundle, gate, citedBy, output) ==
  LET allowed == AllowedIds(role, bundle.items, UNION {citedBy[r] : r \in DOMAIN citedBy})
  IN  /\ IsOutput(output)
      /\ CitationsAgree(role, bundle.items, allowed, output)
      /\ \A claim \in output.claims : ClaimAgrees(role, claim, gate, output)
      /\ role = "intel" => EventsAreSupported(bundle.request, bundle.items, allowed, output)
      /\ role = "risk_portfolio" => GateIsPreserved(gate, output)
      /\ role = "decision" => CasesAreSupported(output, citedBy) /\ DecisionIsAllowed(gate, output)
=============================================================================
