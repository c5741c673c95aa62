----------------------------- MODULE MCResearch -----------------------------
(***************************************************************************)
(* One run at day 20 over a store that two writers change: policy results  *)
(* 2 and 3 pass, 6 revises 2 and blocks, the audit 7 is invalid, 0 says at *)
(* day 21 what 3 said forty days before, 8 is somebody's own.  The risk    *)
(* agent is shown two.  A paid model comes first, a free one second.       *)
(***************************************************************************)
EXTENDS Research

MCIsInstruction(line) == line = "instruction"

Lineage(body) == [dataset_versions |-> "d1", run_id |-> "b1", stage_id |-> "s1", artifact_hash |-> body]

Result(kind, body, status) ==
  [kind |-> kind, body |-> body, dataset_versions |-> "d1", run_id |-> "b1", stage_id |-> "s1",
   formula_versions |-> [metric_set |-> "v1", evaluator |-> "v1", auditor |-> "v1", screen_definition |-> "v1"],
   metric_set_version |-> "v1", status |-> status, values |-> [status |-> status]]

Source == [source_type |-> "wire_news", published_at |-> 12, observed_at |-> 12, available_at |-> 13,
           raw_body |-> <<"news">>]

News == [AdaptedEvidence(4, Result("factor_evaluation", "news", None), 13) EXCEPT
           !.kind = "unstructured_source", !.evaluation_scope = "market_intelligence",
           !.source_trust = Assess(Source), !.trust = Assess(Source).trust, !.formula_versions = {}]

(* What the news says, found by a search.                                  *)
Found == [News EXCEPT !.evidence_id = 5, !.content_hash = "found",
            !.source_trust = Assess([Source EXCEPT !.source_type = "search_result"]), !.trust = "medium"]

EvidenceWith(id) ==
  CASE id = 1 -> AdaptedEvidence(1, Result("factor_evaluation", "factor", None), 18)
    [] id = 2 -> AdaptedEvidence(2, Result("risk_policy_result", "passes", "pass"), 15)
    [] id = 3 -> AdaptedEvidence(3, Result("risk_policy_result", "passes too", "pass"), -20)
    [] id = 4 -> News
    [] id = 5 -> Found
    [] id = 0 -> AdaptedEvidence(0, Result("risk_policy_result", "passes too", "pass"), 21)
    [] id = 6 -> AdaptedEvidence(6, Result("risk_policy_result", "blocks", "block"), 19)
    [] id = 7 -> AdaptedEvidence(7, Result("backtest_bias_audit", "invalid", "invalid"), 19)
    [] id = 8 -> AdaptedEvidence(8, Result("risk_policy_result", "own", "not_evaluable"), 19)

Job(id, previous) ==
  [evidence |-> EvidenceWith(id), body |-> EvidenceWith(id).content_hash, previous |-> previous,
   reason |-> "correction", team |-> None, owner |-> IF id = 8 THEN "u8" ELSE None,
   access |-> CASE id = 8 -> "private" [] previous # None -> None [] OTHER -> "public"]

MCInitialRecords == {Persisted(Job(id, None), None) : id \in {0, 1, 2, 3, 4, 5, 8}}
MCJobsOf(w) == IF w = "w1" THEN <<Job(7, None)>> ELSE <<Job(6, 2)>>
MCAfter == [technical |-> {}, intel |-> {"technical"}, risk_portfolio |-> {"technical"}, decision |-> {}]
MCEvidenceTokens(e) == IF e.kind = "unstructured_source" THEN 2 ELSE 1

(* The audit 7 does not fit beside two policy results.                     *)
MCRequestOf(role) ==
  [role |-> role, instrument_id |-> None, decision_time |-> 20, scopes |-> {}, team |-> None, owner |-> None,
   max_tokens |-> 8, max_items |-> IF role = "decision" THEN 5 ELSE 2,
   kinds |-> CASE role = "technical" -> {"factor_evaluation"}
               [] role = "intel" -> {"unstructured_source"}
               [] role = "risk_portfolio" -> {"risk_policy_result", "backtest_bias_audit"}
               [] role = "decision" -> {}]

(* The default prompts, and a later draft for the risk agent.              *)
Draft == [R!DefaultPrompt("risk_portfolio") EXCEPT !.version = <<1, 1, 0>>]
Default == R!DefaultRegistry(Roles)
MCRegistry == [Default EXCEPT !.prompts = @ \cup {Draft}]

(* The deposits are evidence, and both registries came about by            *)
(* registrations; a schema may grow but not shrink within a major version. *)
ASSUME DepositsAreValid ==
  \A id \in 0..8 : ValidEvidence(EvidenceWith(id)) /\ (id \in {2, 6} => ValidScope(Job(id, None)))

(* The matrix of sources and the adapter place a kind in the same scope,   *)
(* and only formal results are in the formal one.                          *)
ASSUME ScopesAgree ==
  /\ \A kind \in DOMAIN SourceMatrix : SourceMatrix[kind] = "formal_portfolio_backtest" <=> kind \in FormalKinds
  /\ \A kind \in FormalKinds \cup {"screen_snapshot", "factor_evaluation"} : ScopeOf(kind) = SourceMatrix[kind]

(* What the adapter cites, the validator accepts, but for the metrics that *)
(* are reported without a formula of their own: the version of the metric  *)
(* set they are given is none of the evidence's.                           *)
Cited(kind, values, formulas) ==
  [Result(kind, "body", "pass") EXCEPT !.values = values, !.formula_versions = formulas, !.metric_set_version = "set"]

Adapted ==
  {Cited("screen_snapshot", [stock |-> 7, other |-> None], [screen_definition |-> "d1", screen_snapshot |-> "s1"]),
   Cited("factor_evaluation", [mean_ic |-> 1, icir |-> None, mean_turnover |-> 2, sample |-> 9],
         [metric_set |-> "m1", engine |-> "e1"]),
   Cited("risk_policy_result", [status |-> "pass", limit |-> "10%"], [policy |-> "p1", evaluator |-> "v1"]),
   Cited("backtest_bias_audit", [status |-> "invalid", limit |-> None], [policy |-> "p1", auditor |-> "a1"]),
   Cited("backtest_performance_metrics",
         [sharpe_ratio |-> 2, max_drawdown_duration_periods |-> 3, starting_equity |-> 100, tracking_error |-> None],
         [sharpe_ratio |-> "f1", max_drawdown_duration_periods |-> "f2", tracking_error |-> "f3"])}

ASSUME AdapterCitationsPass ==
  \A result \in Adapted :
    LET e == AdaptedEvidence(1, result, 18)
        report == [decision_time |-> 20, evidence |-> {e}]
        citations == AdaptedCitations(e, result)
    IN  /\ ValidEvidence(e) /\ IsManifestOf([sha256 |-> e.lineage["artifact_hash"]], result)
        /\ citations # {} /\ \A c \in citations : c.cited_value # None /\ c.citation_id # <<1, "sample">>
        /\ \A c \in citations : CitationIssues(report, c) =
             When(c.formula_version = "set", "formula_version_mismatch")
        /\ {c.citation_id : c \in {c \in citations : c.formula_version = "set"}} =
             {<<1, m>> : m \in {"starting_equity"} \cap DOMAIN result.values}

(* The lines that remain of a body are those that are no instructions, in  *)
(* their order, and no two marks are together; a source with a mark is no  *)
(* ground for a strong claim.                                              *)
ASSUME CleanedBodiesAreClean ==
  \A body \in SeqOf({"news", "more", "instruction"}, 3) :
    LET cleaned == CleanedBody(body)
        verdict == Assess([Source EXCEPT !.raw_body = body])
    IN  /\ SelectSeq(cleaned, LAMBDA line : line # Removed) = SelectSeq(body, LAMBDA line : ~IsInstruction(line))
        /\ \A i \in 1..(Len(cleaned) - 1) : <<cleaned[i], cleaned[i + 1]>> # <<Removed, Removed>>
        /\ verdict.issues = {} <=> verdict.strong_claim_allowed /\ ~verdict.corroboration_required
ASSUME RegistrationsAreLegal ==
  LET empty == [Default EXCEPT !.prompts = {}]
      first == R!RoleOutputSchema("intel")
      Changed(version, properties, required) ==
        [first EXCEPT !.version = version, !.properties = properties, !.required = required]
      more == first.properties @@ [notes |-> "strings"]
  IN  /\ \A role \in Roles : R!RegistersPrompt(empty, R!DefaultPrompt(role))
      /\ \A role \in Roles : ~R!RegistersPrompt(Default, R!DefaultPrompt(role))
      /\ \A role \in Roles : R!Resolves(MCRegistry, R!DefaultPromptForRole(MCRegistry, role), role)
      /\ R!RegistersPrompt(Default, Draft) /\ ~R!Resolves(MCRegistry, Draft, Draft.role)
      /\ ~R!RegistersPrompt(Default, [Draft EXCEPT !.policies = {}])
      /\ ~R!RegistersPrompt([Default EXCEPT !.tools = {}], Draft)
      /\ R!RegistersTool([Default EXCEPT !.tools = {}], R!BundleReader) /\ ~R!RegistersTool(Default, R!BundleReader)
      /\ ~R!RegistersTool([Default EXCEPT !.tools = {}], [R!BundleReader EXCEPT !.scopes = {"shell"}])
      /\ R!RegistersModel([Default EXCEPT !.models = {}], R!JsonModel)
      /\ \A s \in {R!RoleOutputSchema(role) : role \in Roles} : R!RegistersSchema(Default.schemas \ {s}, s)
      /\ R!RegistersSchema({first}, Changed(<<1, 1, 0>>, more, first.required))
      /\ ~R!RegistersSchema({first}, Changed(<<1, 1, 0>>, more, <<"claims", "citations", "notes">>))
      /\ ~R!RegistersSchema({first}, Changed(<<1, 1, 0>>, [claims |-> "objects", citations |-> "objects"], first.required))
      /\ R!RegistersSchema({first}, Changed(<<2, 0, 0>>, [notes |-> "strings"], <<"notes">>))

Route(id, priority, perMinute) ==
  [route_id |-> id, priority |-> priority, model |-> id, supports_json_schema |-> TRUE,
   max_output_tokens |-> 1000, max_context_tokens |-> 3000, max_calls_per_minute |-> perMinute]
MCRoutes == {Route(1, 1, 3), Route(2, 2, 9)}
MCPrices == {[model |-> 1, version |-> <<1, 0, 0>>, input |-> 9, output |-> 9],
             [model |-> 1, version |-> <<1, 1, 0>>, input |-> 1, output |-> 1],
             [model |-> 2, version |-> <<1, 0, 0>>, input |-> 0, output |-> 0]}
ASSUME PricesAreKnown == R!ValidPrices(MCPrices, MCRoutes)
MCPolicy == [invocation |-> 2, run |-> 4, daily |-> 9]

(***************************************************************************)
(* What a model may answer: a claim about the first item it is shown, a    *)
(* softer or a harder gate, advice to buy or, of a claim that is but       *)
(* partly sure, not to.                                                    *)
(***************************************************************************)
NoCase == [thesis |-> None, factors |-> {}, citation_ids |-> {}, source_roles |-> {}]
Silent == [citations |-> {}, claims |-> {}, events |-> {}, gate_status |-> "pass",
           recommendation |-> "hold", ranking_eligible |-> FALSE, confidence_level |-> "low",
           bull |-> NoCase, bear |-> NoCase, disagreement |-> {}, invalidation_conditions |-> {}]

Claim(role, kind, e, value) ==
  [claim_id |-> <<role, e.evidence_id>>, kind |-> kind, citation_ids |-> {<<role, e.evidence_id>>},
   value |-> value, unit |-> "ratio", formula_version |-> "v1", lineage |-> e.lineage,
   computation_policy |-> "deterministic_evidence", verification_status |-> "verified",
   warnings |-> {}]

Cite(role, e) == CitationOf(<<role, e.evidence_id>>, e, 1, "ratio", "v1")

About(role, kind, e) == [Silent EXCEPT !.citations = {Cite(role, e)}, !.claims = {Claim(role, kind, e, 1)}]

DecisionOf(items, advice, ranked) ==
  LET risky == {e \in ToSet(items) : e.kind = "risk_policy_result"}
      e == CHOOSE e \in risky : \A d \in risky : e.available_at >= d.available_at
      f == CHOOSE f \in ToSet(items) : f.kind = "factor_evaluation"
  IN  [Silent EXCEPT !.citations = {Cite("decision", e), Cite("decision", f)},
         !.claims = {[Claim("decision", "narrative", f, 1) EXCEPT
                        !.verification_status = IF ranked THEN "verified" ELSE "partial"]},
         !.bull = [thesis |-> "rises", factors |-> {"value"}, citation_ids |-> {<<"decision", f.evidence_id>>},
                   source_roles |-> {"technical"}],
         !.bear = [thesis |-> "falls", factors |-> {"risk"}, citation_ids |-> {<<"decision", e.evidence_id>>},
                   source_roles |-> {"risk_portfolio"}],
         !.disagreement = {<<"decision", e.evidence_id>>},
         !.invalidation_conditions = {{<<"decision", e.evidence_id>>}},
         !.recommendation = advice, !.ranking_eligible = ranked]

MCAnswers(role, items, gate) ==
  IF items = <<>> THEN {Silent}
  ELSE CASE role = "technical" -> LET found == About(role, "numeric_metric", Head(items))
                                  IN  {found, [found EXCEPT !.citations = {}]}
         [] role = "intel" -> {[About(role, "narrative", e) EXCEPT
                                  !.events = {[evidence_ids |-> {e.evidence_id}, strong |-> TRUE,
                                               citation_ids |-> {<<role, e.evidence_id>>}]}] : e \in ToSet(items)}
         [] role = "risk_portfolio" -> {[About(role, "narrative", Head(items)) EXCEPT !.gate_status = s] :
                                          s \in {"pass", "block"}}
         [] role = "decision" ->
              {DecisionOf(items, advice, advice = "buy") : advice \in {"buy", "blocked"}}

(* The golden catalog has a case of each category, the offline stub passes *)
(* it, and a prediction missing or citing something else is a regression.  *)
GoldenCases ==
  {GoldenCase(category, category, {category}, {<<"cl", category>>}) : category \in DOMAIN CategoryChecks}
StubPredictions == {StubPrediction(case, EvidenceWith(1), case.case_id) : case \in GoldenCases}

ASSUME OfflineStubPasses ==
  LET stub == Score(GoldenCases, StubPredictions)
      worse == {Score(GoldenCases, StubPredictions \ {p}) : p \in StubPredictions}
                 \cup {Score(GoldenCases, (StubPredictions \ {p}) \cup {[p EXCEPT !.citations = {}]}) :
                        p \in StubPredictions}
  IN  /\ Scorable(GoldenCases, StubPredictions)
      /\ MetricsPassed(stub.metrics) /\ ComparisonPassed(stub, stub)
      /\ \A category \in DOMAIN CategoryChecks : CategoryBreakdown(stub.results)[category].passed
      /\ \A w \in worse : ~MetricsPassed(w.metrics) /\ ~ComparisonPassed(stub, w) /\ ComparisonPassed(w, stub)
=============================================================================
