------------------------------ MODULE Evidence ------------------------------
(***************************************************************************)
(* Evidence, citations, claims and reports (evidence/schema.py), what the  *)
(* adapter makes of a quantitative result (evidence/quant_adapter.py), the *)
(* trust given to a source (evidence/source_trust.py) and the citation     *)
(* validator (evidence/citation_validator.py).                             *)
(*                                                                         *)
(* The lineage of a piece of evidence, of a citation and of a claim is a   *)
(* record of four fields, None where the code has None.  Times are         *)
(* numbers; a hash is the content it is the hash of.                       *)
(***************************************************************************)
EXTENDS Integers, SequencesExt

CONSTANTS
  None,
  IsInstruction(_),        \* a line that speaks to the model or a tool
  Removed                  \* the mark left in its place

LineageFields == {"dataset_versions", "run_id", "stage_id", "artifact_hash"}

FormalKinds == {"backtest_run_summary", "backtest_artifact_bundle", "risk_policy_result",
                "backtest_bias_audit", "backtest_performance_metrics", "formal_backtest_api_record"}

(* Where evidence of a kind comes from; unstructured sources are no part.  *)
SourceMatrix ==
  [k \in {"historical_universe", "factor_cache_manifest"} |-> "dataset_lineage"] @@
  [k \in {"factor_evaluation"} |-> "factor_evaluation"] @@
  [k \in {"screen_pipeline_snapshot", "screen_snapshot"} |-> "screening"] @@
  [k \in {"quant_screening_api_record"} |-> "api_lineage"] @@
  [k \in FormalKinds |-> "formal_portfolio_backtest"] @@
  [k \in {"quant_lab_lineage"} |-> "ui_lineage"]

ValidEvidence(e) ==
  /\ e.evaluation_scope = "formal_portfolio_backtest" => e.kind \in FormalKinds
  /\ e.lineage["dataset_versions"] # None
  /\ e.artifact_id # None => e.lineage["artifact_hash"] # None

CitationFields ==
  {"citation_id", "evidence_id", "cited_value", "unit", "formula_version", "lineage"}
ClaimFields ==
  {"claim_id", "kind", "citation_ids", "value", "unit", "formula_version", "lineage",
   "computation_policy", "verification_status", "warnings"}

IsRecordOf(fields, r) == r = [f \in fields |-> r[f]]

ValidClaim(claim) ==
  /\ claim.verification_status = "verified" => claim.citation_ids # {}
  /\ claim.kind = "numeric_metric" =>
       /\ claim.citation_ids # {} /\ claim.unit # None /\ claim.formula_version # None
       /\ claim.computation_policy # "llm_narrative"

When(condition, code) == IF condition THEN {code} ELSE {}

(* Ids are unique in the three parts of a report.                          *)
Unique(records, id(_)) == \A a, b \in records : id(a) = id(b) => a = b

ValidReport(report) ==
  /\ Unique(report.evidence, LAMBDA e : e.evidence_id)
  /\ Unique(report.citations, LAMBDA c : c.citation_id)
  /\ Unique(report.claims, LAMBDA c : c.claim_id)
  /\ \A e \in report.evidence : e.available_at <= report.decision_time
  /\ \A c \in report.citations : \E e \in report.evidence : e.evidence_id = c.evidence_id
  /\ \A claim \in report.claims :
       /\ ValidClaim(claim)
       /\ \A i \in claim.citation_ids : \E c \in report.citations : c.citation_id = i
  /\ report.report_level = "verified" =>
       /\ report.claims # {}
       /\ \A claim \in report.claims : claim.verification_status = "verified"

(***************************************************************************)
(* A quantitative result becomes evidence of the highest trust that the    *)
(* model may not compute again, with one citation per metric that has a    *)
(* value, carrying the hash of the result's artifact.  A result has its    *)
(* metrics in `values`, the versions of its formulas by name, and the      *)
(* version of its metric set.  What the gates read is copied from it.      *)
(***************************************************************************)
IsManifestOf(manifest, result) == manifest # None /\ manifest.sha256 = result.body

ScopeOf(kind) ==
  CASE kind = "screen_snapshot" -> "screening"
    [] kind = "factor_evaluation" -> "factor_evaluation"
    [] kind \in FormalKinds -> "formal_portfolio_backtest"

(* What the risk and audit agents find in the metadata of the evidence.    *)
GateFields(result) ==
  LET audit == result.kind = "backtest_bias_audit"
      ranked == IF audit THEN result.status # "invalid" ELSE None
  IN  [risk_status |-> IF result.kind = "risk_policy_result" THEN result.status ELSE None,
       audit_status |-> IF audit THEN result.status ELSE None, not_evaluable_rules |-> FALSE,
       eligible_for_ranking |-> ranked, agent_strong_conclusion_allowed |-> ranked]

AdaptedEvidence(id, result, available) ==
  GateFields(result) @@
    [evidence_id |-> id, kind |-> result.kind, evaluation_scope |-> ScopeOf(result.kind),
     available_at |-> available, trust |-> "authoritative", instrument_id |-> None,
     content_hash |-> result.body, artifact_id |-> result.body,
     lineage |-> [dataset_versions |-> result.dataset_versions, run_id |-> result.run_id,
                  stage_id |-> result.stage_id, artifact_hash |-> result.body],
     formula_versions |-> Range(result.formula_versions),
     llm_recompute_allowed |-> FALSE, source_trust |-> None]

(* A citation of evidence e with the lineage e has.                        *)
CitationOf(id, e, value, unit, formula) ==
  [citation_id |-> id, evidence_id |-> e.evidence_id, cited_value |-> value, unit |-> unit,
   formula_version |-> formula, lineage |-> e.lineage]

(* The metrics of a factor evaluation that are cited, with their units.    *)
FactorUnits ==
  [mean_ic |-> "correlation", icir |-> "ratio", long_short_mean_return |-> "ratio",
   direction_adjusted_score |-> "score", mean_turnover |-> "ratio"]

MetricUnit(metric) == IF metric = "max_drawdown_duration_periods" THEN "period" ELSE "ratio"

UnitOf(kind, metric) ==
  CASE kind = "screen_snapshot" -> "score"
    [] kind = "factor_evaluation" -> FactorUnits[metric]
    [] kind = "backtest_performance_metrics" -> MetricUnit(metric)
    [] kind \in {"risk_policy_result", "backtest_bias_audit"} ->
         IF metric = "status" THEN None ELSE "ratio"

(* A policy and an audit cite the program that ruled, not the policy.      *)
CitedFormula ==
  [screen_snapshot |-> "screen_definition", factor_evaluation |-> "metric_set",
   risk_policy_result |-> "evaluator", backtest_bias_audit |-> "auditor"]

(* A metric that has no formula of its own is given the metric set's.      *)
MetricFormula(result, metric) ==
  IF metric \in DOMAIN result.formula_versions THEN result.formula_versions[metric]
  ELSE result.metric_set_version

FormulaOf(result, metric) ==
  IF result.kind = "backtest_performance_metrics" THEN MetricFormula(result, metric)
  ELSE result.formula_versions[CitedFormula[result.kind]]

HasValue(result, metric) == result.values[metric] # None

AdaptedCitations(e, result) ==
  LET metrics == IF result.kind = "factor_evaluation" THEN DOMAIN result.values \cap DOMAIN FactorUnits
                 ELSE DOMAIN result.values
  IN  {CitationOf(<<e.evidence_id, m>>, e, result.values[m], UnitOf(result.kind, m), FormulaOf(result, m)) :
         m \in {m \in metrics : HasValue(result, m)}}

(***************************************************************************)
(* Trust in an unstructured source.                                        *)
(***************************************************************************)
TrustBySourceType ==
  [official_disclosure |-> "authoritative", regulatory_filing |-> "authoritative",
   company_announcement |-> "high", wire_news |-> "high", news |-> "medium",
   search_result |-> "medium", social_post |-> "low", unknown |-> "untrusted"]

TimeConflict(source) ==
  \/ source.observed_at < source.published_at
  \/ source.available_at < source.published_at
  \/ source.available_at < source.observed_at

(* Of the lines of a body that read as instructions to a model or a tool,  *)
(* each run is replaced by one mark.                                       *)
CleanedBody(lines) ==
  FoldLeft(LAMBDA cleaned, line :
             IF ~IsInstruction(line) THEN Append(cleaned, line)
             ELSE IF cleaned # <<>> /\ Last(cleaned) = Removed THEN cleaned
             ELSE Append(cleaned, Removed),
           <<>>, lines)

IsMalicious(source) == \E i \in DOMAIN source.raw_body : IsInstruction(source.raw_body[i])

IsLowTrustType(source) == source.source_type \in {"social_post", "unknown"}

TrustIssues(source) ==
  When(IsMalicious(source), "external_instruction_removed")
    \cup When(TimeConflict(source), "time_conflict")
    \cup When(IsLowTrustType(source), "low_trust_requires_corroboration")

(* The verdict as prompts and stored evidence carry it.                    *)
Assess(source) ==
  LET trust == TrustBySourceType[source.source_type]
      low == trust \in {"low", "untrusted"}
      doubtful == IsMalicious(source) \/ TimeConflict(source)
  IN  [trust |-> trust, published_at |-> source.published_at, available_at |-> source.available_at,
       cleaned_body |-> CleanedBody(source.raw_body), malicious |-> IsMalicious(source),
       issues |-> TrustIssues(source), strong_claim_allowed |-> ~low /\ ~doubtful,
       corroboration_required |-> low \/ doubtful \/ source.source_type = "search_result"]

(***************************************************************************)
(* The citation validator.  A citation is compared with its evidence, a    *)
(* claim with each of its citations, and a claim takes over the issues of  *)
(* the citations it names.                                                 *)
(***************************************************************************)
IssueOf == [dataset_versions |-> "dataset_version_mismatch", run_id |-> "run_id_mismatch",
            stage_id |-> "stage_id_mismatch", artifact_hash |-> "artifact_hash_mismatch"]

(* The fields that are held and carried otherwise.                         *)
Departures(carried, held) == {f \in LineageFields : held[f] # None /\ carried[f] # held[f]}

FormulaIsForeign(citation, e) ==
  citation.formula_version # None /\ e.formula_versions # {}
    /\ citation.formula_version \notin e.formula_versions

CitationIssues(report, citation) ==
  LET cited == {e \in report.evidence : e.evidence_id = citation.evidence_id}
  IN  When(cited = {}, "unknown_evidence") \cup
      UNION {When(e.available_at > report.decision_time, "evidence_after_decision")
               \cup {IssueOf[f] : f \in Departures(citation.lineage, e.lineage)}
               \cup When(FormulaIsForeign(citation, e), "formula_version_mismatch") : e \in cited}

SharedLineageIssues(claim, citation) ==
  {IssueOf[f] : f \in Departures(claim.lineage, citation.lineage)}
    \cup When(claim.lineage["dataset_versions"] # citation.lineage["dataset_versions"],
              "dataset_version_mismatch")

NumericIssues(claim, citation) ==
  When(claim.computation_policy # "deterministic_evidence", "invalid_computation_policy")
    \cup When(citation.unit = None \/ claim.unit # citation.unit, "unit_mismatch")
    \cup When(citation.formula_version = None \/ claim.formula_version # citation.formula_version,
              "formula_version_mismatch")
    \cup When(claim.value # citation.cited_value, "value_mismatch")

NarrativeIssues(claim, citation) ==
  When(claim.kind \in {"risk_gate", "lineage_fact"} /\ claim.computation_policy = "llm_narrative",
       "invalid_computation_policy")
    \cup When(claim.value # None /\ citation.cited_value # None /\ claim.value # citation.cited_value,
              "value_mismatch")

ClaimCitationIssues(claim, citation) ==
  SharedLineageIssues(claim, citation) \cup
    (IF claim.kind = "numeric_metric" THEN NumericIssues(claim, citation)
                                      ELSE NarrativeIssues(claim, citation))

MandatoryCitationKinds == {"numeric_metric", "temporal_fact", "risk_gate", "lineage_fact"}

(* Mutant: a claim answers only for itself, not for its citations. *)
OwnIssues(report, claim) ==
  IF claim.kind \in MandatoryCitationKinds /\ claim.citation_ids = {} THEN {"missing_citation"}
  ELSE UNION {LET named == {c \in report.citations : c.citation_id = i}
              IN  When(named = {}, "unknown_citation") \cup
                  UNION {ClaimCitationIssues(claim, c) : c \in named} : i \in claim.citation_ids}

ClaimIssues(report, claim) ==
  IF claim.kind \in MandatoryCitationKinds /\ claim.citation_ids = {} THEN {"missing_citation"}
  ELSE UNION {LET named == {c \in report.citations : c.citation_id = i}
              IN  When(named = {}, "unknown_citation") \cup
                  UNION {CitationIssues(report, c) \cup ClaimCitationIssues(claim, c) : c \in named}
                : i \in claim.citation_ids}

StatusForIssues(codes) ==
  CASE codes \cap {"missing_citation", "unknown_citation"} # {} -> "citation_missing"
    [] codes \cap {"missing_citation", "unknown_citation"} = {}
         /\ codes \cap {"unknown_evidence", "evidence_after_decision"} # {} -> "insufficient_evidence"
    [] codes \cap {"missing_citation", "unknown_citation", "unknown_evidence",
                   "evidence_after_decision"} = {} ->
         IF "invalid_computation_policy" \in codes THEN "rejected" ELSE "value_mismatch"

Failing(report) == {claim \in report.claims : ClaimIssues(report, claim) # {}}

(* The issues of the claims and, under no claim, those of the citations.   *)
ReportIssues(report) ==
  UNION {{[code |-> code, claim_id |-> claim.claim_id] : code \in ClaimIssues(report, claim)} :
           claim \in report.claims} \cup
  UNION {{[code |-> code, claim_id |-> None] : code \in CitationIssues(report, c)} : c \in report.citations}

HasIssues(report) == ReportIssues(report) # {}

Downgraded(report, claim) ==
  LET codes == ClaimIssues(report, claim)
  IN  [claim_id |-> claim.claim_id, kind |-> claim.kind, citation_ids |-> claim.citation_ids,
       value |-> claim.value, unit |-> claim.unit, formula_version |-> claim.formula_version,
       lineage |-> claim.lineage, computation_policy |-> claim.computation_policy,
       verification_status |-> StatusForIssues(codes), warnings |-> claim.warnings \cup codes]

ReportLevel(claims, hasIssues) ==
  CASE claims = {} -> "insufficient_evidence"
    [] claims # {} /\ ~hasIssues /\ \A c \in claims : c.verification_status = "verified" -> "verified"
    [] OTHER -> "partial"

ResultOf(report, claims, removed, repaired) ==
  LET level == ReportLevel(claims, HasIssues(report))
  IN  [report_level |-> level, repair_attempted |-> repaired, issues |-> ReportIssues(report),
       validated_report |-> [report EXCEPT !.claims = claims, !.report_level = level],
       failed_claims |-> {Downgraded(report, c) : c \in Failing(report)}, removed |-> removed]

(* Failing claims stay, with the status of their issues.                   *)
Validate(report) ==
  ResultOf(report, (report.claims \ Failing(report)) \cup {Downgraded(report, c) : c \in Failing(report)},
           {}, FALSE)

(* After the one repair attempt, failing claims go.                        *)
ValidateWithRepair(report, repair) ==
  IF ~HasIssues(report) \/ repair = None THEN Validate(report)
  ELSE ResultOf(repair, repair.claims \ Failing(repair), Failing(repair), TRUE)

(***************************************************************************)
(* The report that is shown: the canonical record, of which the Markdown   *)
(* and the HTML are made.  The HTML has neither the warnings of the claims *)
(* nor what an issue is about.                                             *)
(***************************************************************************)
CanonicalRecord(result) ==
  LET report == result.validated_report
  IN  [report_level |-> result.report_level, report |-> report, issues |-> result.issues,
       repair_attempted |-> result.repair_attempted, failed_claims |-> result.failed_claims,
       removed_claim_ids |-> {c.claim_id : c \in result.removed},
       summary |-> [claims |-> Cardinality(report.claims),
                    verified |-> Cardinality({c \in report.claims : c.verification_status = "verified"}),
                    citations |-> Cardinality(report.citations), evidence |-> Cardinality(report.evidence)]]

ShownCitations(report) == {<<c.citation_id, c.evidence_id>> : c \in report.citations}
ShownEvidence(report) == {<<e.evidence_id, e.trust, e.available_at>> : e \in report.evidence}

Markdown(record) ==
  [report_level |-> record.report_level,
   claims |-> {[claim_id |-> c.claim_id, status |-> c.verification_status, citation_ids |-> c.citation_ids,
                warnings |-> c.warnings] : c \in record.report.claims},
   citations |-> ShownCitations(record.report), evidence |-> ShownEvidence(record.report),
   issues |-> record.issues]

Html(record) ==
  [report_level |-> record.report_level,
   claims |-> {[claim_id |-> c.claim_id, status |-> c.verification_status, citation_ids |-> c.citation_ids] :
                 c \in record.report.claims},
   citations |-> ShownCitations(record.report), evidence |-> ShownEvidence(record.report),
   issues |-> {i.code : i \in record.issues}]
=============================================================================
