------------------------------ MODULE Research ------------------------------
(***************************************************************************)
(* A research run over a shared evidence store.  Writers deposit and       *)
(* revise evidence, file by file (repositories/evidence_store.py), while   *)
(* the four stages of the run build their bundle, are bound to a prompt,   *)
(* planned, answered by a model and checked, the decision after the three  *)
(* others; the report made of their outputs is validated and rendered      *)
(* (evidence/report_renderer.py).                                          *)
(*                                                                         *)
(* The run itself is the caller's: the repository has the steps and the    *)
(* order their inputs impose, not the loop.                                *)
(***************************************************************************)
EXTENDS AgentEvaluation

CONSTANTS
  Writers,                 \* the processes that deposit evidence
  JobsOf(_),               \* the puts and revisions of a writer, in its order
  InitialRecords,          \* what the store holds before
  RequestOf(_),            \* the bundle request of a role
  After,                   \* the roles the caller has finished before a role
  Registry,                \* the prompts, one perhaps a draft
  Prices, Routes, Policy,  \* the models and the budgets
  PromptTokens, OutputTokens,
  Answers(_, _, _),        \* what a model may answer to a role
  NoRoute,
  Mortal,                  \* Bound: the writers that die
  MaxCrashes,              \* Bound: deaths of writers
  Lossy,                   \* Bound: the roles whose answers are lost
  MaxLost,                 \* Bound: answers paid for and lost
  MaxMinutes               \* Bound: resets of the rates

R == INSTANCE ModelRouting

(* What a ModelInvocationPlanner is made of: routes with one id each, and  *)
(* for each a price, none of them negative.                                *)
ASSUME RoutesArePriced ==
  /\ IsFiniteSet(Routes) /\ Routes # {} /\ NoRoute \notin Routes
  /\ \A r \in Routes : r.priority \in Int /\ r.route_id \in Int
  /\ \A r, s \in Routes : r.route_id = s.route_id => r = s
  /\ IsFiniteSet(Prices) /\ R!ValidPrices(Prices, Routes)
  /\ \A p \in Prices : p.version \in Nat \X Nat \X Nat /\ p.input \in Nat /\ p.output \in Nat

ASSUME StoreIsFinite == IsFiniteSet(InitialRecords)

ASSUME BudgetsAreNatural ==
  /\ Policy.invocation \in Nat /\ Policy.run \in Nat /\ Policy.daily \in Nat
  /\ PromptTokens \in Nat /\ OutputTokens \in Nat

VARIABLES
  records,        \* the persisted evidence
  bodies,         \* the bodies in the artifact store
  revisions,      \* the revision files
  writer,         \* what each writer has left to do
  stage,          \* the stages of the run
  registry,       \* the prompt registry
  spent,          \* what the run has paid
  calls,          \* the calls of this minute by route
  receipts,       \* the answers kept
  rendered,       \* the report, once rendered
  crashes, lost, minutes

vars == <<records, bodies, revisions, writer, stage, registry, spent, calls, receipts, rendered,
          crashes, lost, minutes>>
storeVars == <<records, bodies, revisions, writer, crashes>>
runVars == <<stage, registry, spent, calls, receipts, rendered, lost, minutes>>

EmptyStage == [status |-> "waiting", bundle |-> None, binding |-> None, plan |-> None,
               gate |-> None, output |-> None, basis |-> None, attempt |-> 1]

Init ==
  /\ records = InitialRecords /\ bodies = {p.body : p \in InitialRecords} /\ revisions = {}
  /\ writer = [w \in Writers |-> [left |-> JobsOf(w), steps |-> <<>>, attempt |-> 1, made |-> None]]
  /\ stage = [role \in Roles |-> EmptyStage]
  /\ registry = Registry /\ spent = 0 /\ calls = [id \in {r.route_id : r \in Routes} |-> 0]
  /\ receipts = {} /\ rendered = None /\ crashes = 0 /\ lost = 0 /\ minutes = 0

(***************************************************************************)
(* The store.  A put writes the body, looks for the record, and, in        *)
(* another step, writes it; a revision needs the previous record and is written last.    *)
(***************************************************************************)
Find(id) == {p \in records : p.evidence.evidence_id = id}

IsVisible(p, request) ==
  \/ p.access = "public"
  \/ p.team \in {None, request.team} /\ (p.access = "private" => p.owner = request.owner)

GetEvidence(id, request) == {p \in Find(id) : IsVisible(p, request)}

FindEvidence(request) == {p.evidence : p \in {p \in records : IsVisible(p, request)}}

ValidScope(job) ==
  /\ job.access = "private" => job.owner # None
  /\ job.access = "team" => job.team # None

(* The record a job makes: the hashes are those of the body as stored.     *)
Persisted(job, created) ==
  [evidence |-> [job.evidence EXCEPT !.content_hash = job.body, !.artifact_id = job.body,
                                     !.lineage["artifact_hash"] = job.body],
   body |-> job.body, access |-> job.access, team |-> job.team, owner |-> job.owner, created_at |-> created]

(* Two records are the same but for the time they were made.               *)
SameImmutableIdentity(p, q) == [p EXCEPT !.created_at = None] = [q EXCEPT !.created_at = None]

Or(value, default) == IF value = None THEN default ELSE value

(* What a revision leaves open it takes from the record it replaces.       *)
Inherited(job, previous) ==
  [job EXCEPT !.access = Or(@, previous.access), !.team = Or(@, previous.team), !.owner = Or(@, previous.owner)]

StepsOf(job) == IF job.previous = None THEN <<"record">> ELSE <<"record", "revision">>

CreatedAt(w) == <<w, writer[w].attempt>>

(* The job as it is carried out, if the record it revises can be read.     *)
Resolved(job) ==
  IF job.previous = None THEN {job} ELSE {Inherited(job, p) : p \in GetEvidence(job.previous, job)}

Accepted(job) == {j \in Resolved(job) : ValidScope(j)}

(* The body is written, which nobody looks at before the record; then the  *)
(* same record is found under its id, or another, or none.                 *)
Begin(w) ==
  /\ writer[w].steps = <<>> /\ writer[w].left # <<>>
  /\ LET job == Head(writer[w].left)
         made == {Persisted(j, CreatedAt(w)) : j \in Accepted(job)}
         there == Find(job.evidence.evidence_id)
         refused == made = {} \/ \E p \in there, q \in made : ~SameImmutableIdentity(p, q)
         steps == IF there = {} THEN StepsOf(job) ELSE SelectSeq(StepsOf(job), LAMBDA s : s # "record")
         idle == refused \/ steps = <<>>
     IN  /\ writer' = [writer EXCEPT ![w].steps = IF idle THEN <<>> ELSE steps,
                                     ![w].made = IF idle THEN None ELSE CHOOSE p \in made : TRUE,
                                     ![w].left = IF idle THEN Tail(@) ELSE @]
         /\ bodies' = bodies \cup {p.body : p \in made}
  /\ UNCHANGED <<records, revisions, crashes, runVars>>

NextStepIs(w, step) == writer[w].steps # <<>> /\ Head(writer[w].steps) = step

(* A file is replaced by another at once; a reader sees one of the two.    *)
Replaced(files, old, new) == (files \ old) \cup {new}

(* The writer w goes on, or has finished its job.                          *)
Advanced(w) ==
  LET last == Len(writer[w].steps) = 1
  IN  [writer EXCEPT ![w].steps = Tail(@), ![w].left = IF last THEN Tail(@) ELSE @,
                     ![w].made = IF last THEN None ELSE @]

WriteRecord(w) ==
  /\ NextStepIs(w, "record")
  /\ LET made == writer[w].made
     IN  records' = Replaced(records, Find(made.evidence.evidence_id), made)
  /\ writer' = Advanced(w)
  /\ UNCHANGED <<bodies, revisions, crashes, runVars>>

(* A revision is known by its contents, its time of creation included.     *)
RevisionOf(job, created) ==
  [previous |-> job.previous, replacement |-> job.evidence.evidence_id, reason |-> job.reason,
   created_at |-> created]

WriteRevision(w) ==
  /\ NextStepIs(w, "revision")
  /\ revisions' = Replaced(revisions, {}, RevisionOf(Head(writer[w].left), CreatedAt(w)))
  /\ writer' = Advanced(w)
  /\ UNCHANGED <<records, bodies, crashes, runVars>>

(* The writer starts its job again, at another time.                       *)
Crash(w) ==
  /\ writer[w].steps # <<>> /\ w \in Mortal /\ crashes < MaxCrashes
  /\ writer' = [writer EXCEPT ![w].steps = <<>>, ![w].made = None, ![w].attempt = @ + 1]
  /\ crashes' = crashes + 1
  /\ UNCHANGED <<records, bodies, revisions, runVars>>

(***************************************************************************)
(* The stages.                                                             *)
(***************************************************************************)
Done(role) == stage[role].status = "done"

CitedBy == [role \in {r \in Roles \ {"decision"} : Done(r)} |->
              {c.evidence_id : c \in stage[role].output.citations}]

(* The decision is given the three results, and the gate of the risk one.  *)
GateFor(role, items) ==
  IF role = "decision" THEN stage["risk_portfolio"].gate ELSE HardGate(items)

RequestFor(bundle, binding) ==
  [bundle |-> bundle, binding |-> binding, prompt_tokens |-> PromptTokens,
   max_output_tokens |-> OutputTokens, json_schema |-> TRUE]

PlanFor(bundle, binding) ==
  R!Plan(Prices, Routes, RequestFor(bundle, binding), Policy,
         [run_spent |-> spent, daily_spent |-> spent, recent_calls |-> calls], receipts)

(* The stage as it is once its prompt is made and its call planned.  A     *)
(* budget or a bundle the role refuses, a prompt that cannot be resolved   *)
(* or a plan without a route ends the stage.                               *)
Prepared(role, binding) ==
  LET bundle == Build(RequestOf(role), FindEvidence(RequestOf(role)))
      ok == Fits(RequestOf(role)) /\ PreparesPrompt(role, bundle.items)
      plan == PlanFor(bundle, binding)
  IN  [status |-> IF ~ok THEN "failed" ELSE IF plan.route = NoRoute THEN "stopped" ELSE "called",
       bundle |-> bundle, binding |-> binding,
       plan |-> IF ok THEN [route |-> plan.route, cost |-> plan.cost, kept |-> {r.answer : r \in plan.receipts}]
                ELSE None,
       gate |-> IF ok THEN GateFor(role, bundle.items) ELSE None,
       output |-> None, basis |-> None, attempt |-> stage[role].attempt]

(* A stage started again keeps its binding or resolves another.            *)
Prepare(role) ==
  /\ stage[role].status = "waiting"
  /\ \A r \in After[role] : Done(r)
  /\ role = "decision" => \A r \in Roles \ {"decision"} : Done(r)
  /\ \E binding \in {R!Binding(registry, role, "run", role, stage[role].attempt)}
                      \cup ({stage[role].binding} \ {None}) :
       stage' = [stage EXCEPT ![role] = Prepared(role, binding)]
  /\ UNCHANGED <<registry, spent, calls, receipts, rendered, lost, minutes, storeVars>>

(* The answer of stage s to the basis it was asked with is checked.        *)
Checked(role, answer) ==
  LET s == stage[role]
  IN  [s EXCEPT !.status = IF Finalizes(role, s.bundle, s.gate, CitedBy, answer.output)
                           THEN "done" ELSE "failed",
                !.output = answer.output, !.basis = answer.basis]

KeyOf(role) ==
  R!CacheKey(RequestFor(stage[role].bundle, stage[role].binding), stage[role].plan.route,
             R!PriceFor(Prices, stage[role].plan.route))

CandidateAnswers(role) ==
  {[basis |-> stage[role].bundle.items, output |-> o] :
     o \in Answers(role, stage[role].bundle.items, stage[role].gate)}

(* The model answers: the call is counted and paid, its receipt kept.      *)
Paid(role, answer) ==
  /\ stage[role].status = "called" /\ stage[role].plan.kept = {}
  /\ spent' = spent + stage[role].plan.cost
  /\ calls' = [calls EXCEPT ![stage[role].plan.route.route_id] = @ + 1]
  /\ receipts' = receipts \cup {[key |-> KeyOf(role), answer |-> answer]}

Answer(role) ==
  /\ stage[role].status = "called"
  /\ \E answer \in CandidateAnswers(role) :
       Paid(role, answer) /\ stage' = [stage EXCEPT ![role] = Checked(role, answer)]
  /\ UNCHANGED <<registry, rendered, lost, minutes, storeVars>>

(* The caller dies with the receipt kept and the output not checked.       *)
AnswerLost(role) ==
  /\ stage[role].status = "called" /\ role \in Lossy /\ lost < MaxLost
  /\ \E answer \in CandidateAnswers(role) : Paid(role, answer)
  /\ stage' = [stage EXCEPT ![role] =
                 [EmptyStage EXCEPT !.binding = stage[role].binding, !.attempt = stage[role].attempt + 1]]
  /\ lost' = lost + 1
  /\ UNCHANGED <<registry, rendered, minutes, storeVars>>

AnswerFromCache(role) ==
  /\ stage[role].status = "called"
  /\ \E answer \in stage[role].plan.kept : stage' = [stage EXCEPT ![role] = Checked(role, answer)]
  /\ UNCHANGED <<registry, spent, calls, receipts, rendered, lost, minutes, storeVars>>

(* Looked at when a stage is about to be started again.                    *)
PublishPrompt ==
  /\ \E role \in Roles : stage[role].status = "waiting" /\ stage[role].attempt > 1
  /\ \E p \in registry.prompts : ~p.published /\ R!ReferencesHold(registry, p) /\ registry' = R!PublishedIn(registry, p)
  /\ UNCHANGED <<stage, spent, calls, receipts, rendered, lost, minutes, storeVars>>

(* The calls leave the window; only a route at its limit tells.            *)
MinutePasses ==
  /\ minutes < MaxMinutes /\ minutes' = minutes + 1
  /\ \E r \in Routes : calls[r.route_id] >= r.max_calls_per_minute
  /\ calls' = [id \in DOMAIN calls |-> 0]
  /\ UNCHANGED <<stage, registry, spent, receipts, rendered, lost, storeVars>>

(***************************************************************************)
(* The report.                                                             *)
(***************************************************************************)
Assembled ==
  [decision_time |-> RequestOf("decision").decision_time,
   evidence |-> UNION {ToSet(stage[role].bundle.items) : role \in Roles},
   citations |-> UNION {stage[role].output.citations : role \in Roles},
   claims |-> UNION {stage[role].output.claims : role \in Roles},
   report_level |-> "partial"]

(* The same with the run of one citation, and of the claims that name it,  *)
(* told otherwise.                                                         *)
Relabelled(report, citation) ==
  [report EXCEPT
     !.citations = (@ \ {citation}) \cup {[citation EXCEPT !.lineage["run_id"] = "other"]},
     !.claims = {IF citation.citation_id \in claim.citation_ids
                 THEN [claim EXCEPT !.lineage["run_id"] = "other"] ELSE claim : claim \in @}]

Drafts ==
  {Assembled} \cup {Relabelled(Assembled, c) : c \in stage["technical"].output.citations}

(* Validated with or without a repair, and rendered with the result or,    *)
(* without it, from the report it left, validated again.                   *)
Render ==
  /\ Done("decision") /\ rendered = None
  /\ \E draft \in {d \in Drafts : ValidReport(d)}, repair \in {None} \cup {d \in Drafts : ValidReport(d)} :
       LET result == ValidateWithRepair(draft, repair)
       IN  \E shown \in {result, Validate(result.validated_report)} :
             rendered' = CanonicalRecord(shown)
  /\ UNCHANGED <<stage, registry, spent, calls, receipts, lost, minutes, storeVars>>

(* The store is looked at until the report is rendered.                    *)
Next ==
  \/ rendered = None /\ \E w \in Writers :
       Begin(w) \/ WriteRecord(w) \/ WriteRevision(w) \/ Crash(w)
  \/ \E role \in Roles : Prepare(role) \/ Answer(role) \/ AnswerLost(role) \/ AnswerFromCache(role)
  \/ PublishPrompt \/ MinutePasses \/ Render

Spec == Init /\ [][Next]_vars

(***************************************************************************)
(* Properties                                                              *)
(***************************************************************************)

(* What becomes known after the decision time, or is not the reader's to   *)
(* see, changes nothing in what a role is shown (EvidenceBundleBuilder):   *)
(* a bundle has the items the store would give without it.                 *)
FutureEvidenceIsInert ==
  [][\A role \in Roles : stage'[role].bundle \notin {None, stage[role].bundle} =>
       LET request == RequestOf(role)
           known == {p \in records : ~(p.evidence.available_at > request.decision_time) /\ IsVisible(p, request)}
       IN  stage'[role].bundle.items = Build(request, {p.evidence : p \in known}).items]_vars

(* The decision never softens what the evidence shown to the risk agent    *)
(* asks: one piece that blocks leaves "blocked" or "avoid", one that must  *)
(* not be ranked is not, whatever the models answered in between.          *)
DecisionsRespectRisk ==
  Done("decision") =>
    LET items == ToSet(stage["risk_portfolio"].bundle.items)
        decision == stage["decision"].output
    IN  /\ (\E e \in items : "block" \in GateOf(e)) => decision.recommendation \in {"blocked", "avoid"}
        /\ (\E e \in items : "not_evaluable" \in GateOf(e)) =>
             decision.recommendation \in {"insufficient_evidence", "blocked", "avoid"}
        /\ (\E e \in items : e.eligible_for_ranking = FALSE) => ~decision.ranking_eligible

(* An answer taken from the cache was given to the evidence the stage is   *)
(* shown now, though the store may have changed since (ModelInvocation-    *)
(* CacheKey).                                                              *)
AnswersFitTheirBundle ==
  \A role \in Roles : Done(role) => stage[role].basis = stage[role].bundle.items

Estimate(route) == R!EstimateCost(R!PriceFor(Prices, route), PromptTokens, OutputTokens)

(* The roles the caller may have planned while it plans this one.          *)
Beside(role) == {r \in Roles \ {role, "decision"} : r \notin After[role] /\ role \notin After[r]}

(* Stages planned side by side overshoot the run's budget by what the      *)
(* others were planning, and by no more, lost answers and answers kept     *)
(* included (_budget_rejection).                                           *)
SpendIsBounded ==
  \E role \in Roles \ {"decision"}, r \in Routes :
    spent <= Policy.run + Cardinality(Beside(role)) * Estimate(r)

(* The golden case of a role that was shown what this run shows it, and    *)
(* the predictions made of its output and of what the report left of it.   *)
CaseOf(role) ==
  LET output == stage[role].output
  IN  GoldenCase(role, "normal", {e.evidence_id : e \in ToSet(stage[role].bundle.items)},
                 {c.claim_id : c \in {c \in output.claims : c.kind = "numeric_metric"}})

PredictionOf(role, claims, citations) == Prediction(role, claims, citations, {"schema_valid"}, TRUE)

OutputOf(role) == PredictionOf(role, stage[role].output.claims, stage[role].output.citations)

LeftOf(role, report) ==
  PredictionOf(role,
    {c \in report.claims : c.claim_id \in {d.claim_id : d \in stage[role].output.claims}},
    {c \in report.citations : c.citation_id \in {d.citation_id : d \in stage[role].output.citations}})

(* What the agents let through, the evaluation of the same outputs counts  *)
(* as supported (AgentEvaluationScorer), and the report is, whichever      *)
(* draft, repair or second validation it comes from, no regression from    *)
(* the outputs it was made of (compare_agent_evaluation_reports).          *)
GradersAgree ==
  /\ \A role \in Roles : Done(role) => ScoreCase(CaseOf(role), OutputOf(role)).unsupported = 0
  /\ rendered # None =>
       LET cases == {CaseOf(role) : role \in Roles}
       IN  ComparisonPassed(Score(cases, {OutputOf(role) : role \in Roles}),
                            Score(cases, {LeftOf(role, rendered.report) : role \in Roles}))

(* A claim shown as verified carries, through each of its citations, the   *)
(* lineage of the evidence, which was known by the decision time           *)
(* (CitationValidator): no draft, repair or second validation passes one   *)
(* that does not.                                                          *)
VerifiedClaimsAreTraceable ==
  rendered # None =>
    LET report == rendered.report
        verified == {c \in report.claims : c.verification_status = "verified"}
    IN  /\ rendered.report_level = "verified" => report.claims # {} /\ verified = report.claims
        /\ \A claim \in verified : \A i \in claim.citation_ids :
             \E c \in report.citations : \E e \in report.evidence :
               /\ c.citation_id = i /\ c.evidence_id = e.evidence_id
               /\ e.available_at <= report.decision_time
               /\ \A f \in LineageFields : e.lineage[f] # None => claim.lineage[f] = e.lineage[f]

(* What is shown explains itself: a claim with another status than it was  *)
(* answered with is shown with an issue that names it, a claim shown as    *)
(* verified with the evidence behind each of its citations, in either      *)
(* format, and the level "verified" with nothing else                      *)
(* (TrustedResearchReportRenderer).                                        *)
RenderingsExplain ==
  rendered # None =>
    LET markdown == Markdown(rendered) html == Html(rendered)
        answered == UNION {stage[role].output.claims : role \in Roles}
    IN  /\ \A c \in markdown.claims :
             (\A a \in answered : a.claim_id = c.claim_id => a.verification_status # c.status) =>
             \E i \in markdown.issues : i.claim_id = c.claim_id /\ i.code \in c.warnings \cap html.issues
        /\ \A c \in html.claims : c.status = "verified" =>
             \A i \in c.citation_ids : \E e \in html.evidence : <<i, e[1]>> \in html.citations
        /\ html.report_level = "verified" <=>
             html.issues = {} /\ rendered.summary.verified = rendered.summary.claims /\ html.claims # {}

(* No gate that a report passes is laxer than another: the validator, the  *)
(* agents' own checks, the evaluation and the renderer agree on what it    *)
(* may say.                                                                *)
ReportsHold == VerifiedClaimsAreTraceable /\ GradersAgree /\ RenderingsExplain
=============================================================================
