--------------------------- MODULE ResearchProofs ---------------------------
(***************************************************************************)
(* Theorems about Research, for every store, registry, price table, set of *)
(* routes and behaviour of the models: which decision a gate leaves, which *)
(* answers a stage rests on, what the stages may pay, what a later record  *)
(* changes, and what a report shows.                                       *)
(***************************************************************************)
EXTENDS Research, FiniteSetTheorems, WellFoundedInduction, TLAPS

(***************************************************************************)
(* The stages: what they are made of, and what checking or losing an       *)
(* answer leaves of them.                                                  *)
(***************************************************************************)

(* A stage has its fields, and the run has its four stages.                *)
StageFields(s) ==
  s = [status |-> s.status, bundle |-> s.bundle, binding |-> s.binding, plan |-> s.plan,
       gate |-> s.gate, output |-> s.output, basis |-> s.basis, attempt |-> s.attempt]

StagesAreThere ==
  /\ stage = [role \in Roles |-> stage[role]]
  /\ \A role \in Roles : StageFields(stage[role])

(* They are there from the start.                                          *)
LEMMA InitStages == Init => StagesAreThere
BY DEF Init, StagesAreThere, EmptyStage, StageFields

(* How a stage stands once its answer is checked.                          *)
CheckedStatus(role, answer) ==
  IF Finalizes(role, stage[role].bundle, stage[role].gate, CitedBy, answer.output) THEN "done" ELSE "failed"

(* Checking an answer changes how the stage stands, its output and the     *)
(* basis of it, and nothing else.                                          *)
LEMMA CheckedFields ==
  ASSUME NEW role \in Roles, NEW answer, StagesAreThere
  PROVE  Checked(role, answer) =
           [status |-> CheckedStatus(role, answer), bundle |-> stage[role].bundle,
            binding |-> stage[role].binding, plan |-> stage[role].plan, gate |-> stage[role].gate,
            output |-> answer.output, basis |-> answer.basis, attempt |-> stage[role].attempt]
<1>1. ASSUME NEW s, StageFields(s), NEW st, NEW o, NEW b,
             NEW t, t = [s EXCEPT !.status = st, !.output = o, !.basis = b]
      PROVE  t = [status |-> st, bundle |-> s.bundle, binding |-> s.binding, plan |-> s.plan,
                  gate |-> s.gate, output |-> o, basis |-> b, attempt |-> s.attempt]
  BY <1>1, Zenon DEF StageFields
<1>2. StageFields(stage[role])
  BY DEF StagesAreThere
<1>3. Checked(role, answer) = [stage[role] EXCEPT !.status = CheckedStatus(role, answer),
                                                 !.output = answer.output, !.basis = answer.basis]
  BY Zenon DEF Checked, CheckedStatus
<1> DEFINE s == stage[role]
           st == CheckedStatus(role, answer)
           t == Checked(role, answer)
<1>4. StageFields(s) /\ t = [s EXCEPT !.status = st, !.output = answer.output, !.basis = answer.basis]
  BY <1>2, <1>3
<1> HIDE DEF s, st, t
<1>5. t = [status |-> st, bundle |-> s.bundle, binding |-> s.binding, plan |-> s.plan,
           gate |-> s.gate, output |-> answer.output, basis |-> answer.basis, attempt |-> s.attempt]
  BY ONLY <1>1, <1>4, ZenonT(60)
<1> QED BY ONLY <1>5, Zenon DEF s, st, t

(* The same, field by field.                                               *)
COROLLARY CheckedKeeps ==
  ASSUME NEW role \in Roles, NEW answer, StagesAreThere
  PROVE  /\ Checked(role, answer).status = CheckedStatus(role, answer)
         /\ Checked(role, answer).status \in {"done", "failed"}
         /\ Checked(role, answer).bundle = stage[role].bundle
         /\ Checked(role, answer).gate = stage[role].gate
         /\ Checked(role, answer).plan = stage[role].plan
         /\ Checked(role, answer).output = answer.output
         /\ Checked(role, answer).basis = answer.basis
BY CheckedFields DEF CheckedStatus

(* A lost answer leaves the stage with its binding and its next attempt.   *)
LEMMA LostFields ==
  ASSUME NEW binding, NEW attempt
  PROVE  [EmptyStage EXCEPT !.binding = binding, !.attempt = attempt] =
           [status |-> "waiting", bundle |-> None, binding |-> binding, plan |-> None,
            gate |-> None, output |-> None, basis |-> None, attempt |-> attempt]
<1>1. ASSUME NEW s, StageFields(s), NEW t, t = [s EXCEPT !.binding = binding, !.attempt = attempt]
      PROVE  t = [status |-> s.status, bundle |-> s.bundle, binding |-> binding, plan |-> s.plan,
                  gate |-> s.gate, output |-> s.output, basis |-> s.basis, attempt |-> attempt]
  BY <1>1, Zenon DEF StageFields
<1>2. StageFields(EmptyStage)
  BY DEF StageFields, EmptyStage
<1>3. [EmptyStage EXCEPT !.binding = binding, !.attempt = attempt] =
        [status |-> EmptyStage.status, bundle |-> EmptyStage.bundle, binding |-> binding,
         plan |-> EmptyStage.plan, gate |-> EmptyStage.gate, output |-> EmptyStage.output,
         basis |-> EmptyStage.basis, attempt |-> attempt]
  BY <1>1, <1>2, Zenon
<1> QED BY <1>3 DEF EmptyStage

(* No step adds, drops or reshapes a stage.                                *)
LEMMA StepStages == StagesAreThere /\ [Next]_vars => StagesAreThere'
<1> SUFFICES ASSUME StagesAreThere, [Next]_vars PROVE StagesAreThere'
  OBVIOUS
<1>1. ASSUME NEW role \in Roles, NEW s, stage' = [stage EXCEPT ![role] = s], StageFields(s)
      PROVE StagesAreThere'
  BY <1>1 DEF StagesAreThere
<1>2. ASSUME NEW role \in Roles, NEW binding PROVE StageFields(Prepared(role, binding))
  BY DEF Prepared, StageFields
<1>3. ASSUME NEW role \in Roles, NEW answer PROVE StageFields(Checked(role, answer))
  BY CheckedFields DEF StageFields
<1>4. ASSUME NEW role \in Roles, Prepare(role) PROVE StagesAreThere'
  BY <1>1, <1>2, <1>4 DEF Prepare
<1>5. ASSUME NEW role \in Roles, Answer(role) PROVE StagesAreThere'
  BY <1>1, <1>3, <1>5 DEF Answer
<1>6. ASSUME NEW role \in Roles, AnswerLost(role) PROVE StagesAreThere'
  <2> DEFINE s == [EmptyStage EXCEPT !.binding = stage[role].binding, !.attempt = stage[role].attempt + 1]
  <2>1. StageFields(s)
    <3>1. s = [status |-> "waiting", bundle |-> None, binding |-> stage[role].binding, plan |-> None,
               gate |-> None, output |-> None, basis |-> None, attempt |-> stage[role].attempt + 1]
      BY LostFields, Zenon
    <3> HIDE DEF s
    <3> QED BY <3>1 DEF StageFields
  <2>2. stage' = [stage EXCEPT ![role] = s]
    BY <1>6 DEF AnswerLost
  <2> HIDE DEF s
  <2> QED BY <1>1, <2>1, <2>2
<1>7. ASSUME NEW role \in Roles, AnswerFromCache(role) PROVE StagesAreThere'
  BY <1>1, <1>3, <1>7 DEF AnswerFromCache
<1>8. CASE UNCHANGED stage
  BY <1>8 DEF StagesAreThere
<1> QED
  BY <1>4, <1>5, <1>6, <1>7, <1>8 DEF Next, vars, runVars, Begin, WriteRecord, WriteRevision, Crash,
     PublishPrompt, MinutePasses, Render

(***************************************************************************)
(* The gate of the risk agent and the decision.                            *)
(***************************************************************************)

(* The gate of formal evidence is the most severe of what it asks.         *)
LEMMA HardGateIsSevere ==
  ASSUME NEW items, PreparesPrompt("risk_portfolio", items)
  PROVE  /\ (\E e \in ToSet(items) : "block" \in GateOf(e)) => HardGate(items).status = "block"
         /\ (\E e \in ToSet(items) : "not_evaluable" \in GateOf(e)) =>
              HardGate(items).status \in {"not_evaluable", "block"}
         /\ (\E e \in ToSet(items) : e.eligible_for_ranking = FALSE) =>
              HardGate(items).eligible_for_ranking = FALSE
<1> DEFINE asked == {"pass"} \cup UNION {GateOf(e) : e \in ToSet(items)}
           worst == CHOOSE s \in asked : \A t \in asked : Severity[s] >= Severity[t]
           ranked == {e.eligible_for_ranking : e \in ToSet(items)}
<1>1. \A e \in ToSet(items) : GateOf(e) \subseteq {"pass", "warn", "not_evaluable", "block"}
  BY DEF PreparesPrompt, IsShown, StatusesAreKnown, GateOf, When, Severity
<1>2. asked \subseteq {"pass", "warn", "not_evaluable", "block"} /\ "pass" \in asked
  BY <1>1
<1>3. \A e \in ToSet(items) : GateOf(e) \subseteq asked
  OBVIOUS
<1> HIDE DEF asked
<1>4. worst \in asked /\ \A t \in asked : Severity[worst] >= Severity[t]
  <2>1. \E s \in asked : \A t \in asked : Severity[s] >= Severity[t]
    BY <1>2 DEF Severity
  <2> QED BY <2>1
<1>5. HardGate(items).status = worst /\ HardGate(items).eligible_for_ranking = Conjoined(ranked)
  BY DEF HardGate, asked
<1> HIDE DEF worst
<1>6. ("block" \in asked => worst = "block")
        /\ ("not_evaluable" \in asked => worst \in {"not_evaluable", "block"})
  BY <1>2, <1>4 DEF Severity
<1>7. (\E e \in ToSet(items) : e.eligible_for_ranking = FALSE) => Conjoined(ranked) = FALSE
  BY DEF Conjoined
<1> QED BY <1>3, <1>5, <1>6, <1>7

(* Once a stage is called, it was shown what its role may see, under the   *)
(* gate of that evidence, or, the decision, under that of the risk agent.  *)
CalledUnderTheirGate ==
  \A role \in Roles : stage[role].status \in {"called", "done"} =>
    /\ PreparesPrompt(role, stage[role].bundle.items)
    /\ role # "decision" => stage[role].gate = HardGate(stage[role].bundle.items)
    /\ role = "decision" => Done("risk_portfolio") /\ stage[role].gate = stage["risk_portfolio"].gate

(* A finished decision keeps to the gate it was given.                     *)
DecisionKeepsItsGate == Done("decision") => DecisionIsAllowed(stage["decision"].gate, stage["decision"].output)

(* The inductive invariant behind DecisionsRespectRisk: it ties the gate   *)
(* of the decision to the bundle of the risk agent through the gate the    *)
(* risk agent was given.                                                   *)
GateInv == StagesAreThere /\ CalledUnderTheirGate /\ DecisionKeepsItsGate

(* The invariant gives what the decision owes to each piece of evidence.   *)
THEOREM GateDecides == GateInv => DecisionsRespectRisk
<1> SUFFICES ASSUME GateInv, Done("decision") PROVE DecisionsRespectRisk
  BY DEF DecisionsRespectRisk
<1> DEFINE items == stage["risk_portfolio"].bundle.items
<1>1. PreparesPrompt("risk_portfolio", items) /\ stage["decision"].gate = HardGate(items)
  BY DEF GateInv, CalledUnderTheirGate, Done, Roles
<1>2. DecisionIsAllowed(HardGate(items), stage["decision"].output)
  BY <1>1 DEF GateInv, DecisionKeepsItsGate
<1> QED BY <1>1, <1>2, HardGateIsSevere DEF DecisionsRespectRisk, DecisionIsAllowed

(* No stage has been called in the beginning.                              *)
LEMMA InitGate == Init => CalledUnderTheirGate /\ DecisionKeepsItsGate
BY DEF Init, CalledUnderTheirGate, DecisionKeepsItsGate, Done, EmptyStage, Roles

(* The invariant is inductive.                                             *)
LEMMA StepGate == GateInv /\ [Next]_vars => GateInv'
<1> SUFFICES ASSUME GateInv, [Next]_vars PROVE CalledUnderTheirGate' /\ DecisionKeepsItsGate'
  BY StepStages DEF GateInv
<1> USE DEF GateInv, Done
<1>1. ASSUME NEW role \in Roles, NEW s, stage' = [stage EXCEPT ![role] = s],
             stage[role].status # "done", s.status \notin {"called", "done"}
      PROVE  CalledUnderTheirGate' /\ DecisionKeepsItsGate'
  BY <1>1 DEF StagesAreThere, CalledUnderTheirGate, DecisionKeepsItsGate, Roles
<1>2. ASSUME NEW role \in Roles, Prepare(role) PROVE CalledUnderTheirGate' /\ DecisionKeepsItsGate'
  <2>1. PICK binding : stage' = [stage EXCEPT ![role] = Prepared(role, binding)]
    BY <1>2 DEF Prepare
  <2> DEFINE s == Prepared(role, binding)
  <2>2. stage[role].status = "waiting" /\ (role = "decision" => Done("risk_portfolio"))
    BY <1>2 DEF Prepare, Roles
  <2>3. s.status # "done"
    BY DEF Prepared
  <2>4. s.status = "called" =>
          PreparesPrompt(role, s.bundle.items) /\ s.gate = GateFor(role, s.bundle.items)
    BY DEF Prepared
  <2> HIDE DEF s
  <2>5. \A r \in Roles : stage'[r] = IF r = role THEN s ELSE stage[r]
    BY <2>1 DEF StagesAreThere, s
  <2>6. CalledUnderTheirGate'
    BY <2>2, <2>3, <2>4, <2>5 DEF CalledUnderTheirGate, GateFor, Roles
  <2>7. DecisionKeepsItsGate'
    BY <2>2, <2>3, <2>5 DEF DecisionKeepsItsGate, Roles
  <2> QED BY <2>6, <2>7
<1>3. ASSUME NEW role \in Roles, NEW answer, stage[role].status = "called",
             stage' = [stage EXCEPT ![role] = Checked(role, answer)]
      PROVE  CalledUnderTheirGate' /\ DecisionKeepsItsGate'
  <2> DEFINE s == Checked(role, answer)
  <2>1. s.status \in {"done", "failed"} /\ s.bundle = stage[role].bundle /\ s.gate = stage[role].gate
    BY CheckedFields DEF CheckedStatus
  <2>2. s.output = answer.output /\ s.status = CheckedStatus(role, answer)
    BY CheckedFields
  <2>3. role = "decision" /\ CheckedStatus(role, answer) = "done" =>
          DecisionIsAllowed(stage[role].gate, answer.output)
    BY Zenon DEF CheckedStatus, Finalizes
  <2>4. role = "decision" /\ s.status = "done" => DecisionIsAllowed(s.gate, s.output)
    BY <2>1, <2>2, <2>3
  <2> HIDE DEF s
  <2>5. \A r \in Roles : stage'[r] = IF r = role THEN s ELSE stage[r]
    BY <1>3 DEF StagesAreThere, s
  <2>6. CalledUnderTheirGate'
    BY <1>3, <2>1, <2>5 DEF CalledUnderTheirGate, Roles
  <2>7. DecisionKeepsItsGate'
    BY <1>3, <2>4, <2>5 DEF DecisionKeepsItsGate, Roles
  <2> QED BY <2>6, <2>7
<1>4. ASSUME NEW role \in Roles, AnswerLost(role) PROVE CalledUnderTheirGate' /\ DecisionKeepsItsGate'
  <2> DEFINE s == [EmptyStage EXCEPT !.binding = stage[role].binding, !.attempt = stage[role].attempt + 1]
  <2>1. s.status = "waiting"
    BY LostFields
  <2>2. stage' = [stage EXCEPT ![role] = s] /\ stage[role].status = "called"
    BY <1>4 DEF AnswerLost
  <2> HIDE DEF s
  <2> QED BY <1>1, <2>1, <2>2
<1>5. CASE UNCHANGED stage
  BY <1>5 DEF CalledUnderTheirGate, DecisionKeepsItsGate
<1>6. ASSUME NEW role \in Roles, Answer(role) PROVE CalledUnderTheirGate' /\ DecisionKeepsItsGate'
  BY <1>3, <1>6 DEF Answer
<1>7. ASSUME NEW role \in Roles, AnswerFromCache(role) PROVE CalledUnderTheirGate' /\ DecisionKeepsItsGate'
  BY <1>3, <1>7 DEF AnswerFromCache
<1> QED
  BY <1>2, <1>4, <1>5, <1>6, <1>7 DEF Next, vars, runVars, Begin, WriteRecord, WriteRevision, Crash,
     PublishPrompt, MinutePasses, Render

(* The decision never softens what the evidence shown to the risk agent    *)
(* asks (DecisionsRespectRisk), whatever the models answer, however often  *)
(* they are asked, and whatever the store becomes in between.              *)
THEOREM DecisionsAlwaysRespectRisk == Spec => []DecisionsRespectRisk
<1>1. Init => GateInv
  BY InitStages, InitGate DEF GateInv
<1> QED BY <1>1, StepGate, GateDecides, PTL DEF Spec

(***************************************************************************)
(* The bundle, and what was not known in time.                             *)
(***************************************************************************)

(* The items of a bundle, from the evidence the request lets through.      *)
BundleOf(request, seen) ==
  Filled(request, Ranked(request, {e \in seen : ~IsRepeatIn(request, seen, e)})).items

(* What is excluded does not change the items.                             *)
LEMMA BuildTakesTheSeen ==
  ASSUME NEW request, NEW candidates
  PROVE  Build(request, candidates).items = BundleOf(request, {e \in candidates : ~IsExcluded(request, e)})
BY Zenon DEF Build, BundleOf

(* What becomes available after the decision time is excluded.             *)
LEMMA FutureIsExcluded ==
  ASSUME NEW request, NEW e, e.available_at > request.decision_time
  PROVE  IsExcluded(request, e)
<1>1. 3 \in DOMAIN ExclusionRules /\ ExclusionRules[3] = "future_available_at"
  BY DEF ExclusionRules
<1>2. IsExcludedBy("future_available_at", request, e)
  BY DEF IsExcludedBy
<1> QED BY <1>1, <1>2 DEF IsExcluded

(* A bundle that is new is the one built from the store as it is.          *)
LEMMA BundleStep ==
  ASSUME StagesAreThere, [Next]_vars, NEW role \in Roles, stage'[role].bundle \notin {None, stage[role].bundle}
  PROVE  stage'[role].bundle = Build(RequestOf(role), FindEvidence(RequestOf(role)))
<1> DEFINE built == Build(RequestOf(role), FindEvidence(RequestOf(role)))
<1>1. ASSUME NEW r \in Roles, NEW s, stage' = [stage EXCEPT ![r] = s],
             s.bundle \in {None, stage[r].bundle}
      PROVE  FALSE
  BY <1>1 DEF StagesAreThere
<1>2. ASSUME NEW r \in Roles, Prepare(r) PROVE stage'[role].bundle = built
  <2>1. PICK binding : stage' = [stage EXCEPT ![r] = Prepared(r, binding)]
    BY <1>2 DEF Prepare
  <2>2. Prepared(r, binding).bundle = Build(RequestOf(r), FindEvidence(RequestOf(r)))
    BY DEF Prepared
  <2> QED BY <2>1, <2>2 DEF StagesAreThere
<1>3. ASSUME NEW r \in Roles, NEW answer, stage' = [stage EXCEPT ![r] = Checked(r, answer)] PROVE FALSE
  <2>1. Checked(r, answer).bundle = stage[r].bundle
    BY CheckedKeeps
  <2> QED BY <1>1, <1>3, <2>1
<1>4. ASSUME NEW r \in Roles, AnswerLost(r) PROVE FALSE
  <2> DEFINE s == [EmptyStage EXCEPT !.binding = stage[r].binding, !.attempt = stage[r].attempt + 1]
  <2>1. s.bundle = None
    BY LostFields
  <2>2. stage' = [stage EXCEPT ![r] = s]
    BY <1>4 DEF AnswerLost
  <2> HIDE DEF s
  <2> QED BY <1>1, <2>1, <2>2
<1>5. CASE UNCHANGED stage
  BY <1>5
<1>6. ASSUME NEW r \in Roles, Answer(r) \/ AnswerFromCache(r) PROVE FALSE
  BY <1>3, <1>6 DEF Answer, AnswerFromCache
<1> HIDE DEF built
<1>7. stage'[role].bundle = built
  BY <1>2, <1>4, <1>5, <1>6 DEF Next, vars, runVars, Begin, WriteRecord, WriteRevision, Crash,
     PublishPrompt, MinutePasses, Render
<1> QED BY <1>7 DEF built

(* It is the one built from what was known.                                *)
LEMMA FutureStep ==
  ASSUME StagesAreThere, [Next]_vars, NEW role \in Roles, stage'[role].bundle \notin {None, stage[role].bundle}
  PROVE  LET request == RequestOf(role)
             known == {p \in records : ~(p.evidence.available_at > request.decision_time) /\ IsVisible(p, request)}
         IN  stage'[role].bundle.items = Build(request, {p.evidence : p \in known}).items
<1> DEFINE request == RequestOf(role)
           known == {p \in records : ~(p.evidence.available_at > request.decision_time) /\ IsVisible(p, request)}
           found == FindEvidence(request)
           wanted == {p.evidence : p \in known}
<1>1. {e \in found : ~IsExcluded(request, e)} = {e \in wanted : ~IsExcluded(request, e)}
  BY FutureIsExcluded DEF FindEvidence
<1>2. stage'[role].bundle = Build(request, found)
  BY BundleStep
<1> HIDE DEF request, found, wanted
<1>3. stage'[role].bundle.items = Build(request, wanted).items
  BY <1>1, <1>2, BuildTakesTheSeen
<1> QED BY <1>3 DEF request, wanted

(* Evidence known only later, or not visible to the reader, changes no     *)
(* bundle (FutureEvidenceIsInert), whatever is in the store.               *)
THEOREM FutureEvidenceStaysInert == Spec => FutureEvidenceIsInert
<1>1. Init => StagesAreThere
  BY InitStages
<1>2. StagesAreThere /\ [Next]_vars =>
        [\A role \in Roles : stage'[role].bundle \notin {None, stage[role].bundle} =>
           LET request == RequestOf(role)
               known == {p \in records : ~(p.evidence.available_at > request.decision_time) /\ IsVisible(p, request)}
           IN  stage'[role].bundle.items = Build(request, {p.evidence : p \in known}).items]_vars
  BY FutureStep
<1> QED BY <1>1, <1>2, StepStages, PTL DEF Spec, FutureEvidenceIsInert

(***************************************************************************)
(* Choices of the first, the newest and the costliest.                     *)
(***************************************************************************)

(* A finite set that is not empty has a least element in a strict order,   *)
(* if the order is total, and a minimal one in any: the sets of what comes *)
(* before an element are finite, and one of them has none of the others in *)
(* it.                                                                     *)
LEMMA MinimumExists ==
  ASSUME NEW S, IsFiniteSet(S), S # {}, NEW Before,
         \A x \in S : <<x, x>> \notin Before,
         \A x, y, z \in S : <<x, y>> \in Before /\ <<y, z>> \in Before => <<x, z>> \in Before
  PROVE  \E x \in S : \A y \in S : <<y, x>> \notin Before
<1> DEFINE Below(x) == {y \in S : <<y, x>> \in Before}
           Family == {Below(x) : x \in S}
<1>1. \A x \in S : Below(x) \in FiniteSubsetsOf(S)
  BY FS_Subset DEF FiniteSubsetsOf
<1>2. IsWellFoundedOn(StrictSubsetOrdering(S), FiniteSubsetsOf(S))
  BY FS_StrictSubsetOrderingWellFounded
<1>3. PICK T \in Family : \A U \in Family : <<U, T>> \notin StrictSubsetOrdering(S)
  <2>1. Family \subseteq FiniteSubsetsOf(S) /\ Family # {}
    <3> HIDE DEF Below
    <3> QED BY <1>1
  <2> QED BY <1>2, <2>1, WFMin
<1>4. PICK x \in S : T = Below(x)
  OBVIOUS
<1>5. ASSUME NEW y \in S, <<y, x>> \in Before PROVE FALSE
  <2>1. Below(y) \subseteq Below(x) /\ y \in Below(x) /\ y \notin Below(y)
    BY <1>5
  <2>2. <<Below(y), Below(x)>> \in (SUBSET S) \X (SUBSET S)
    OBVIOUS
  <2>3. Below(y) \in Family
    OBVIOUS
  <2> HIDE DEF Below
  <2> QED BY <1>3, <1>4, <2>1, <2>2, <2>3 DEF StrictSubsetOrdering
<1> QED BY <1>5

(* The first route that takes a prompt is one that does.                   *)
LEMMA FirstRouteTakes ==
  ASSUME NEW taking, taking \subseteq Routes, taking # {}
  PROVE  (CHOOSE r \in taking : \A s \in taking \ {r} : R!RouteOrder(r, s)) \in taking
<1> DEFINE Before == {p \in Routes \X Routes : R!RouteOrder(p[1], p[2])}
<1>1. \A x, y \in Routes : <<x, y>> \in Before <=> R!RouteOrder(x, y)
  OBVIOUS
<1> HIDE DEF Before
<1>2. \A x \in taking : <<x, x>> \notin Before
  BY <1>1, RoutesArePriced DEF R!RouteOrder
<1>3. \A x, y, z \in taking : <<x, y>> \in Before /\ <<y, z>> \in Before => <<x, z>> \in Before
  BY <1>1, RoutesArePriced DEF R!RouteOrder
<1>4. IsFiniteSet(taking)
  BY FS_Subset, RoutesArePriced
<1>5. PICK x \in taking : \A y \in taking : <<y, x>> \notin Before
  BY <1>2, <1>3, <1>4, MinimumExists
<1>6. \A y \in taking \ {x} : R!RouteOrder(x, y)
  <2> SUFFICES ASSUME NEW y \in taking, y # x PROVE R!RouteOrder(x, y)
    OBVIOUS
  <2>1. x \in Routes /\ y \in Routes /\ ~R!RouteOrder(y, x)
    BY <1>1, <1>5
  <2>2. /\ x.route_id # y.route_id
        /\ x.route_id \in Int /\ y.route_id \in Int /\ x.priority \in Int /\ y.priority \in Int
    BY <2>1, RoutesArePriced
  <2> QED BY <2>1, <2>2 DEF R!RouteOrder
<1> QED BY <1>6

(* A plan with a route is the outcome of that route.                       *)
LEMMA PlanIsAnOutcome ==
  ASSUME NEW request, NEW usage, NEW answers,
         R!Plan(Prices, Routes, request, Policy, usage, answers).route # NoRoute
  PROVE  LET plan == R!Plan(Prices, Routes, request, Policy, usage, answers)
             outcome == R!Outcome(Prices, request, Policy, usage, answers, plan.route)
         IN  plan.route \in Routes /\ outcome.takes /\ plan.cost = outcome.cost /\ plan.receipts = outcome.receipts
<1> DEFINE OutcomeOf(r) == R!Outcome(Prices, request, Policy, usage, answers, r)
           taking == {r \in Routes : OutcomeOf(r).takes}
           first == CHOOSE r \in taking : \A s \in taking \ {r} : R!RouteOrder(r, s)
           plan == R!Plan(Prices, Routes, request, Policy, usage, answers)
<1> HIDE DEF OutcomeOf
<1>1. taking # {}
  BY DEF R!Plan, R!Refusal, OutcomeOf
<1>2. plan.route = first /\ plan.cost = OutcomeOf(first).cost /\ plan.receipts = OutcomeOf(first).receipts
  BY <1>1 DEF R!Plan, OutcomeOf
<1>3. first \in taking
  BY <1>1, FirstRouteTakes
<1> QED BY <1>2, <1>3 DEF OutcomeOf

(***************************************************************************)
(* Answers and receipts.                                                   *)
(***************************************************************************)

(* An outcome names receipts of the bundle that was asked about, or a cost *)
(* the budget lets pass.                                                   *)
LEMMA OutcomeIsOwn ==
  ASSUME NEW request, NEW usage, NEW answers, NEW route,
         R!Outcome(Prices, request, Policy, usage, answers, route).takes
  PROVE  LET outcome == R!Outcome(Prices, request, Policy, usage, answers, route)
         IN  /\ \A r \in outcome.receipts : r \in answers /\ r.key.bundle = request.bundle
             /\ \/ outcome.cost = 0
                \/ /\ outcome.cost = R!EstimateCost(R!PriceFor(Prices, route), request.prompt_tokens,
                                                    request.max_output_tokens)
                   /\ R!BudgetRejection(outcome.cost, Policy, usage) = "none"
<1> DEFINE price == R!PriceFor(Prices, route)
           held == {r \in answers : r.key = R!CacheKey(request, route, price)}
<1>1. \A r \in held : r \in answers /\ r.key.bundle = request.bundle
  BY DEF R!CacheKey
<1> QED BY <1>1 DEF R!Outcome

(* A receipt holds the answer to the bundle in its key, and so do the      *)
(* answers kept for a stage that is called.                                *)
ReceiptsAreOwn == \A r \in receipts : r.answer.basis = r.key.bundle.items

KeptAnswersFit ==
  \A role \in Roles : stage[role].status = "called" =>
    \A answer \in stage[role].plan.kept : answer.basis = stage[role].bundle.items

(* The inductive invariant behind AnswersFitTheirBundle.                   *)
AnswersInv == StagesAreThere /\ ReceiptsAreOwn /\ KeptAnswersFit /\ AnswersFitTheirBundle

(* The answers kept for a stage that is planned were given to its bundle.  *)
LEMMA PreparedKeepsItsOwn ==
  ASSUME ReceiptsAreOwn, NEW role \in Roles, NEW binding, Prepared(role, binding).status = "called"
  PROVE  \A answer \in Prepared(role, binding).plan.kept :
           answer.basis = Prepared(role, binding).bundle.items
<1> DEFINE bundle == Build(RequestOf(role), FindEvidence(RequestOf(role)))
           plan == PlanFor(bundle, binding)
<1>1. /\ plan.route # NoRoute /\ Prepared(role, binding).bundle = bundle
      /\ Prepared(role, binding).plan.kept = {r.answer : r \in plan.receipts}
  BY DEF Prepared
<1>2. \A r \in plan.receipts : r \in receipts /\ r.key.bundle = RequestFor(bundle, binding).bundle
  BY <1>1, PlanIsAnOutcome, OutcomeIsOwn DEF PlanFor
<1>3. RequestFor(bundle, binding).bundle = bundle
  BY DEF RequestFor
<1> HIDE DEF plan, bundle
<1> QED BY <1>1, <1>2, <1>3 DEF ReceiptsAreOwn

(* The invariant is inductive.                                             *)
LEMMA AnswersStep == AnswersInv /\ [Next]_vars => AnswersInv'
<1> SUFFICES ASSUME AnswersInv, [Next]_vars
             PROVE  ReceiptsAreOwn' /\ KeptAnswersFit' /\ AnswersFitTheirBundle'
  BY StepStages DEF AnswersInv
<1> USE DEF AnswersInv, Done
<1>1. ASSUME NEW role \in Roles, NEW s, stage' = [stage EXCEPT ![role] = s], ReceiptsAreOwn',
             s.status = "called" => \A answer \in s.plan.kept : answer.basis = s.bundle.items,
             s.status = "done" => s.basis = s.bundle.items
      PROVE  ReceiptsAreOwn' /\ KeptAnswersFit' /\ AnswersFitTheirBundle'
  <2>1. \A r \in Roles : stage'[r] = IF r = role THEN s ELSE stage[r]
    BY <1>1 DEF StagesAreThere
  <2> QED BY <1>1, <2>1 DEF KeptAnswersFit, AnswersFitTheirBundle
<1>2. ASSUME NEW role \in Roles, Prepare(role)
      PROVE  ReceiptsAreOwn' /\ KeptAnswersFit' /\ AnswersFitTheirBundle'
  <2>1. PICK binding : stage' = [stage EXCEPT ![role] = Prepared(role, binding)]
    BY <1>2 DEF Prepare
  <2>2. Prepared(role, binding).status # "done"
    BY DEF Prepared
  <2>3. ReceiptsAreOwn'
    BY <1>2 DEF Prepare, ReceiptsAreOwn
  <2> QED BY <1>1, <2>1, <2>2, <2>3, PreparedKeepsItsOwn
<1>3. ASSUME NEW role \in Roles, NEW answer, answer.basis = stage[role].bundle.items,
             stage' = [stage EXCEPT ![role] = Checked(role, answer)], ReceiptsAreOwn'
      PROVE  ReceiptsAreOwn' /\ KeptAnswersFit' /\ AnswersFitTheirBundle'
  <2> DEFINE s == Checked(role, answer)
  <2>1. s.status # "called" /\ s.basis = s.bundle.items
    BY <1>3, CheckedKeeps
  <2>2. stage' = [stage EXCEPT ![role] = s]
    BY <1>3
  <2> HIDE DEF s
  <2> QED BY <1>1, <1>3, <2>1, <2>2
<1>4. ASSUME NEW role \in Roles, NEW answer \in CandidateAnswers(role), Paid(role, answer)
      PROVE  ReceiptsAreOwn' /\ answer.basis = stage[role].bundle.items
  <2>1. answer.basis = stage[role].bundle.items
    BY DEF CandidateAnswers
  <2>2. KeyOf(role).bundle = stage[role].bundle
    BY DEF KeyOf, R!CacheKey, RequestFor
  <2>3. receipts' = receipts \cup {[key |-> KeyOf(role), answer |-> answer]}
    BY <1>4 DEF Paid
  <2> QED BY <2>1, <2>2, <2>3 DEF ReceiptsAreOwn
<1>5. ASSUME NEW role \in Roles, Answer(role)
      PROVE  ReceiptsAreOwn' /\ KeptAnswersFit' /\ AnswersFitTheirBundle'
  BY <1>3, <1>4, <1>5 DEF Answer
<1>6. ASSUME NEW role \in Roles, AnswerLost(role)
      PROVE  ReceiptsAreOwn' /\ KeptAnswersFit' /\ AnswersFitTheirBundle'
  <2> DEFINE s == [EmptyStage EXCEPT !.binding = stage[role].binding, !.attempt = stage[role].attempt + 1]
  <2>1. s.status = "waiting"
    BY LostFields
  <2>2. stage' = [stage EXCEPT ![role] = s]
    BY <1>6 DEF AnswerLost
  <2>3. ReceiptsAreOwn'
    BY <1>4, <1>6 DEF AnswerLost
  <2> HIDE DEF s
  <2> QED BY <1>1, <2>1, <2>2, <2>3
<1>7. ASSUME NEW role \in Roles, AnswerFromCache(role)
      PROVE  ReceiptsAreOwn' /\ KeptAnswersFit' /\ AnswersFitTheirBundle'
  <2>1. PICK answer \in stage[role].plan.kept : stage' = [stage EXCEPT ![role] = Checked(role, answer)]
    BY <1>7 DEF AnswerFromCache
  <2>2. answer.basis = stage[role].bundle.items
    BY <1>7, <2>1 DEF AnswerFromCache, KeptAnswersFit
  <2>3. ReceiptsAreOwn'
    BY <1>7 DEF AnswerFromCache, ReceiptsAreOwn
  <2> QED BY <1>3, <2>1, <2>2, <2>3
<1>8. CASE UNCHANGED <<stage, receipts>>
  BY <1>8 DEF ReceiptsAreOwn, KeptAnswersFit, AnswersFitTheirBundle
<1> QED
  BY <1>2, <1>5, <1>6, <1>7, <1>8 DEF Next, vars, runVars, Begin, WriteRecord, WriteRevision, Crash,
     PublishPrompt, MinutePasses, Render

(* Every answer a stage rests on, taken from a model or from a receipt,    *)
(* was given to the evidence the stage is shown (AnswersFitTheirBundle).   *)
THEOREM AnswersAlwaysFit == Spec => []AnswersFitTheirBundle
<1>1. Init => AnswersInv
  BY InitStages DEF Init, AnswersInv, ReceiptsAreOwn, KeptAnswersFit, AnswersFitTheirBundle, Done, EmptyStage
<1>2. AnswersInv => AnswersFitTheirBundle
  BY DEF AnswersInv
<1> QED BY <1>1, <1>2, AnswersStep, PTL DEF Spec

(***************************************************************************)
(* What the stages pay.                                                    *)
(***************************************************************************)

(* Versions are compared part by part.                                     *)
LEMMA NewerIsLexicographic ==
  ASSUME NEW v \in Nat \X Nat \X Nat, NEW w \in Nat \X Nat \X Nat
  PROVE  R!Newer(v, w) <=> \/ v[1] > w[1]
                           \/ v[1] = w[1] /\ v[2] > w[2]
                           \/ v[1] = w[1] /\ v[2] = w[2] /\ v[3] > w[3]
<1>1. 1..3 = {1, 2, 3} /\ 1..(1 - 1) = {} /\ 1..(2 - 1) = {1} /\ 1..(3 - 1) = {1, 2}
  OBVIOUS
<1>2. R!Newer(v, w) <=> \E i \in {1, 2, 3} : v[i] > w[i] /\ \A j \in 1..(i - 1) : v[j] = w[j]
  BY <1>1 DEF R!Newer
<1>3. (\A j \in 1..(1 - 1) : v[j] = w[j]) /\ ((\A j \in 1..(2 - 1) : v[j] = w[j]) <=> v[1] = w[1])
        /\ ((\A j \in 1..(3 - 1) : v[j] = w[j]) <=> v[1] = w[1] /\ v[2] = w[2])
  BY <1>1
<1> QED BY <1>2, <1>3

(* A route has a price, the newest of its model.                           *)
LEMMA PriceIsKnown == ASSUME NEW route \in Routes PROVE R!PriceFor(Prices, route) \in Prices
<1> DEFINE matching == {p \in Prices : p.model = route.model}
           Before == {p \in Prices \X Prices : R!Newer(p[1].version, p[2].version)}
<1>1. matching # {} /\ matching \subseteq Prices
  BY RoutesArePriced DEF R!ValidPrices
<1>2. IsFiniteSet(matching)
  BY <1>1, FS_Subset, RoutesArePriced
<1>3. \A x, y \in Prices : <<x, y>> \in Before <=> R!Newer(x.version, y.version)
  OBVIOUS
<1> HIDE DEF Before
<1>4. \A x, y \in Prices : x.model = y.model /\ x.version = y.version => x = y
  BY RoutesArePriced DEF R!ValidPrices
<1>5. \A x, y \in Prices : x.version \in Nat \X Nat \X Nat /\ y.version \in Nat \X Nat \X Nat
  BY RoutesArePriced
<1>6. \A x \in matching : <<x, x>> \notin Before
  BY <1>1, <1>3, <1>5, NewerIsLexicographic
<1>7. ASSUME NEW x \in matching, NEW y \in matching, NEW z \in matching,
             <<x, y>> \in Before, <<y, z>> \in Before
      PROVE  <<x, z>> \in Before
  <2>1. R!Newer(x.version, y.version) /\ R!Newer(y.version, z.version)
    BY <1>1, <1>3, <1>7
  <2>2. R!Newer(x.version, z.version)
    BY <1>1, <1>5, <2>1, NewerIsLexicographic
  <2> QED BY <1>1, <1>3, <2>2
<1>8. PICK x \in matching : \A y \in matching : <<y, x>> \notin Before
  BY <1>1, <1>2, <1>6, <1>7, MinimumExists
<1>9. ASSUME NEW y \in matching PROVE y = x \/ R!Newer(x.version, y.version)
  <2>1. ~R!Newer(y.version, x.version)
    BY <1>1, <1>3, <1>8
  <2>2. y.version = x.version => y = x
    BY <1>1, <1>4
  <2>3. \A v \in Nat \X Nat \X Nat : v = <<v[1], v[2], v[3]>> /\ v[1] \in Nat /\ v[2] \in Nat /\ v[3] \in Nat
    OBVIOUS
  <2>4. ASSUME NEW v \in Nat \X Nat \X Nat, NEW w \in Nat \X Nat \X Nat PROVE v = w \/ R!Newer(v, w) \/ R!Newer(w, v)
    BY <2>3, NewerIsLexicographic
  <2> QED BY <1>1, <1>5, <2>1, <2>2, <2>4
<1>10. R!PriceFor(Prices, route) \in matching
  BY <1>9 DEF R!PriceFor
<1> QED BY <1>1, <1>10

(* An estimate is a number, and none is negative.                          *)
LEMMA EstimatesAreNatural == \A r \in Routes : Estimate(r) \in Nat
<1> SUFFICES ASSUME NEW r \in Routes PROVE Estimate(r) \in Nat
  OBVIOUS
<1> DEFINE price == R!PriceFor(Prices, r)
<1>1. price.input \in Nat /\ price.output \in Nat
  BY PriceIsKnown, RoutesArePriced
<1> HIDE DEF price
<1>2. PromptTokens * price.input \in Nat /\ OutputTokens * price.output \in Nat
  BY <1>1, BudgetsAreNatural
<1>3. \A a, b \in Nat : (a + b + 500) \div 1000 \in Nat
  OBVIOUS
<1>4. (PromptTokens * price.input + OutputTokens * price.output + 500) \div 1000 \in Nat
  BY <1>2, <1>3
<1> QED BY <1>4 DEF Estimate, R!EstimateCost, price

(* One route costs the most.                                               *)
LEMMA CostliestExists == \E top \in Routes : \A r \in Routes : Estimate(r) <= Estimate(top)
<1> DEFINE Before == {p \in Routes \X Routes : Estimate(p[1]) > Estimate(p[2])}
<1>1. \A x, y \in Routes : <<x, y>> \in Before <=> Estimate(x) > Estimate(y)
  OBVIOUS
<1> HIDE DEF Before
<1>2. PICK x \in Routes : \A y \in Routes : <<y, x>> \notin Before
  <2>1. \A a \in Routes : <<a, a>> \notin Before
    BY <1>1, EstimatesAreNatural
  <2>2. \A a, b, c \in Routes : <<a, b>> \in Before /\ <<b, c>> \in Before => <<a, c>> \in Before
    BY <1>1, EstimatesAreNatural
  <2> QED BY <2>1, <2>2, RoutesArePriced, MinimumExists
<1>3. \A y \in Routes : ~(Estimate(y) > Estimate(x))
  BY <1>1, <1>2
<1>4. \A y \in Routes : Estimate(y) <= Estimate(x)
  <2> SUFFICES ASSUME NEW y \in Routes PROVE Estimate(y) <= Estimate(x)
    OBVIOUS
  <2>1. Estimate(x) \in Nat /\ Estimate(y) \in Nat /\ ~(Estimate(y) > Estimate(x))
    BY <1>3, EstimatesAreNatural
  <2> QED BY <2>1
<1> QED BY <1>4

(* What a stage has been allowed to pay and has not paid yet.              *)
Due(role) == IF stage[role].status = "called" THEN stage[role].plan.cost ELSE 0

(* What is paid and what is due.                                           *)
Committed == spent + Due("technical") + Due("intel") + Due("risk_portfolio") + Due("decision")

(* The estimate of the costliest route.                                    *)
Top == Estimate(CHOOSE top \in Routes : \A r \in Routes : Estimate(r) <= Estimate(top))

(* A call costs at most the highest estimate.                              *)
CallsAreEstimated ==
  /\ spent \in Nat
  /\ \A role \in Roles : stage[role].status = "called" => stage[role].plan.cost \in 0..Top

(* A stage is called after the ones it waits for, the decision after all.  *)
CalledInOrder ==
  \A role \in Roles : stage[role].status = "called" =>
    /\ \A r \in After[role] \cap Roles : Done(r)
    /\ role = "decision" => \A r \in Roles \ {"decision"} : Done(r)

(* What is paid and due is within the budget of the run and the calls that *)
(* may stand beside one.                                                   *)
CommitmentsAreBounded ==
  \E role \in Roles \ {"decision"} : Committed <= Policy.run + Cardinality(Beside(role)) * Top

(* The inductive invariant behind SpendIsBounded: the bound holds of what  *)
(* is due as well, since it is due that no later plan refuses.             *)
SpendInv == StagesAreThere /\ CallsAreEstimated /\ CalledInOrder /\ CommitmentsAreBounded

(* It is a number that no estimate exceeds.                                *)
LEMMA TopIsHighest == Top \in Nat /\ (\A r \in Routes : Estimate(r) <= Top) /\ \E r \in Routes : Top = Estimate(r)
BY CostliestExists, EstimatesAreNatural DEF Top

(* A stage owes at most the highest estimate.                              *)
LEMMA DuesAreBounded == ASSUME CallsAreEstimated PROVE \A role \in Roles : Due(role) \in 0..Top
BY TopIsHighest DEF CallsAreEstimated, Due

(* The calls that may stand beside one that is planned.                    *)
LEMMA OthersFitBeside ==
  ASSUME NEW S, NEW a, NEW b, a # b, S \subseteq {a, b},
         NEW x \in 0..Top, NEW y \in 0..Top, a \notin S => x = 0, b \notin S => y = 0
  PROVE  Cardinality(S) \in Nat /\ x + y <= Cardinality(S) * Top
<1>1. Top \in Nat
  BY TopIsHighest
<1>2. CASE S = {}
  BY <1>1, <1>2, FS_EmptySet
<1>3. ASSUME NEW c, S = {c}, x + y <= Top PROVE Cardinality(S) \in Nat /\ x + y <= Cardinality(S) * Top
  <2>1. Cardinality(S) = 1
    BY <1>3, FS_Singleton
  <2> QED BY <1>1, <1>3, <2>1
<1>4. CASE S = {a, b}
  <2>1. Cardinality(S) = 2
    <3>1. IsFiniteSet({a}) /\ Cardinality({a}) = 1
      BY FS_Singleton
    <3>2. {a, b} = {a} \cup {b}
      OBVIOUS
    <3> QED BY <1>4, <3>1, <3>2, FS_AddElement
  <2> QED BY <1>1, <2>1
<1>5. S = {} \/ S = {a} \/ S = {b} \/ S = {a, b}
  OBVIOUS
<1>6. S = {a} \/ S = {b} => x + y <= Top
  BY <1>1
<1>7. CASE S = {a} \/ S = {b}
  BY <1>3, <1>6, <1>7
<1> QED BY <1>2, <1>4, <1>5, <1>7

(* They are as many as a number says.                                      *)
LEMMA BesideIsNat ==
  ASSUME NEW role \in Roles PROVE Cardinality(Beside(role)) \in Nat
<1>1. Roles = ({"technical"} \cup {"intel"}) \cup ({"risk_portfolio"} \cup {"decision"})
  BY DEF Roles
<1>2. IsFiniteSet(Roles)
  BY <1>1, FS_Singleton, FS_Union
<1>3. Beside(role) \subseteq Roles
  BY DEF Beside
<1> QED BY <1>2, <1>3, FS_Subset, FS_CardinalityType

(* The invariant bounds what is paid.                                      *)
LEMMA BoundIsSpend == SpendInv => SpendIsBounded
<1> SUFFICES ASSUME SpendInv PROVE SpendIsBounded
  OBVIOUS
<1>1. spent <= Committed /\ spent \in Nat /\ Committed \in Nat
  BY DuesAreBounded, TopIsHighest DEF SpendInv, CallsAreEstimated, Committed, Roles
<1>2. PICK role \in Roles \ {"decision"} : Committed <= Policy.run + Cardinality(Beside(role)) * Top
  BY DEF SpendInv, CommitmentsAreBounded
<1>3. Policy.run + Cardinality(Beside(role)) * Top \in Nat
  <2>1. Cardinality(Beside(role)) * Top \in Nat
    BY BesideIsNat, TopIsHighest
  <2> QED BY <2>1, BudgetsAreNatural
<1>4. spent <= Policy.run + Cardinality(Beside(role)) * Top
  BY <1>1, <1>2, <1>3
<1>5. PICK r \in Routes : Top = Estimate(r)
  BY TopIsHighest
<1> QED BY <1>4, <1>5 DEF SpendIsBounded

(* Stages are called in order, and done stages stay done.                  *)
LEMMA StepOrder == SpendInv /\ [Next]_vars => CalledInOrder'
<1> SUFFICES ASSUME SpendInv, [Next]_vars PROVE CalledInOrder'
  OBVIOUS
<1> USE DEF SpendInv, Done
<1>1. ASSUME NEW role \in Roles, NEW s, stage' = [stage EXCEPT ![role] = s], stage[role].status # "done",
             s.status = "called" =>
               /\ \A r \in After[role] \cap Roles : Done(r)
               /\ role = "decision" => \A r \in Roles \ {"decision"} : Done(r)
      PROVE  CalledInOrder'
  <2>1. \A r \in Roles : stage'[r] = IF r = role THEN s ELSE stage[r]
    BY <1>1 DEF StagesAreThere
  <2>2. \A r \in Roles : Done(r) => stage'[r].status = "done"
    BY <1>1, <2>1
  <2>3. ASSUME NEW q \in Roles, stage'[q].status = "called"
        PROVE  /\ \A r \in After[q] \cap Roles : Done(r)
               /\ q = "decision" => \A r \in Roles \ {"decision"} : Done(r)
    BY <1>1, <2>1, <2>3 DEF CalledInOrder
  <2> HIDE DEF Done
  <2>4. \A r \in Roles : Done(r) => Done(r)'
    BY <2>2 DEF Done
  <2> QED BY <2>3, <2>4 DEF CalledInOrder
<1>2. ASSUME NEW role \in Roles, Prepare(role) PROVE CalledInOrder'
  <2>1. PICK s : stage' = [stage EXCEPT ![role] = s]
    BY <1>2 DEF Prepare
  <2>2. /\ stage[role].status = "waiting" /\ \A r \in After[role] : Done(r)
        /\ role = "decision" => \A r \in Roles \ {"decision"} : Done(r)
    BY <1>2 DEF Prepare
  <2> QED BY <1>1, <2>1, <2>2
<1>3. ASSUME NEW role \in Roles, Answer(role) \/ AnswerFromCache(role) PROVE CalledInOrder'
  <2>1. PICK answer : stage' = [stage EXCEPT ![role] = Checked(role, answer)]
    BY <1>3 DEF Answer, AnswerFromCache
  <2>2. Checked(role, answer).status # "called" /\ stage[role].status = "called"
    BY <1>3, CheckedKeeps DEF Answer, AnswerFromCache
  <2> QED BY <1>1, <2>1, <2>2
<1>4. ASSUME NEW role \in Roles, AnswerLost(role) PROVE CalledInOrder'
  <2> DEFINE s == [EmptyStage EXCEPT !.binding = stage[role].binding, !.attempt = stage[role].attempt + 1]
  <2>1. s.status = "waiting"
    BY LostFields
  <2>2. stage' = [stage EXCEPT ![role] = s] /\ stage[role].status = "called"
    BY <1>4 DEF AnswerLost
  <2> HIDE DEF s
  <2> QED BY <1>1, <2>1, <2>2
<1>5. CASE UNCHANGED stage
  BY <1>5 DEF CalledInOrder
<1> QED
  BY <1>2, <1>3, <1>4, <1>5 DEF Next, vars, runVars, Begin, WriteRecord, WriteRevision, Crash,
     PublishPrompt, MinutePasses, Render

(* A planned call is free or within the budget of the run.                 *)
LEMMA PreparedCosts ==
  ASSUME SpendInv, NEW role \in Roles, NEW binding, Prepared(role, binding).status = "called"
  PROVE  LET cost == Prepared(role, binding).plan.cost
         IN  cost \in 0..Top /\ (cost = 0 \/ spent + cost <= Policy.run)
<1> DEFINE bundle == Build(RequestOf(role), FindEvidence(RequestOf(role)))
           plan == PlanFor(bundle, binding)
           usage == [run_spent |-> spent, daily_spent |-> spent, recent_calls |-> calls]
           request == RequestFor(bundle, binding)
<1>1. plan.route # NoRoute /\ Prepared(role, binding).plan.cost = plan.cost
  BY DEF Prepared
<1>2. plan = R!Plan(Prices, Routes, request, Policy, usage, receipts)
  BY DEF PlanFor
<1>3. request.prompt_tokens = PromptTokens /\ request.max_output_tokens = OutputTokens /\ usage.run_spent = spent
  BY DEF RequestFor
<1> HIDE DEF plan, usage, request
<1>4. /\ plan.route \in Routes
      /\ plan.cost = 0 \/ (plan.cost = Estimate(plan.route)
                           /\ R!BudgetRejection(plan.cost, Policy, usage) = "none")
  BY <1>1, <1>2, <1>3, PlanIsAnOutcome, OutcomeIsOwn DEF Estimate
<1>5. plan.cost \in 0..Top
  BY <1>4, EstimatesAreNatural, TopIsHighest
<1>6. spent \in Nat /\ Policy.run \in Nat /\ Policy.invocation \in Nat /\ Top \in Nat
  BY BudgetsAreNatural, TopIsHighest DEF SpendInv, CallsAreEstimated
<1>7. R!BudgetRejection(plan.cost, Policy, usage) = "none" => ~(spent + plan.cost > Policy.run)
  BY <1>3, <1>5, <1>6 DEF R!BudgetRejection
<1> QED BY <1>1, <1>4, <1>5, <1>6, <1>7

(* A stage that is planned finds called only stages that may stand beside  *)
(* it.                                                                     *)
LEMMA PreparedBeside ==
  ASSUME SpendInv, NEW role \in Roles, Prepare(role), NEW other \in Roles, other # role,
         stage[other].status = "called"
  PROVE  role # "decision" /\ other \in Beside(role)
<1>1. stage[role].status = "waiting" /\ \A r \in After[role] : Done(r)
  BY DEF Prepare
<1>2. role = "decision" => \A r \in Roles \ {"decision"} : Done(r)
  BY DEF Prepare
<1>3. ~Done(role) /\ ~Done(other)
  BY <1>1 DEF Done
<1>4. other # "decision" /\ role \notin After[other]
  BY <1>3 DEF SpendInv, CalledInOrder
<1>5. role # "decision" /\ other \notin After[role]
  BY <1>1, <1>2, <1>3, <1>4
<1> QED BY <1>4, <1>5 DEF Beside

(* Planning a call keeps the bound.                                        *)
LEMMA PreparedIsBounded ==
  ASSUME SpendInv, NEW role \in Roles, Prepare(role)
  PROVE  CallsAreEstimated' /\ CommitmentsAreBounded'
<1>1. PICK binding : stage' = [stage EXCEPT ![role] = Prepared(role, binding)]
  BY DEF Prepare
<1> DEFINE s == Prepared(role, binding)
           cost == IF s.status = "called" THEN s.plan.cost ELSE 0
<1>2. cost \in 0..Top /\ (cost = 0 \/ spent + cost <= Policy.run)
  BY PreparedCosts, TopIsHighest
<1>3. \A r \in Roles : stage'[r] = IF r = role THEN s ELSE stage[r]
  BY <1>1 DEF SpendInv, StagesAreThere
<1>4. spent' = spent /\ spent \in Nat /\ stage[role].status = "waiting"
  BY DEF Prepare, SpendInv, CallsAreEstimated
<1>5. CallsAreEstimated'
  BY <1>2, <1>3, <1>4 DEF SpendInv, CallsAreEstimated
<1>6. (\A r \in Roles \ {role} : Due(r)' = Due(r)) /\ Due(role)' = cost /\ Due(role) = 0
  BY <1>3, <1>4 DEF Due
<1> HIDE DEF s, cost
<1>7. \A r \in Roles : Due(r) \in 0..Top
  BY DuesAreBounded DEF SpendInv
<1>8. Policy.run \in Nat /\ Top \in Nat
  BY BudgetsAreNatural, TopIsHighest
<1>9. CASE cost = 0
  <2>1. Committed' = Committed
    BY <1>4, <1>6, <1>9 DEF Committed, Roles
  <2> QED BY <1>5, <2>1 DEF SpendInv, CommitmentsAreBounded
<1>10. CASE cost # 0
  <2>1. spent + cost <= Policy.run
    BY <1>2, <1>10
  <2>2. \A r \in Roles \ {role} : r \notin Beside(role) => Due(r) = 0
    BY PreparedBeside DEF Due
  <2>3. role = "decision" => \A r \in Roles \ {role} : Due(r) = 0
    BY PreparedBeside DEF Due
  <2>4. ASSUME role # "decision" PROVE Committed' <= Policy.run + Cardinality(Beside(role)) * Top
    <3>1. PICK a \in Roles, b \in Roles : a # b /\ Roles = {role, a, b, "decision"} /\ role \notin {a, b, "decision"}
                                         /\ "decision" \notin {a, b}
      BY <2>4 DEF Roles
    <3>2. Beside(role) \subseteq {a, b}
      BY <3>1 DEF Beside
    <3>3. Due("decision") = 0
      BY <2>2, <3>1, <3>2
    <3>4. Cardinality(Beside(role)) \in Nat /\ Due(a) + Due(b) <= Cardinality(Beside(role)) * Top
      BY <1>7, <2>2, <3>1, <3>2, OthersFitBeside
    <3>5. Committed' = spent + cost + Due(a) + Due(b)
      <4>1. /\ Due("technical")' = IF role = "technical" THEN cost ELSE Due("technical")
            /\ Due("intel")' = IF role = "intel" THEN cost ELSE Due("intel")
            /\ Due("risk_portfolio")' = IF role = "risk_portfolio" THEN cost ELSE Due("risk_portfolio")
            /\ Due("decision")' = 0
        BY <1>6, <2>4, <3>3 DEF Roles
      <4>2. {a, b} = {"technical", "intel", "risk_portfolio"} \ {role}
        BY <3>1 DEF Roles
      <4> QED BY <1>2, <1>4, <1>7, <1>8, <2>4, <3>1, <4>1, <4>2 DEF Committed, Roles
    <3>6. Cardinality(Beside(role)) * Top \in Nat
      BY <1>8, <3>4
    <3> QED BY <1>2, <1>4, <1>7, <1>8, <2>1, <3>1, <3>4, <3>5, <3>6
  <2>5. ASSUME role = "decision" PROVE Committed' <= Policy.run + Cardinality(Beside("technical")) * Top
    <3>1. Committed' = spent + cost
      BY <1>2, <1>4, <1>6, <1>8, <2>3, <2>5 DEF Committed, Roles
    <3>2. Cardinality(Beside("technical")) * Top \in Nat
      BY <1>8, BesideIsNat DEF Roles
    <3> QED BY <1>2, <1>4, <1>8, <2>1, <3>1, <3>2
  <2>6. CommitmentsAreBounded'
    BY <2>4, <2>5 DEF CommitmentsAreBounded, Roles, Top, Beside
  <2> QED BY <1>5, <2>6
<1> QED BY <1>9, <1>10

(* A stage that leaves its call has paid what was due, or owes nothing.    *)
LEMMA CallEnds ==
  ASSUME SpendInv, NEW role \in Roles, NEW s, stage' = [stage EXCEPT ![role] = s], s.status # "called",
         stage[role].status = "called", spent' \in {spent, spent + stage[role].plan.cost}
  PROVE  CallsAreEstimated' /\ CommitmentsAreBounded'
<1>1. \A r \in Roles : stage'[r] = IF r = role THEN s ELSE stage[r]
  BY DEF SpendInv, StagesAreThere
<1>2. CallsAreEstimated'
  BY <1>1, TopIsHighest DEF SpendInv, CallsAreEstimated
<1>3. (\A r \in Roles \ {role} : Due(r)' = Due(r)) /\ Due(role)' = 0 /\ Due(role) = stage[role].plan.cost
  BY <1>1 DEF Due
<1>4. (\A r \in Roles : Due(r) \in 0..Top) /\ spent \in Nat /\ Top \in Nat
  BY DuesAreBounded, TopIsHighest DEF SpendInv, CallsAreEstimated
<1>5. Committed' <= Committed /\ Committed' \in Nat /\ Committed \in Nat
  BY <1>3, <1>4 DEF Committed, Roles
<1>6. PICK q \in Roles \ {"decision"} : Committed <= Policy.run + Cardinality(Beside(q)) * Top
  BY DEF SpendInv, CommitmentsAreBounded
<1>7. Policy.run + Cardinality(Beside(q)) * Top \in Nat
  <2>1. Cardinality(Beside(q)) * Top \in Nat
    BY <1>4, BesideIsNat
  <2> QED BY <2>1, BudgetsAreNatural
<1>8. Committed' <= Policy.run + Cardinality(Beside(q)) * Top
  BY <1>5, <1>6, <1>7
<1>9. CommitmentsAreBounded'
  BY <1>8 DEF CommitmentsAreBounded, Top, Beside
<1> QED BY <1>2, <1>9

(* The invariant is inductive.                                             *)
LEMMA StepSpend == SpendInv /\ [Next]_vars => SpendInv'
<1> SUFFICES ASSUME SpendInv, [Next]_vars PROVE CallsAreEstimated' /\ CommitmentsAreBounded'
  BY StepStages, StepOrder DEF SpendInv
<1>1. ASSUME NEW role \in Roles, Answer(role) \/ AnswerFromCache(role)
      PROVE  CallsAreEstimated' /\ CommitmentsAreBounded'
  <2>1. PICK answer : stage' = [stage EXCEPT ![role] = Checked(role, answer)]
    BY <1>1 DEF Answer, AnswerFromCache
  <2>2. StagesAreThere
    BY DEF SpendInv
  <2>3. Checked(role, answer).status # "called"
    BY <2>2, CheckedKeeps
  <2>4. stage[role].status = "called" /\ spent' \in {spent, spent + stage[role].plan.cost}
    BY <1>1 DEF Answer, AnswerFromCache, Paid
  <2> QED BY <2>1, <2>3, <2>4, CallEnds
<1>2. ASSUME NEW role \in Roles, AnswerLost(role)
      PROVE  CallsAreEstimated' /\ CommitmentsAreBounded'
  <2> DEFINE s == [EmptyStage EXCEPT !.binding = stage[role].binding, !.attempt = stage[role].attempt + 1]
  <2>1. s.status = "waiting"
    BY LostFields
  <2>2. stage' = [stage EXCEPT ![role] = s] /\ stage[role].status = "called" /\ spent' = spent + stage[role].plan.cost
    BY <1>2 DEF AnswerLost, Paid
  <2> HIDE DEF s
  <2> QED BY <2>1, <2>2, CallEnds
<1>3. CASE UNCHANGED <<stage, spent>>
  BY <1>3 DEF SpendInv, CallsAreEstimated, CommitmentsAreBounded, Committed, Due, Top, Beside
<1> QED
  BY <1>1, <1>2, <1>3, PreparedIsBounded DEF Next, vars, runVars, Begin, WriteRecord, WriteRevision, Crash,
     PublishPrompt, MinutePasses, Render

(* What a run pays exceeds its budget by at most the estimate of each      *)
(* stage planned beside the last one (SpendIsBounded), for any prices,     *)
(* routes and order of the stages, lost and cached answers included.       *)
THEOREM SpendIsAlwaysBounded == Spec => []SpendIsBounded
<1>1. Init => SpendInv
  <2> SUFFICES ASSUME Init PROVE SpendInv
    OBVIOUS
  <2>1. \A role \in Roles : stage[role].status = "waiting"
    BY DEF Init, EmptyStage
  <2>2. CallsAreEstimated /\ CalledInOrder
    BY <2>1 DEF Init, CallsAreEstimated, CalledInOrder
  <2>3. Committed = 0
    BY <2>1 DEF Init, Committed, Due, Roles
  <2>4. "technical" \in Roles \ {"decision"}
    BY DEF Roles
  <2>5. Cardinality(Beside("technical")) * Top \in Nat
    BY <2>4, BesideIsNat, TopIsHighest
  <2>6. Committed <= Policy.run + Cardinality(Beside("technical")) * Top
    BY <2>3, <2>5, BudgetsAreNatural
  <2> QED BY <2>2, <2>4, <2>6, InitStages DEF SpendInv, CommitmentsAreBounded
<1> QED BY <1>1, StepSpend, BoundIsSpend, PTL DEF Spec

(***************************************************************************)
(* What a report shows as verified.                                        *)
(***************************************************************************)

(* A report has its fields, and nothing in it was unknown at its time.     *)
ReportFields(r) ==
  r = [decision_time |-> r.decision_time, evidence |-> r.evidence, citations |-> r.citations,
       claims |-> r.claims, report_level |-> r.report_level]

KnowsInTime(r) == ReportFields(r) /\ \A e \in r.evidence : e.available_at <= r.decision_time

(* The claims a report shows as verified.                                  *)
VerifiedIn(report) == {c \in report.claims : c.verification_status = "verified"}

(* Each citation of the claim leads to evidence known in time, the lineage *)
(* of which the claim carries.                                             *)
IsTraceableIn(report, claim) ==
  \A i \in claim.citation_ids : \E c \in report.citations : \E e \in report.evidence :
    /\ c.citation_id = i /\ c.evidence_id = e.evidence_id
    /\ e.available_at <= report.decision_time
    /\ \A f \in LineageFields : e.lineage[f] # None => claim.lineage[f] = e.lineage[f]

(* A claim taken down is not verified any more.                            *)
LEMMA DowngradedIsNotVerified ==
  ASSUME NEW report, NEW claim PROVE Downgraded(report, claim).verification_status # "verified"
<1>1. \A codes : StatusForIssues(codes) \in {"citation_missing", "insufficient_evidence", "rejected", "value_mismatch"}
  BY DEF StatusForIssues
<1> QED BY <1>1 DEF Downgraded

(* A claim without issues is traceable.                                    *)
LEMMA PassingIsTraceable ==
  ASSUME NEW report, KnowsInTime(report), NEW claim \in report.claims, ClaimIssues(report, claim) = {}
  PROVE  IsTraceableIn(report, claim)
<1> SUFFICES ASSUME NEW i \in claim.citation_ids
             PROVE  \E c \in report.citations : \E e \in report.evidence :
                      /\ c.citation_id = i /\ c.evidence_id = e.evidence_id
                      /\ e.available_at <= report.decision_time
                      /\ \A f \in LineageFields : e.lineage[f] # None => claim.lineage[f] = e.lineage[f]
  BY DEF IsTraceableIn
<1> DEFINE named(j) == {c \in report.citations : c.citation_id = j}
           IssuesOf(c) == CitationIssues(report, c) \cup ClaimCitationIssues(claim, c)
<1>1. claim.kind \in MandatoryCitationKinds => claim.citation_ids # {}
  OBVIOUS
<1>2. When(named(i) = {}, "unknown_citation") \cup UNION {IssuesOf(c) : c \in named(i)} = {}
  <2> DEFINE Under(j) == When(named(j) = {}, "unknown_citation") \cup UNION {IssuesOf(c) : c \in named(j)}
  <2>1. ~(claim.kind \in MandatoryCitationKinds /\ claim.citation_ids = {})
    BY <1>1
  <2>2. UNION {Under(j) : j \in claim.citation_ids} = {}
    BY <2>1 DEF ClaimIssues
  <2> HIDE DEF Under
  <2>3. Under(i) = {}
    BY <2>2
  <2> QED BY <2>3 DEF Under
<1>3. named(i) # {} /\ \A c \in named(i) : CitationIssues(report, c) = {} /\ ClaimCitationIssues(claim, c) = {}
  BY <1>2 DEF When
<1>4. PICK c \in report.citations : /\ c.citation_id = i
                                    /\ CitationIssues(report, c) = {} /\ ClaimCitationIssues(claim, c) = {}
  BY <1>3
<1> HIDE DEF named, IssuesOf
<1>5. PICK e \in report.evidence : e.evidence_id = c.evidence_id
  BY <1>4 DEF CitationIssues, When
<1>6. Departures(c.lineage, e.lineage) = {}
  <2>1. {IssueOf[f] : f \in Departures(c.lineage, e.lineage)} = {}
    BY <1>4, <1>5 DEF CitationIssues
  <2> QED BY <2>1
<1>7. Departures(claim.lineage, c.lineage) = {}
  <2>1. {IssueOf[f] : f \in Departures(claim.lineage, c.lineage)} = {}
    BY <1>4 DEF ClaimCitationIssues, SharedLineageIssues
  <2> QED BY <2>1
<1>8. \A f \in LineageFields : e.lineage[f] # None => claim.lineage[f] = e.lineage[f]
  BY <1>6, <1>7 DEF Departures
<1> QED BY <1>4, <1>5, <1>8 DEF KnowsInTime

(* The report a validation leaves is the one it was given, with other      *)
(* claims and the level that follows from them.                            *)
LEMMA ResultFields ==
  ASSUME NEW report, ReportFields(report), NEW claims, NEW removed, NEW repaired
  PROVE  LET result == ResultOf(report, claims, removed, repaired)
         IN  /\ result.report_level = ReportLevel(claims, HasIssues(report))
             /\ result.validated_report =
                  [decision_time |-> report.decision_time, evidence |-> report.evidence,
                   citations |-> report.citations, claims |-> claims,
                   report_level |-> ReportLevel(claims, HasIssues(report))]
<1>1. ASSUME NEW level, NEW t, t = [report EXCEPT !.claims = claims, !.report_level = level]
      PROVE  t = [decision_time |-> report.decision_time, evidence |-> report.evidence,
                  citations |-> report.citations, claims |-> claims, report_level |-> level]
  BY <1>1, Zenon DEF ReportFields
<1>2. ResultOf(report, claims, removed, repaired).validated_report =
        [report EXCEPT !.claims = claims, !.report_level = ReportLevel(claims, HasIssues(report))]
  BY DEF ResultOf
<1>3. ResultOf(report, claims, removed, repaired).report_level = ReportLevel(claims, HasIssues(report))
  BY DEF ResultOf
<1> QED BY <1>1, <1>2, <1>3, Zenon

(* What a validation leaves is sound: a result of it with claims that are  *)
(* verified only where they have no issue.                                 *)
IsSound(result) ==
  LET report == result.validated_report
  IN  /\ KnowsInTime(report)
      /\ result.report_level = "verified" => report.claims # {} /\ VerifiedIn(report) = report.claims
      /\ \A claim \in VerifiedIn(report) : IsTraceableIn(report, claim)

(* A result the verified claims of which had no issue is sound.            *)
LEMMA ResultIsSound ==
  ASSUME NEW report, KnowsInTime(report), NEW claims, NEW removed, NEW repaired,
         \A c \in claims : c.verification_status = "verified" => c \in report.claims /\ ClaimIssues(report, c) = {}
  PROVE  IsSound(ResultOf(report, claims, removed, repaired))
<1> DEFINE result == ResultOf(report, claims, removed, repaired)
           left == result.validated_report
<1>1. /\ result.report_level = ReportLevel(claims, HasIssues(report))
      /\ left = [decision_time |-> report.decision_time, evidence |-> report.evidence,
                 citations |-> report.citations, claims |-> claims,
                 report_level |-> ReportLevel(claims, HasIssues(report))]
  BY ResultFields DEF KnowsInTime
<1> HIDE DEF result
<1>2. KnowsInTime(left)
  BY <1>1 DEF KnowsInTime, ReportFields
<1>3. result.report_level = "verified" => left.claims # {} /\ VerifiedIn(left) = left.claims
  BY <1>1 DEF ReportLevel, VerifiedIn
<1>4. ASSUME NEW c \in VerifiedIn(left) PROVE IsTraceableIn(left, c)
  <2>1. IsTraceableIn(report, c)
    BY <1>1, <1>4, PassingIsTraceable DEF VerifiedIn
  <2>2. left.citations = report.citations /\ left.evidence = report.evidence /\ left.decision_time = report.decision_time
    BY <1>1
  <2> QED BY <2>1, <2>2 DEF IsTraceableIn
<1> QED BY <1>2, <1>3, <1>4 DEF IsSound, result

(* A validation is sound, of a report validated before as well.            *)
LEMMA ValidateIsSound == ASSUME NEW report, KnowsInTime(report) PROVE IsSound(Validate(report))
<1> DEFINE claims == (report.claims \ Failing(report)) \cup {Downgraded(report, c) : c \in Failing(report)}
<1>1. \A c \in claims : c.verification_status = "verified" => c \in report.claims /\ ClaimIssues(report, c) = {}
  BY DowngradedIsNotVerified DEF Failing
<1> HIDE DEF claims
<1>2. IsSound(ResultOf(report, claims, {}, FALSE))
  BY <1>1, ResultIsSound
<1> QED BY <1>2 DEF Validate, claims

(* So is one with a repair.                                                *)
LEMMA RepairIsSound ==
  ASSUME NEW report, KnowsInTime(report), NEW repair, repair = None \/ KnowsInTime(repair)
  PROVE  IsSound(ValidateWithRepair(report, repair))
<1>1. CASE ~HasIssues(report) \/ repair = None
  BY <1>1, ValidateIsSound DEF ValidateWithRepair
<1>2. CASE HasIssues(report) /\ repair # None
  <2> DEFINE claims == repair.claims \ Failing(repair)
  <2>1. \A c \in claims : c \in repair.claims /\ ClaimIssues(repair, c) = {}
    BY DEF Failing
  <2> HIDE DEF claims
  <2>2. IsSound(ResultOf(repair, claims, Failing(repair), TRUE))
    BY <1>2, <2>1, ResultIsSound
  <2> QED BY <1>2, <2>2 DEF ValidateWithRepair, claims
<1> QED BY <1>1, <1>2

(* A draft that is a valid report holds no evidence from after its time.   *)
LEMMA DraftsKnowInTime == \A d \in Drafts : ValidReport(d) => KnowsInTime(d)
<1>1. ReportFields(Assembled)
  BY DEF Assembled, ReportFields
<1>2. ASSUME NEW report, ReportFields(report), NEW citations, NEW claims,
             NEW t, t = [report EXCEPT !.citations = citations, !.claims = claims]
      PROVE  t = [decision_time |-> report.decision_time, evidence |-> report.evidence,
                  citations |-> citations, claims |-> claims, report_level |-> report.report_level]
  BY <1>2, Zenon DEF ReportFields
<1>3. ASSUME NEW citation PROVE ReportFields(Relabelled(Assembled, citation))
  <2>1. \E citations, claims : Relabelled(Assembled, citation) = [Assembled EXCEPT !.citations = citations, !.claims = claims]
    BY Zenon DEF Relabelled
  <2> QED BY <1>1, <1>2, <2>1 DEF ReportFields
<1>4. \A d \in Drafts : ReportFields(d)
  BY <1>1, <1>3 DEF Drafts
<1> QED BY <1>4 DEF KnowsInTime, ValidReport

(* What is rendered is the record of a sound result.                       *)
RenderedIsSound == rendered # None => \E result : IsSound(result) /\ rendered = CanonicalRecord(result)

(* A claim shown as verified carries, through each of its citations, the   *)
(* lineage of evidence known by the decision time                          *)
(* (VerifiedClaimsAreTraceable, a part of ReportsHold), whichever draft,   *)
(* repair or second validation the report comes from.                      *)
THEOREM VerifiedIsTraceable == Spec => []VerifiedClaimsAreTraceable
<1>1. Init => RenderedIsSound
  BY DEF Init, RenderedIsSound
<1>2. RenderedIsSound /\ [Next]_vars => RenderedIsSound'
  <2> SUFFICES ASSUME RenderedIsSound, [Next]_vars PROVE RenderedIsSound'
    OBVIOUS
  <2>1. CASE Render
    <3>1. PICK draft \in {d \in Drafts : ValidReport(d)}, repair \in {None} \cup {d \in Drafts : ValidReport(d)} :
            LET result == ValidateWithRepair(draft, repair)
            IN  \E shown \in {result, Validate(result.validated_report)} : rendered' = CanonicalRecord(shown)
      BY <2>1 DEF Render
    <3>2. IsSound(ValidateWithRepair(draft, repair))
      BY DraftsKnowInTime, RepairIsSound
    <3>3. IsSound(Validate(ValidateWithRepair(draft, repair).validated_report))
      BY <3>2, ValidateIsSound DEF IsSound
    <3> QED BY <3>1, <3>2, <3>3 DEF RenderedIsSound
  <2>2. CASE UNCHANGED rendered
    BY <2>2 DEF RenderedIsSound
  <2> QED
    BY <2>1, <2>2 DEF Next, vars, runVars, Begin, WriteRecord, WriteRevision, Crash,
       Prepare, Answer, AnswerLost, AnswerFromCache, PublishPrompt, MinutePasses
<1>3. RenderedIsSound => VerifiedClaimsAreTraceable
  <2> SUFFICES ASSUME NEW result, IsSound(result), rendered = CanonicalRecord(result)
               PROVE  VerifiedClaimsAreTraceable
    BY DEF RenderedIsSound, VerifiedClaimsAreTraceable
  <2>1. rendered.report = result.validated_report /\ rendered.report_level = result.report_level
    BY DEF CanonicalRecord
  <2> QED BY <2>1 DEF VerifiedClaimsAreTraceable, IsSound, VerifiedIn, IsTraceableIn
<1> QED BY <1>1, <1>2, <1>3, PTL DEF Spec
(***************************************************************************)
(* What the report is made of.                                             *)
(***************************************************************************)

(* An output, of which each citation is of evidence that was shown, and of *)
(* which each claim has its citations and, a number, computed evidence.    *)
IsSupportedOutput(items, output) ==
  /\ IsOutput(output)
  /\ \A c \in output.citations : \E e \in ToSet(items) : e.evidence_id = c.evidence_id
  /\ \A claim \in output.claims :
       /\ \A i \in claim.citation_ids : \E c \in output.citations : c.citation_id = i
       /\ claim.kind = "numeric_metric" =>
            claim.computation_policy = "deterministic_evidence" /\ claim.citation_ids # {}

(* What the agents let through is such an output.                          *)
LEMMA FinalIsSupported ==
  ASSUME NEW role, NEW bundle, NEW gate, NEW citedBy, NEW output,
         Finalizes(role, bundle, gate, citedBy, output)
  PROVE  IsSupportedOutput(bundle.items, output)
<1>1. IsOutput(output)
  BY Zenon DEF Finalizes
<1>2. \E allowed : CitationsAgree(role, bundle.items, allowed, output)
  BY Zenon DEF Finalizes
<1>3. \A claim \in output.claims : ClaimAgrees(role, claim, gate, output)
  BY Zenon DEF Finalizes
<1>4. \A c \in output.citations : \E e \in ToSet(bundle.items) : e.evidence_id = c.evidence_id
  BY <1>2, Zenon DEF CitationsAgree
<1>5. ASSUME NEW claim \in output.claims
      PROVE  /\ \A i \in claim.citation_ids : \E c \in output.citations : c.citation_id = i
             /\ claim.kind = "numeric_metric" =>
                  claim.computation_policy = "deterministic_evidence" /\ claim.citation_ids # {}
  <2> DEFINE cited == {c \in output.citations : c.citation_id \in claim.citation_ids}
  <2>1. /\ {c.citation_id : c \in cited} = claim.citation_ids
        /\ claim.kind = "numeric_metric" => claim.computation_policy = "deterministic_evidence"
    BY <1>3, Zenon DEF ClaimAgrees
  <2>2. ValidClaim(claim)
    BY <1>1 DEF IsOutput
  <2>3. \A i \in claim.citation_ids : \E c \in output.citations : c.citation_id = i
    BY <2>1
  <2> QED BY <2>1, <2>2, <2>3 DEF ValidClaim
<1> QED BY <1>1, <1>4, <1>5, Zenon DEF IsSupportedOutput

(* A natural number is reached by the steps from 0.                        *)
LEMMA StepsReach ==
  ASSUME NEW n \in Nat, NEW T, 0 \in T, \A k \in 1..n : k - 1 \in T => k \in T
  PROVE  0..n \subseteq T
<1> DEFINE Bad == {k \in 0..n : k \notin T}
           Before == {p \in (0..n) \X (0..n) : p[1] < p[2]}
<1> SUFFICES ASSUME Bad # {} PROVE FALSE
  OBVIOUS
<1>1. \A x, y \in 0..n : <<x, y>> \in Before <=> x < y
  OBVIOUS
<1> HIDE DEF Before
<1>2. IsFiniteSet(Bad)
  <2>1. IsFiniteSet(0..n) /\ Bad \in SUBSET (0..n)
    BY FS_Interval
  <2> HIDE DEF Bad
  <2> QED BY <2>1, FS_Subset
<1>3. Bad \subseteq 0..n
  OBVIOUS
<1>4. PICK k \in Bad : \A j \in Bad : <<j, k>> \notin Before
  <2>1. \A x \in Bad : <<x, x>> \notin Before
    BY <1>1
  <2>2. \A x, y, z \in Bad : <<x, y>> \in Before /\ <<y, z>> \in Before => <<x, z>> \in Before
    BY <1>1
  <2> HIDE DEF Bad
  <2> QED BY <1>2, <2>1, <2>2, MinimumExists
<1>5. k \in 1..n /\ k - 1 \in 0..n /\ k - 1 < k
  OBVIOUS
<1>6. k - 1 \in Bad
  BY <1>5
<1> QED BY <1>1, <1>3, <1>4, <1>5, <1>6

(* How a bundle is filled, a piece of evidence at a time.                  *)
StartOfBundle == [items |-> <<>>, trimmed |-> {}, tokens |-> SchemaTokens]

AfterPiece(request, b, e) ==
  IF Len(b.items) >= request.max_items \/ b.tokens + EvidenceTokens(e) > request.max_tokens
  THEN [items |-> b.items, trimmed |-> b.trimmed \cup {e}, tokens |-> b.tokens]
  ELSE [items |-> Append(b.items, e), trimmed |-> b.trimmed, tokens |-> b.tokens + EvidenceTokens(e)]

IsFilling(request, ranked, n, f) ==
  f = [k \in 0..n |-> IF k = 0 THEN StartOfBundle ELSE AfterPiece(request, f[k - 1], ranked[k])]

(* A filling of some pieces goes on to the next.                           *)
LEMMA FillingExists ==
  ASSUME NEW request, NEW ranked, NEW n \in Nat PROVE \E f : IsFilling(request, ranked, n, f)
<1> DEFINE Fills(m, f) == IsFilling(request, ranked, m, f)
           T == {m \in 0..n : \E f : Fills(m, f)}
<1>1. 0 \in T
  <2>1. Fills(0, [k \in 0..0 |-> StartOfBundle])
    BY DEF IsFilling
  <2> HIDE DEF Fills
  <2> QED BY <2>1
<1>2. ASSUME NEW m \in 1..n, m - 1 \in T PROVE m \in T
  <2>1. PICK f : Fills(m - 1, f)
    BY <1>2
  <2> DEFINE g == [k \in 0..m |-> IF k = m THEN AfterPiece(request, f[m - 1], ranked[m]) ELSE f[k]]
  <2>2. \A k \in 0..m : k # m => k \in 0..(m - 1) /\ (k # 0 => k - 1 \in 0..(m - 1) /\ k - 1 # m /\ k - 1 \in 0..m)
    OBVIOUS
  <2>3. m \in 0..m /\ m - 1 \in 0..(m - 1) /\ m - 1 \in 0..m /\ m - 1 # m /\ m # 0
    OBVIOUS
  <2>4. \A k \in 0..(m - 1) : f[k] = IF k = 0 THEN StartOfBundle ELSE AfterPiece(request, f[k - 1], ranked[k])
    BY <2>1 DEF IsFilling
  <2>5. \A k \in 0..m : g[k] = IF k = 0 THEN StartOfBundle ELSE AfterPiece(request, g[k - 1], ranked[k])
    <3>1. g[m - 1] = f[m - 1]
      BY <2>3
    <3>2. \A k \in 0..m : k # m => g[k] = f[k]
      OBVIOUS
    <3>3. g[m] = AfterPiece(request, f[m - 1], ranked[m])
      BY <2>3
    <3> HIDE DEF g
    <3> QED BY <2>2, <2>3, <2>4, <3>1, <3>2, <3>3
  <2>6. g = [k \in 0..m |-> g[k]]
    OBVIOUS
  <2> HIDE DEF g
  <2>7. Fills(m, g)
    BY <2>5, <2>6 DEF IsFilling
  <2> HIDE DEF Fills
  <2> QED BY <2>7
<1> HIDE DEF T
<1>3. n \in T
  <2>1. 0..n \subseteq T
    BY <1>1, <1>2, StepsReach
  <2> QED BY <2>1
<1> QED BY <1>3 DEF T

(* What a bundle takes of a finite list is finite.                         *)
LEMMA FilledIsFinite ==
  ASSUME NEW request, NEW ranked, Len(ranked) \in Nat
  PROVE  IsFiniteSet(ToSet(Filled(request, ranked).items))
<1> DEFINE n == Len(ranked)
           f == CHOOSE g : IsFilling(request, ranked, n, g)
           All == {ranked[k] : k \in 1..n}
<1>1. Filled(request, ranked) = f[n]
  BY DEF Filled, IsFilling, AfterPiece, StartOfBundle
<1>2. IsFilling(request, ranked, n, f)
  BY FillingExists
<1> HIDE DEF f, n
<1>3. n \in Nat
  BY DEF n
<1> DEFINE T == {k \in 0..n : f[k].items \in Seq(All)}
<1>4. 0 \in T
  <2>1. f[0] = StartOfBundle /\ 0 \in 0..n
    BY <1>2, <1>3 DEF IsFilling
  <2>2. f[0].items = <<>>
    BY <2>1 DEF StartOfBundle
  <2> HIDE DEF All
  <2>3. <<>> \in Seq(All)
    OBVIOUS
  <2> QED BY <2>1, <2>2, <2>3
<1>5. ASSUME NEW k \in 1..n, k - 1 \in T PROVE k \in T
  <2>1. f[k] = AfterPiece(request, f[k - 1], ranked[k]) /\ ranked[k] \in All /\ k \in 0..n
    BY <1>2, <1>3 DEF IsFilling
  <2> HIDE DEF All
  <2>2. f[k].items \in {f[k - 1].items, Append(f[k - 1].items, ranked[k])}
    BY <2>1 DEF AfterPiece
  <2>3. f[k - 1].items \in Seq(All)
    BY <1>5
  <2>4. Append(f[k - 1].items, ranked[k]) \in Seq(All)
    BY <2>1, <2>3
  <2>5. f[k].items \in Seq(All)
    BY <2>2, <2>3, <2>4
  <2> QED BY <2>1, <2>5
<1>6. f[n].items \in Seq(All)
  <2> HIDE DEF T
  <2>1. 0..n \subseteq T
    BY <1>3, <1>4, <1>5, StepsReach
  <2> QED BY <1>3, <2>1 DEF T
<1>7. ToSet(f[n].items) \subseteq All
  BY <1>6 DEF ToSet
<1>8. IsFiniteSet(All)
  <2>1. [k \in 1..n |-> ranked[k]] \in Surjection(1..n, All)
    BY DEF Surjection
  <2> QED BY <1>3, <2>1, FS_Interval, FS_Surjection
<1> QED BY <1>1, <1>7, <1>8, FS_Subset

(* A finite set is listed in a finite list.                                *)
LEMMA RankedIsFinite ==
  ASSUME NEW request, NEW S, IsFiniteSet(S) PROVE Len(Ranked(request, S)) \in Nat
<1> DEFINE n == Cardinality(S)
           At(i) == CHOOSE e \in S : Cardinality({d \in S : Precedes(request, d, e)}) = i - 1
<1>1. n \in Nat
  BY FS_CardinalityType
<1>2. Ranked(request, S) = [i \in 1..n |-> At(i)]
  BY DEF Ranked
<1> HIDE DEF n, At
<1> QED BY <1>1, <1>2

(* The bundle of a finite store is finite.                                 *)
LEMMA BundleIsFinite ==
  ASSUME NEW request, NEW candidates, IsFiniteSet(candidates)
  PROVE  IsFiniteSet(ToSet(Build(request, candidates).items))
<1> DEFINE seen == {e \in candidates : ~IsExcluded(request, e)}
           distinct == {e \in seen : ~IsRepeatIn(request, seen, e)}
<1>1. distinct \in SUBSET candidates
  OBVIOUS
<1>2. Build(request, candidates).items = Filled(request, Ranked(request, distinct)).items
  BY Zenon DEF Build
<1> HIDE DEF distinct
<1>3. IsFiniteSet(distinct)
  BY <1>1, FS_Subset
<1> QED BY <1>2, <1>3, RankedIsFinite, FilledIsFinite

(* A stage that is done has such an output, one that is called or done a   *)
(* finite bundle, and the decision comes last.                             *)
OutputsAreSupported ==
  \A role \in Roles : Done(role) => IsSupportedOutput(stage[role].bundle.items, stage[role].output)

BundlesAreFinite ==
  \A role \in Roles : stage[role].status \in {"called", "done"} => IsFiniteSet(ToSet(stage[role].bundle.items))

DecisionIsLast == stage["decision"].status \in {"called", "done"} => \A r \in Roles \ {"decision"} : Done(r)

(* The inductive invariant of the stages a report is made of.              *)
StagesAreSupported == OutputsAreSupported /\ BundlesAreFinite /\ DecisionIsLast

FinishedInv == StagesAreThere /\ IsFiniteSet(records) /\ StagesAreSupported

(* The bundle a stage is prepared with is finite.                          *)
LEMMA PreparedIsFinite ==
  ASSUME IsFiniteSet(records), NEW role, NEW binding
  PROVE  IsFiniteSet(ToSet(Prepared(role, binding).bundle.items))
<1> DEFINE request == RequestOf(role)
           visible == {p \in records : IsVisible(p, request)}
<1>1. visible \in SUBSET records
  OBVIOUS
<1>2. IsFiniteSet(visible)
  BY <1>1, FS_Subset
<1>3. FindEvidence(request) = {p.evidence : p \in visible}
  BY DEF FindEvidence
<1>4. [p \in visible |-> p.evidence] \in Surjection(visible, FindEvidence(request))
  BY <1>3 DEF Surjection
<1>5. IsFiniteSet(FindEvidence(request))
  BY <1>2, <1>4, FS_Surjection
<1>6. Prepared(role, binding).bundle = Build(request, FindEvidence(request))
  BY DEF Prepared
<1> QED BY <1>5, <1>6, BundleIsFinite

(* A writer adds one record at a time.                                     *)
LEMMA StoreStaysFinite == IsFiniteSet(records) /\ [Next]_vars => IsFiniteSet(records')
<1> SUFFICES ASSUME IsFiniteSet(records), [Next]_vars PROVE IsFiniteSet(records')
  OBVIOUS
<1>1. ASSUME NEW w \in Writers, WriteRecord(w) PROVE IsFiniteSet(records')
  <2> DEFINE made == writer[w].made
             kept == records \ Find(made.evidence.evidence_id)
  <2>1. records' = kept \cup {made}
    BY <1>1 DEF WriteRecord, Replaced
  <2>2. kept \in SUBSET records
    OBVIOUS
  <2> HIDE DEF kept
  <2> QED BY <2>1, <2>2, FS_Subset, FS_AddElement
<1>2. CASE UNCHANGED records
  BY <1>2
<1> QED
  BY <1>1, <1>2 DEF Next, vars, storeVars, Begin, WriteRevision, Crash,
     Prepare, Answer, AnswerLost, AnswerFromCache, PublishPrompt, MinutePasses, Render

(* A stage that is done stays as it is.                                    *)
LEMMA DoneStays ==
  ASSUME StagesAreThere, [Next]_vars PROVE \A role \in Roles : Done(role) => stage'[role] = stage[role]
<1>1. ASSUME NEW r \in Roles, NEW s, stage' = [stage EXCEPT ![r] = s], stage[r].status # "done"
      PROVE  \A role \in Roles : Done(role) => stage'[role] = stage[role]
  BY <1>1 DEF StagesAreThere, Done
<1>2. ASSUME NEW r \in Roles, Prepare(r) \/ Answer(r) \/ AnswerLost(r) \/ AnswerFromCache(r)
      PROVE  (\E s : stage' = [stage EXCEPT ![r] = s]) /\ stage[r].status # "done"
  BY <1>2, Zenon DEF Prepare, Answer, AnswerLost, AnswerFromCache
<1>3. CASE UNCHANGED stage
  BY <1>3
<1> QED
  BY <1>1, <1>2, <1>3 DEF Next, vars, runVars, Begin, WriteRecord, WriteRevision, Crash,
     PublishPrompt, MinutePasses, Render

(* The invariant is inductive.                                             *)
LEMMA StepFinished == FinishedInv /\ [Next]_vars => FinishedInv'
<1> SUFFICES ASSUME FinishedInv, [Next]_vars PROVE StagesAreSupported'
  BY StepStages, StoreStaysFinite DEF FinishedInv
<1> USE DEF FinishedInv, StagesAreSupported, Done
<1>1. ASSUME NEW role \in Roles, NEW s, stage' = [stage EXCEPT ![role] = s], stage[role].status # "done",
             s.status = "done" => IsSupportedOutput(s.bundle.items, s.output),
             s.status \in {"called", "done"} => IsFiniteSet(ToSet(s.bundle.items)),
             role = "decision" /\ s.status \in {"called", "done"} => \A r \in Roles \ {"decision"} : Done(r)
      PROVE  StagesAreSupported'
  <2>1. \A r \in Roles : stage'[r] = IF r = role THEN s ELSE stage[r]
    BY <1>1 DEF StagesAreThere
  <2>2. OutputsAreSupported'
    BY <1>1, <2>1 DEF OutputsAreSupported
  <2>3. BundlesAreFinite'
    BY <1>1, <2>1 DEF BundlesAreFinite
  <2>4. DecisionIsLast'
    BY <1>1, <2>1 DEF DecisionIsLast, Roles
  <2> QED BY <2>2, <2>3, <2>4
<1>2. ASSUME NEW role \in Roles, Prepare(role) PROVE StagesAreSupported'
  <2>1. PICK binding : stage' = [stage EXCEPT ![role] = Prepared(role, binding)]
    BY <1>2 DEF Prepare
  <2> DEFINE s == Prepared(role, binding)
  <2>2. s.status # "done"
    BY DEF Prepared
  <2>3. stage[role].status # "done" /\ (role = "decision" => \A r \in Roles \ {"decision"} : Done(r))
    BY <1>2 DEF Prepare
  <2>4. IsFiniteSet(ToSet(s.bundle.items)) /\ stage' = [stage EXCEPT ![role] = s]
    BY <2>1, PreparedIsFinite
  <2> HIDE DEF s
  <2> QED BY <1>1, <2>2, <2>3, <2>4
<1>3. ASSUME NEW role \in Roles, NEW answer, stage[role].status = "called",
             stage' = [stage EXCEPT ![role] = Checked(role, answer)]
      PROVE  StagesAreSupported'
  <2> DEFINE s == Checked(role, answer)
  <2>1. s.bundle = stage[role].bundle /\ s.output = answer.output /\ s.status = CheckedStatus(role, answer)
    BY CheckedKeeps
  <2>2. CheckedStatus(role, answer) = "done" => IsSupportedOutput(stage[role].bundle.items, answer.output)
    BY FinalIsSupported DEF CheckedStatus
  <2>3. s.status = "done" => IsSupportedOutput(s.bundle.items, s.output)
    BY <2>1, <2>2
  <2>4. IsFiniteSet(ToSet(s.bundle.items))
    BY <1>3, <2>1 DEF BundlesAreFinite
  <2>5. role = "decision" => \A r \in Roles \ {"decision"} : Done(r)
    BY <1>3 DEF DecisionIsLast
  <2>6. stage' = [stage EXCEPT ![role] = s]
    BY <1>3
  <2> HIDE DEF s
  <2> QED BY <1>1, <1>3, <2>3, <2>4, <2>5, <2>6
<1>4. ASSUME NEW role \in Roles, AnswerLost(role) PROVE StagesAreSupported'
  <2> DEFINE s == [EmptyStage EXCEPT !.binding = stage[role].binding, !.attempt = stage[role].attempt + 1]
  <2>1. s.status = "waiting"
    BY LostFields
  <2>2. stage' = [stage EXCEPT ![role] = s] /\ stage[role].status = "called"
    BY <1>4 DEF AnswerLost
  <2> HIDE DEF s
  <2> QED BY <1>1, <2>1, <2>2
<1>5. CASE UNCHANGED stage
  BY <1>5 DEF OutputsAreSupported, BundlesAreFinite, DecisionIsLast
<1>6. ASSUME NEW role \in Roles, Answer(role) \/ AnswerFromCache(role) PROVE StagesAreSupported'
  BY <1>3, <1>6 DEF Answer, AnswerFromCache
<1> QED
  BY <1>2, <1>4, <1>5, <1>6 DEF Next, vars, runVars, Begin, WriteRecord, WriteRevision, Crash,
     PublishPrompt, MinutePasses, Render
(***************************************************************************)
(* What the drafts, the repairs and the validations keep of the outputs.   *)
(***************************************************************************)

(* The citations of the outputs are there, each of the same evidence.      *)
KeepsCitations(report) ==
  /\ \A d \in Assembled.citations : \E c \in report.citations : c.citation_id = d.citation_id
  /\ \A c \in report.citations, d \in Assembled.citations :
       c.citation_id = d.citation_id => c.evidence_id = d.evidence_id

(* Under the id of a claim of the outputs is a claim of the same kind.     *)
IsSameClaim(c, d) ==
  c.kind = d.kind /\ c.citation_ids = d.citation_ids /\ c.computation_policy = d.computation_policy

KeepsClaims(report) ==
  \A c \in report.claims, d \in Assembled.claims : c.claim_id = d.claim_id => IsSameClaim(c, d)

(* A claim has the status it was answered with, or issues.                 *)
IsAnswered(claim) ==
  \E a \in Assembled.claims : a.claim_id = claim.claim_id /\ a.verification_status = claim.verification_status

IsStanding(report) == \A c \in report.claims : IsAnswered(c) \/ ClaimIssues(report, c) # {}

(* A report made of the outputs.                                           *)
IsMade(report) ==
  /\ KnowsInTime(report) /\ KeepsCitations(report) /\ KeepsClaims(report) /\ IsStanding(report)
  /\ IsFiniteSet(report.claims)

(* Another run told changes nothing else in a citation or a claim.         *)
LEMMA RelabelledCitation ==
  ASSUME NEW c, IsRecordOf(CitationFields, c), NEW t, t = [c EXCEPT !.lineage["run_id"] = "other"]
  PROVE  t.citation_id = c.citation_id /\ t.evidence_id = c.evidence_id
BY DEF IsRecordOf, CitationFields

(* The same of a claim.                                                    *)
LEMMA RelabelledClaim ==
  ASSUME NEW c, IsRecordOf(ClaimFields, c), NEW t, t = [c EXCEPT !.lineage["run_id"] = "other"]
  PROVE  IsSameClaim(t, c) /\ t.claim_id = c.claim_id /\ t.verification_status = c.verification_status
BY DEF IsRecordOf, ClaimFields, IsSameClaim

(* A draft has an image of every citation and claim of the outputs, and no *)
(* other claim.                                                            *)
IsImage(report) ==
  /\ \A d \in Assembled.citations : \E c \in report.citations :
       c.citation_id = d.citation_id /\ c.evidence_id = d.evidence_id
  /\ \A d \in Assembled.claims : \E c \in report.claims : c.claim_id = d.claim_id /\ IsSameClaim(c, d)
  /\ \A c \in report.claims : IsAnswered(c)
  /\ IsFiniteSet(report.claims)

(* The outputs are finite, and their citations and claims have their form. *)
LEMMA OutputsAreRecords ==
  ASSUME OutputsAreSupported, \A role \in Roles : Done(role)
  PROVE  /\ IsFiniteSet(Assembled.claims)
         /\ \A c \in Assembled.citations : IsRecordOf(CitationFields, c)
         /\ \A c \in Assembled.claims : IsRecordOf(ClaimFields, c)
<1>1. \A role \in Roles : IsOutput(stage[role].output)
  BY DEF OutputsAreSupported, IsSupportedOutput
<1>2. /\ Assembled.citations = UNION {stage[role].output.citations : role \in Roles}
      /\ Assembled.claims = UNION {stage[role].output.claims : role \in Roles}
  BY DEF Assembled
<1>3. IsFiniteSet(Assembled.claims)
  <2> DEFINE C(role) == stage[role].output.claims
  <2>1. \A role \in Roles : IsFiniteSet(C(role))
    BY <1>1 DEF IsOutput
  <2>2. Assembled.claims = C("technical") \cup C("intel") \cup C("risk_portfolio") \cup C("decision")
    BY <1>2 DEF Roles
  <2> HIDE DEF C
  <2>3. IsFiniteSet(C("technical") \cup C("intel"))
    BY <2>1, FS_Union DEF Roles
  <2>4. IsFiniteSet(C("technical") \cup C("intel") \cup C("risk_portfolio"))
    BY <2>1, <2>3, FS_Union DEF Roles
  <2> QED BY <2>1, <2>2, <2>4, FS_Union DEF Roles
<1>4. \A c \in Assembled.citations : IsRecordOf(CitationFields, c)
  BY <1>1, <1>2 DEF IsOutput
<1>5. \A c \in Assembled.claims : IsRecordOf(ClaimFields, c)
  BY <1>1, <1>2 DEF IsOutput
<1> QED BY <1>3, <1>4, <1>5

(* Both kinds of drafts are images of the outputs.                         *)
LEMMA DraftsAreImages ==
  ASSUME OutputsAreSupported, \A role \in Roles : Done(role), NEW draft \in Drafts
  PROVE  IsImage(draft)
<1>1. /\ IsFiniteSet(Assembled.claims)
      /\ \A c \in Assembled.citations : IsRecordOf(CitationFields, c)
      /\ \A c \in Assembled.claims : IsRecordOf(ClaimFields, c)
  BY OutputsAreRecords
<1>2. IsImage(Assembled)
  BY <1>1 DEF IsImage, IsSameClaim, IsAnswered
<1>3. ASSUME NEW x \in stage["technical"].output.citations PROVE IsImage(Relabelled(Assembled, x))
  <2> DEFINE other == [x EXCEPT !.lineage["run_id"] = "other"]
             Told(claim) == IF x.citation_id \in claim.citation_ids
                            THEN [claim EXCEPT !.lineage["run_id"] = "other"] ELSE claim
             report == Relabelled(Assembled, x)
             claims == {Told(claim) : claim \in Assembled.claims}
  <2>1. x \in Assembled.citations
    BY DEF Assembled, Roles
  <2>2. other.citation_id = x.citation_id /\ other.evidence_id = x.evidence_id
    BY <1>1, <2>1, RelabelledCitation
  <2>3. \A claim \in Assembled.claims :
          /\ IsSameClaim(Told(claim), claim) /\ Told(claim).claim_id = claim.claim_id
          /\ Told(claim).verification_status = claim.verification_status
    BY <1>1, RelabelledClaim DEF IsSameClaim
  <2>4. report.citations = (Assembled.citations \ {x}) \cup {other} /\ report.claims = claims
    <3>1. {"citations", "claims"} \subseteq DOMAIN Assembled
      BY DEF Assembled
    <3>2. report = [Assembled EXCEPT !.citations = (Assembled.citations \ {x}) \cup {other}, !.claims = claims]
      BY Zenon DEF Relabelled
    <3> DEFINE cited == (Assembled.citations \ {x}) \cup {other}
    <3>3. report = [Assembled EXCEPT !.citations = cited, !.claims = claims]
      BY <3>2
    <3> HIDE DEF report, claims, cited
    <3>4. report.citations = cited /\ report.claims = claims
      BY <3>1, <3>3
    <3> QED BY <3>4 DEF cited
  <2> HIDE DEF other, Told, report
  <2>5. \A d \in Assembled.citations : \E c \in report.citations :
          c.citation_id = d.citation_id /\ c.evidence_id = d.evidence_id
    BY <2>2, <2>4
  <2>6. \A d \in Assembled.claims : \E c \in report.claims : c.claim_id = d.claim_id /\ IsSameClaim(c, d)
    BY <2>3, <2>4
  <2>7. \A c \in report.claims : IsAnswered(c)
    BY <2>3, <2>4 DEF IsAnswered
  <2>8. IsFiniteSet(report.claims)
    <3>1. [claim \in Assembled.claims |-> Told(claim)] \in Surjection(Assembled.claims, claims)
      BY DEF Surjection
    <3> QED BY <1>1, <2>4, <3>1, FS_Surjection
  <2> QED BY <2>5, <2>6, <2>7, <2>8 DEF IsImage, report
<1> QED BY <1>2, <1>3 DEF Drafts

(* A draft with unique ids is made of the outputs.                         *)
LEMMA DraftsAreMade ==
  ASSUME OutputsAreSupported, \A role \in Roles : Done(role), NEW draft \in Drafts, ValidReport(draft)
  PROVE  IsMade(draft)
<1>1. IsImage(draft) /\ KnowsInTime(draft)
  BY DraftsAreImages, DraftsKnowInTime
<1>2. \A a, b \in draft.citations : a.citation_id = b.citation_id => a = b
  BY DEF ValidReport, Unique
<1>3. \A a, b \in draft.claims : a.claim_id = b.claim_id => a = b
  BY DEF ValidReport, Unique
<1>4. KeepsCitations(draft)
  BY <1>1, <1>2 DEF IsImage, KeepsCitations
<1>5. KeepsClaims(draft)
  BY <1>1, <1>3 DEF IsImage, KeepsClaims
<1>6. IsStanding(draft) /\ IsFiniteSet(draft.claims)
  BY <1>1 DEF IsImage, IsStanding
<1> QED BY <1>1, <1>4, <1>5, <1>6 DEF IsMade
(* A result of which every claim has the status it was answered with or    *)
(* an issue that names it, and the level its claims and issues ask for.    *)
IsExplained(result) ==
  \A c \in result.validated_report.claims :
    IsAnswered(c) \/ \E i \in result.issues : i.claim_id = c.claim_id /\ i.code \in c.warnings

IsFaithful(result) ==
  /\ IsMade(result.validated_report) /\ IsSound(result) /\ IsExplained(result)
  /\ result.report_level = ReportLevel(result.validated_report.claims, result.issues # {})

(* The issues of a claim come from what a validation keeps of it.          *)
LEMMA SameIssues ==
  ASSUME NEW p, NEW q, NEW c, NEW d,
         p.citations = q.citations, p.evidence = q.evidence, p.decision_time = q.decision_time,
         c.kind = d.kind, c.citation_ids = d.citation_ids, c.lineage = d.lineage,
         c.computation_policy = d.computation_policy, c.unit = d.unit,
         c.formula_version = d.formula_version, c.value = d.value
  PROVE  ClaimIssues(p, c) = ClaimIssues(q, d)
<1>1. \A x : CitationIssues(p, x) = CitationIssues(q, x)
  BY DEF CitationIssues
<1>2. \A x : ClaimCitationIssues(c, x) = ClaimCitationIssues(d, x)
  BY DEF ClaimCitationIssues, SharedLineageIssues, NumericIssues, NarrativeIssues, Departures
<1> DEFINE Of(r, claim, i) ==
             UNION {CitationIssues(r, x) \cup ClaimCitationIssues(claim, x) :
                      x \in {x \in r.citations : x.citation_id = i}}
           Unknown(r, i) == When({x \in r.citations : x.citation_id = i} = {}, "unknown_citation")
           Under(r, claim, i) == Unknown(r, i) \cup Of(r, claim, i)
<1>3. \A i : Of(p, c, i) = Of(q, d, i) /\ Unknown(p, i) = Unknown(q, i)
  <2> DEFINE X(x) == CitationIssues(p, x) \cup ClaimCitationIssues(c, x)
             Y(x) == CitationIssues(q, x) \cup ClaimCitationIssues(d, x)
  <2>1. \A x : X(x) = Y(x)
    BY <1>1, <1>2
  <2> HIDE DEF X, Y
  <2>2. \A i : UNION {X(x) : x \in {x \in p.citations : x.citation_id = i}} =
               UNION {Y(x) : x \in {x \in q.citations : x.citation_id = i}}
    BY <2>1
  <2> QED BY <2>2 DEF X, Y
<1>4. \A r, claim : ClaimIssues(r, claim) =
        IF claim.kind \in MandatoryCitationKinds /\ claim.citation_ids = {} THEN {"missing_citation"}
        ELSE UNION {Under(r, claim, i) : i \in claim.citation_ids}
  BY Zenon DEF ClaimIssues
<1> HIDE DEF Of, Unknown
<1>5. \A i : Under(p, c, i) = Under(q, d, i)
  BY <1>3
<1> HIDE DEF Under
<1> QED BY <1>4, <1>5

(* A claim taken down keeps its issues, and its warnings tell them.        *)
LEMMA DowngradedKeeps ==
  ASSUME NEW report, NEW claim
  PROVE  LET d == Downgraded(report, claim)
         IN  /\ d.claim_id = claim.claim_id /\ IsSameClaim(d, claim)
             /\ ClaimIssues(report, claim) \subseteq d.warnings
             /\ \A left : left.citations = report.citations /\ left.evidence = report.evidence
                            /\ left.decision_time = report.decision_time =>
                  ClaimIssues(left, d) = ClaimIssues(report, claim)
BY SameIssues DEF Downgraded, IsSameClaim

(* A result the claims of which are made of those of the report.           *)
LEMMA ResultIsFaithful ==
  ASSUME NEW report, IsMade(report), NEW claims, NEW removed, NEW repaired,
         IsFiniteSet(claims), IsSound(ResultOf(report, claims, removed, repaired)),
         \A c \in claims :
           \/ c \in report.claims /\ ClaimIssues(report, c) = {}
           \/ \E d \in Failing(report) : c = Downgraded(report, d)
  PROVE  IsFaithful(ResultOf(report, claims, removed, repaired))
<1> DEFINE result == ResultOf(report, claims, removed, repaired)
           left == result.validated_report
<1>1. /\ result.report_level = ReportLevel(claims, HasIssues(report))
      /\ left = [decision_time |-> report.decision_time, evidence |-> report.evidence,
                 citations |-> report.citations, claims |-> claims,
                 report_level |-> ReportLevel(claims, HasIssues(report))]
  BY ResultFields DEF IsMade, KnowsInTime
<1>2. result.issues = ReportIssues(report)
  BY DEF ResultOf
<1>3. IsSound(result)
  OBVIOUS
<1> HIDE DEF result
<1>4. /\ left.citations = report.citations /\ left.evidence = report.evidence
      /\ left.decision_time = report.decision_time /\ left.claims = claims
  BY <1>1
<1> HIDE DEF left
<1>5. KeepsCitations(left)
  BY <1>4 DEF IsMade, KeepsCitations
<1>6. ASSUME NEW c \in claims
      PROVE  /\ \E d \in report.claims : c.claim_id = d.claim_id /\ IsSameClaim(c, d)
             /\ IsAnswered(c) \/ ClaimIssues(left, c) # {}
             /\ IsAnswered(c) \/ \E i \in result.issues : i.claim_id = c.claim_id /\ i.code \in c.warnings
  <2>1. CASE c \in report.claims /\ ClaimIssues(report, c) = {}
    BY <2>1 DEF IsMade, IsStanding, IsSameClaim
  <2>2. ASSUME NEW d \in Failing(report), c = Downgraded(report, d)
        PROVE  /\ \E e \in report.claims : c.claim_id = e.claim_id /\ IsSameClaim(c, e)
               /\ ClaimIssues(left, c) # {}
               /\ \E i \in result.issues : i.claim_id = c.claim_id /\ i.code \in c.warnings
    <3>1. d \in report.claims /\ ClaimIssues(report, d) # {}
      BY DEF Failing
    <3>2. c.claim_id = d.claim_id /\ IsSameClaim(c, d) /\ ClaimIssues(report, d) \subseteq c.warnings
      BY <2>2, DowngradedKeeps
    <3>3. ClaimIssues(left, c) = ClaimIssues(report, d)
      BY <1>4, <2>2, DowngradedKeeps
    <3>4. PICK code : code \in ClaimIssues(report, d)
      BY <3>1
    <3>5. [code |-> code, claim_id |-> d.claim_id] \in ReportIssues(report)
      <4> DEFINE About(claim) == {[code |-> x, claim_id |-> claim.claim_id] : x \in ClaimIssues(report, claim)}
      <4>1. UNION {About(claim) : claim \in report.claims} \subseteq ReportIssues(report)
        BY Zenon DEF ReportIssues
      <4>2. [code |-> code, claim_id |-> d.claim_id] \in About(d)
        BY <3>4
      <4> HIDE DEF About
      <4> QED BY <3>1, <4>1, <4>2
    <3> QED BY <1>2, <3>1, <3>2, <3>3, <3>4, <3>5
  <2> QED BY <1>6, <2>1, <2>2
<1>7. KeepsClaims(left)
  <2>1. \A c \in claims : \E d \in report.claims : c.claim_id = d.claim_id /\ IsSameClaim(c, d)
    BY <1>6
  <2>2. \A d \in report.claims, a \in Assembled.claims : d.claim_id = a.claim_id => IsSameClaim(d, a)
    BY DEF IsMade, KeepsClaims
  <2>3. \A x, y, z : IsSameClaim(x, y) /\ IsSameClaim(y, z) => IsSameClaim(x, z)
    BY DEF IsSameClaim
  <2> QED BY <1>4, <2>1, <2>2, <2>3 DEF KeepsClaims
<1>8. IsStanding(left) /\ IsExplained(result)
  BY <1>4, <1>6 DEF IsStanding, IsExplained, left
<1>9. KnowsInTime(left)
  BY <1>3 DEF IsSound, left
<1>10. IsMade(left)
  BY <1>4, <1>5, <1>7, <1>8, <1>9 DEF IsMade
<1>11. result.report_level = ReportLevel(left.claims, result.issues # {})
  BY <1>1, <1>2, <1>4 DEF HasIssues
<1> QED BY <1>3, <1>8, <1>10, <1>11 DEF IsFaithful, result, left

(* Validating a report made of the outputs is faithful, a second time too. *)
LEMMA ValidateIsFaithful == ASSUME NEW report, IsMade(report) PROVE IsFaithful(Validate(report))
<1> DEFINE Taken(c) == Downgraded(report, c)
           failing == Failing(report)
           taken == {Taken(c) : c \in failing}
           claims == (report.claims \ failing) \cup taken
<1>1. failing \in SUBSET report.claims /\ report.claims \ failing \in SUBSET report.claims
  BY DEF Failing
<1>2. Validate(report) = ResultOf(report, claims, {}, FALSE)
  BY DEF Validate
<1>3. \A c \in claims : \/ c \in report.claims /\ ClaimIssues(report, c) = {}
                        \/ \E d \in Failing(report) : c = Downgraded(report, d)
  BY DEF Failing
<1>4. IsSound(Validate(report))
  BY ValidateIsSound DEF IsMade
<1>5. IsFiniteSet(claims)
  <2> HIDE DEF failing, Taken
  <2>1. IsFiniteSet(failing) /\ IsFiniteSet(report.claims \ failing)
    BY <1>1, FS_Subset DEF IsMade
  <2>2. [c \in failing |-> Taken(c)] \in Surjection(failing, taken)
    BY DEF Surjection
  <2>3. IsFiniteSet(taken)
    BY <2>1, <2>2, FS_Surjection
  <2> QED BY <2>1, <2>3, FS_Union
<1> HIDE DEF claims
<1> QED BY <1>2, <1>3, <1>4, <1>5, ResultIsFaithful

(* So is validating it with a repair made of them.                         *)
LEMMA RepairIsFaithful ==
  ASSUME NEW report, IsMade(report), NEW repair, repair = None \/ IsMade(repair)
  PROVE  IsFaithful(ValidateWithRepair(report, repair))
<1>1. CASE ~HasIssues(report) \/ repair = None
  BY <1>1, ValidateIsFaithful DEF ValidateWithRepair
<1>2. CASE HasIssues(report) /\ repair # None
  <2> DEFINE claims == repair.claims \ Failing(repair)
  <2>1. ValidateWithRepair(report, repair) = ResultOf(repair, claims, Failing(repair), TRUE)
    BY <1>2 DEF ValidateWithRepair
  <2>2. IsSound(ValidateWithRepair(report, repair))
    BY RepairIsSound DEF IsMade
  <2>3. \A c \in claims : c \in repair.claims /\ ClaimIssues(repair, c) = {}
    BY DEF Failing
  <2>4. claims \in SUBSET repair.claims
    OBVIOUS
  <2> HIDE DEF claims
  <2>5. IsFiniteSet(claims)
    BY <1>2, <2>4, FS_Subset DEF IsMade
  <2> QED BY <1>2, <2>1, <2>2, <2>3, <2>5, ResultIsFaithful
<1> QED BY <1>1, <1>2
(***************************************************************************)
(* What is shown explains itself.                                          *)
(***************************************************************************)

(* The record of a faithful result explains what it shows.                 *)
LEMMA FaithfulIsExplained ==
  ASSUME NEW result, IsFaithful(result), rendered = CanonicalRecord(result)
  PROVE  RenderingsExplain
<1> DEFINE report == result.validated_report
           claims == report.claims
           Row(c) == [claim_id |-> c.claim_id, status |-> c.verification_status,
                      citation_ids |-> c.citation_ids, warnings |-> c.warnings]
           Line(c) == [claim_id |-> c.claim_id, status |-> c.verification_status,
                       citation_ids |-> c.citation_ids]
           markdown == Markdown(rendered)
           html == Html(rendered)
           answered == UNION {stage[role].output.claims : role \in Roles}
<1>1. /\ markdown.claims = {Row(c) : c \in claims} /\ markdown.issues = result.issues
      /\ html.claims = {Line(c) : c \in claims} /\ html.issues = {i.code : i \in result.issues}
      /\ html.report_level = result.report_level
      /\ html.citations = ShownCitations(report) /\ html.evidence = ShownEvidence(report)
  BY DEF CanonicalRecord, Markdown, Html
<1>2. /\ rendered.summary.claims = Cardinality(claims)
      /\ rendered.summary.verified = Cardinality(VerifiedIn(report))
  BY DEF CanonicalRecord, VerifiedIn
<1>3. answered = Assembled.claims
  BY DEF Assembled
<1>4. IsMade(report) /\ IsSound(result) /\ IsExplained(result)
        /\ result.report_level = ReportLevel(claims, result.issues # {})
  BY DEF IsFaithful
<1> HIDE DEF markdown, html, answered, report
<1>5. ASSUME NEW r \in markdown.claims,
             \A a \in answered : a.claim_id = r.claim_id => a.verification_status # r.status
      PROVE  \E i \in markdown.issues : i.claim_id = r.claim_id /\ i.code \in r.warnings \cap html.issues
  <2>1. PICK c \in claims : r = Row(c)
    BY <1>1
  <2>2. r.claim_id = c.claim_id /\ r.status = c.verification_status /\ r.warnings = c.warnings
    BY <2>1
  <2>3. ~IsAnswered(c)
    BY <1>3, <1>5, <2>2 DEF IsAnswered
  <2>4. PICK i \in result.issues : i.claim_id = c.claim_id /\ i.code \in c.warnings
    BY <1>4, <2>3 DEF IsExplained, report
  <2> QED BY <1>1, <2>2, <2>4
<1>6. ASSUME NEW l \in html.claims, l.status = "verified", NEW i \in l.citation_ids
      PROVE  \E e \in html.evidence : <<i, e[1]>> \in html.citations
  <2>1. PICK c \in claims : l = Line(c)
    BY <1>1
  <2>2. c \in VerifiedIn(report) /\ i \in c.citation_ids
    BY <1>6, <2>1 DEF VerifiedIn
  <2>3. IsTraceableIn(report, c)
    BY <1>4, <2>2 DEF IsSound, report
  <2>4. PICK x \in report.citations, e \in report.evidence : x.citation_id = i /\ x.evidence_id = e.evidence_id
    BY <2>2, <2>3 DEF IsTraceableIn
  <2>5. <<i, e.evidence_id>> \in html.citations
    BY <1>1, <2>4 DEF ShownCitations
  <2>6. <<e.evidence_id, e.trust, e.available_at>> \in html.evidence
    BY <1>1, <2>4 DEF ShownEvidence
  <2> QED BY <2>5, <2>6
<1>7. html.report_level = "verified" <=>
        html.issues = {} /\ rendered.summary.verified = rendered.summary.claims /\ html.claims # {}
  <2>1. html.issues = {} <=> result.issues = {}
    <3>1. html.issues = {i.code : i \in result.issues}
      BY <1>1
    <3>2. \A S : {i.code : i \in S} = {} <=> S = {}
      OBVIOUS
    <3> QED BY <3>1, <3>2
  <2>2. html.claims = {} <=> claims = {}
    <3>1. html.claims = {Line(c) : c \in claims}
      BY <1>1
    <3> HIDE DEF Line, claims
    <3> QED BY <3>1
  <2>3. Cardinality(VerifiedIn(report)) = Cardinality(claims) <=> VerifiedIn(report) = claims
    <3>1. IsFiniteSet(claims) /\ VerifiedIn(report) \in SUBSET claims
      BY <1>4 DEF IsMade, VerifiedIn
    <3> QED BY <3>1, FS_Subset
  <2>4. VerifiedIn(report) = claims <=> \A c \in claims : c.verification_status = "verified"
    BY DEF VerifiedIn
  <2>5. result.report_level = "verified" <=>
          claims # {} /\ result.issues = {} /\ \A c \in claims : c.verification_status = "verified"
    <3>1. \A s, b : ReportLevel(s, b) = "verified" <=>
            s # {} /\ ~b /\ \A c \in s : c.verification_status = "verified"
      BY DEF ReportLevel
    <3> QED BY <1>4, <3>1
  <2> QED BY <1>1, <1>2, <2>1, <2>2, <2>3, <2>4, <2>5
<1> QED BY <1>5, <1>6, <1>7 DEF RenderingsExplain, markdown, html, answered
(***************************************************************************)
(* The evaluation of the outputs and of what the report leaves of them.    *)
(***************************************************************************)

(* The partial sums of e, one for each set of what it is summed over.      *)
IsSum(f, e) ==
  f = [s \in SUBSET (DOMAIN e) |->
         IF s = {} THEN 0 ELSE LET x == CHOOSE y \in s : TRUE IN e[x] + f[s \ {x}]]

(* The sets with at most m of the elements of A.                           *)
UpToSize(A, m) == {s \in SUBSET A : Cardinality(s) <= m}

(* Removing an element of a set leaves a smaller one.                      *)
LEMMA SizesDescend ==
  ASSUME NEW A, IsFiniteSet(A)
  PROVE  \A s \in SUBSET A : /\ Cardinality(s) \in 0..Cardinality(A) /\ (Cardinality(s) = 0 <=> s = {})
                             /\ \A x \in s : Cardinality(s \ {x}) = Cardinality(s) - 1
<1> SUFFICES ASSUME NEW s \in SUBSET A
             PROVE  /\ Cardinality(s) \in 0..Cardinality(A) /\ (Cardinality(s) = 0 <=> s = {})
                    /\ \A x \in s : Cardinality(s \ {x}) = Cardinality(s) - 1
  OBVIOUS
<1>1. IsFiniteSet(s) /\ Cardinality(s) <= Cardinality(A)
  BY FS_Subset
<1>2. Cardinality(s) \in Nat /\ Cardinality(A) \in Nat
  BY <1>1, FS_CardinalityType
<1>3. Cardinality(s) = 0 <=> s = {}
  BY <1>1, FS_EmptySet
<1>4. \A x \in s : Cardinality(s \ {x}) = Cardinality(s) - 1
  BY <1>1, FS_RemoveElement
<1> QED BY <1>1, <1>2, <1>3, <1>4

(* Sums over a finite set are defined: those of one element more by those  *)
(* of one less.                                                            *)
LEMMA SumExists == ASSUME NEW e, IsFiniteSet(DOMAIN e) PROVE \E f : IsSum(f, e)
<1> DEFINE A == DOMAIN e
           n == Cardinality(A)
           Pick(s) == CHOOSE y \in s : TRUE
           Added(f, s) == IF s = {} THEN 0 ELSE e[Pick(s)] + f[s \ {Pick(s)}]
           Sums(m, f) == f = [s \in UpToSize(A, m) |-> Added(f, s)]
           T == {m \in 0..n : \E f : Sums(m, f)}
<1>1. n \in Nat
  BY FS_CardinalityType
<1>2. \A s \in SUBSET A : /\ Cardinality(s) \in 0..n /\ (Cardinality(s) = 0 <=> s = {})
                          /\ s # {} => Pick(s) \in s /\ Cardinality(s \ {Pick(s)}) = Cardinality(s) - 1
  BY SizesDescend
<1> HIDE DEF n, Pick, A
<1>3. 0 \in T
  <2>1. ASSUME NEW s \in UpToSize(A, 0) PROVE s = {}
    <3>1. s \in SUBSET A /\ Cardinality(s) <= 0
      BY DEF UpToSize
    <3>2. Cardinality(s) \in 0..n /\ (Cardinality(s) = 0 <=> s = {})
      BY <1>2, <3>1
    <3>3. Cardinality(s) = 0
      BY <1>1, <3>1, <3>2
    <3> QED BY <3>2, <3>3
  <2>2. Sums(0, [s \in UpToSize(A, 0) |-> 0])
    BY <2>1
  <2> HIDE DEF Sums
  <2> QED BY <1>1, <2>2
<1>4. ASSUME NEW m \in 1..n, m - 1 \in T PROVE m \in T
  <2>1. PICK f : Sums(m - 1, f)
    BY <1>4
  <2> DEFINE D == UpToSize(A, m)
             E == UpToSize(A, m - 1)
             g == [s \in D |-> Added(f, s)]
  <2>2. \A s \in D : s # {} => s \ {Pick(s)} \in E /\ s \ {Pick(s)} \in D
    BY <1>1, <1>2 DEF UpToSize
  <2>3. ASSUME NEW s \in E PROVE s \in D
    <3>1. s \in SUBSET A /\ Cardinality(s) <= m - 1
      BY DEF UpToSize
    <3>2. Cardinality(s) \in 0..n
      BY <1>2, <3>1
    <3> QED BY <1>1, <3>1, <3>2 DEF UpToSize
  <2> HIDE DEF D
  <2>4. \A s \in E : f[s] = Added(f, s)
    BY <2>1
  <2> HIDE DEF E
  <2>5. \A s \in E : g[s] = f[s]
    <3> HIDE DEF Added
    <3> QED BY <2>3, <2>4
  <2>6. \A s \in D : g[s] = Added(f, s)
    OBVIOUS
  <2> HIDE DEF g
  <2>7. \A s \in D : Added(g, s) = Added(f, s)
    BY <2>2, <2>5
  <2>8. g = [s \in D |-> g[s]]
    BY DEF g
  <2>9. g = [s \in D |-> Added(g, s)]
    <3> HIDE DEF Added
    <3> QED BY <2>6, <2>7, <2>8
  <2>10. Sums(m, g)
    BY <2>9 DEF D
  <2> HIDE DEF Sums
  <2> QED BY <2>10
<1>5. PICK f : Sums(n, f)
  <2> HIDE DEF T
  <2>1. 0..n \subseteq T
    BY <1>1, <1>3, <1>4, StepsReach
  <2>2. n \in T
    BY <1>1, <2>1
  <2> QED BY <2>2 DEF T
<1>6. UpToSize(A, n) = SUBSET A
  <2>1. \A s \in SUBSET A : Cardinality(s) <= n
    <3> SUFFICES ASSUME NEW s \in SUBSET A PROVE Cardinality(s) <= n
      OBVIOUS
    <3>1. Cardinality(s) \in 0..n
      BY <1>2
    <3> QED BY <1>1, <3>1
  <2> QED BY <2>1 DEF UpToSize
<1>7. IsSum(f, e)
  BY <1>5, <1>6 DEF IsSum, Pick, A
<1> QED BY <1>7

(* A sum is where 0 is, if adding does not leave.                          *)
LEMMA SumStaysIn ==
  ASSUME NEW e, IsFiniteSet(DOMAIN e), NEW X, 0 \in X, \A x \in DOMAIN e, k \in X : e[x] + k \in X
  PROVE  SumFunction(e) \in X
<1> DEFINE A == DOMAIN e
           n == Cardinality(A)
           f == CHOOSE g : IsSum(g, e)
           T == {m \in 0..n : \A s \in UpToSize(A, m) : f[s] \in X}
<1>1. SumFunction(e) = f[A]
  BY DEF SumFunction, SumFunctionOnSet, FoldFunctionOnSet, MapThenFoldSet, IsSum
<1>2. IsSum(f, e)
  BY SumExists
<1>3. n \in Nat
  BY FS_CardinalityType
<1> HIDE DEF f, n
<1>4. \A s \in SUBSET A : s # {} => \E x \in s : f[s] = e[x] + f[s \ {x}]
  BY <1>2 DEF IsSum
<1>5. \A s \in SUBSET A : /\ Cardinality(s) \in 0..n /\ (Cardinality(s) = 0 <=> s = {})
                          /\ \A x \in s : Cardinality(s \ {x}) = Cardinality(s) - 1
  BY SizesDescend DEF n
<1>6. f[{}] \in X
  BY <1>2 DEF IsSum
<1>7. 0 \in T
  BY <1>3, <1>5, <1>6 DEF UpToSize
<1>8. ASSUME NEW m \in 1..n, m - 1 \in T PROVE m \in T
  <2> SUFFICES ASSUME NEW s \in UpToSize(A, m), s # {} PROVE f[s] \in X
    BY <1>6
  <2>1. s \in SUBSET A /\ Cardinality(s) <= m
    BY DEF UpToSize
  <2>2. PICK x \in s : f[s] = e[x] + f[s \ {x}]
    BY <1>4, <2>1
  <2>3. s \ {x} \in UpToSize(A, m - 1)
    BY <1>5, <2>1 DEF UpToSize
  <2>4. f[s \ {x}] \in X /\ x \in DOMAIN e
    BY <1>8, <2>1, <2>3
  <2> QED BY <2>2, <2>4
<1>9. n \in T
  <2> HIDE DEF T
  <2>1. 0..n \subseteq T
    BY <1>3, <1>7, <1>8, StepsReach
  <2> QED BY <1>3, <2>1
<1>10. A \in UpToSize(A, n)
  BY <1>5 DEF UpToSize
<1> QED BY <1>1, <1>9, <1>10

(* The sum of natural numbers is one, that of zeros zero.                  *)
COROLLARY SumsOfNaturals ==
  ASSUME NEW e, IsFiniteSet(DOMAIN e), \A x \in DOMAIN e : e[x] \in Nat
  PROVE  SumFunction(e) \in Nat /\ ((\A x \in DOMAIN e : e[x] = 0) => SumFunction(e) = 0)
<1>1. SumFunction(e) \in Nat
  <2> DEFINE P == Nat
  <2>1. 0 \in P /\ \A x \in DOMAIN e, k \in P : e[x] + k \in P
    OBVIOUS
  <2> HIDE DEF P
  <2>2. SumFunction(e) \in P
    BY <2>1, SumStaysIn
  <2> QED BY <2>2 DEF P
<1>2. ASSUME \A x \in DOMAIN e : e[x] = 0 PROVE SumFunction(e) = 0
  <2>1. \A x \in DOMAIN e, k \in {0} : e[x] + k \in {0}
    BY <1>2
  <2>2. SumFunction(e) \in {0}
    BY <2>1, SumStaysIn
  <2> QED BY <2>2
<1> QED BY <1>1, <1>2
(* A result of the evaluation that nothing is held against.                *)
IsUnfaulted(result, case) ==
  /\ result.case = case /\ result.present /\ result.schema_valid /\ result.safety_passed
  /\ result.unsupported = 0 /\ result.correct \in Nat /\ result.numeric \in Nat
  /\ Cardinality(case.expected_evidence) \in Nat

(* Results with the same evidence cited are no regression from another.    *)
LEMMA NoRegression ==
  ASSUME NEW cases, IsFiniteSet(cases), NEW b, NEW c, DOMAIN b = cases, DOMAIN c = cases,
         \A x \in cases : IsUnfaulted(b[x], x) /\ IsUnfaulted(c[x], x) /\ b[x].correct = c[x].correct
  PROVE  ComparisonPassed([results |-> b, metrics |-> Metrics(b)], [results |-> c, metrics |-> Metrics(c)])
<1> DEFINE correct(r) == SumFunction([x \in cases |-> r[x].correct])
           expected == SumFunction([x \in cases |-> Cardinality(x.expected_evidence)])
           unsupported(r) == SumFunction([x \in cases |-> r[x].unsupported])
           numeric(r) == SumFunction([x \in cases |-> r[x].numeric])
           valid(r) == Cardinality({x \in cases : r[x].schema_valid})
           n == Cardinality(cases)
<1>1. /\ correct(b) \in Nat /\ correct(c) = correct(b) /\ expected \in Nat
      /\ unsupported(b) = 0 /\ unsupported(c) = 0 /\ numeric(b) \in Nat /\ numeric(c) \in Nat
  <2>1. [x \in cases |-> b[x].correct] = [x \in cases |-> c[x].correct]
    OBVIOUS
  <2>2. correct(b) \in Nat
    BY SumsOfNaturals DEF IsUnfaulted
  <2>3. expected \in Nat
    BY SumsOfNaturals DEF IsUnfaulted
  <2>4. unsupported(b) = 0
    BY SumsOfNaturals DEF IsUnfaulted
  <2>5. unsupported(c) = 0
    BY SumsOfNaturals DEF IsUnfaulted
  <2>6. numeric(b) \in Nat
    BY SumsOfNaturals DEF IsUnfaulted
  <2>7. numeric(c) \in Nat
    BY SumsOfNaturals DEF IsUnfaulted
  <2> QED BY <2>1, <2>2, <2>3, <2>4, <2>5, <2>6, <2>7
<1>2. valid(b) = n /\ valid(c) = n /\ n \in Nat
  <2>1. {x \in cases : b[x].schema_valid} = cases /\ {x \in cases : c[x].schema_valid} = cases
    BY DEF IsUnfaulted
  <2> QED BY <2>1, FS_CardinalityType
<1>3. /\ Metrics(b).citation_accuracy = <<correct(b), expected>>
      /\ Metrics(c).citation_accuracy = <<correct(c), expected>>
      /\ Metrics(b).unsupported_rate = <<unsupported(b), numeric(b)>>
      /\ Metrics(c).unsupported_rate = <<unsupported(c), numeric(c)>>
      /\ Metrics(b).schema_rate = <<valid(b), n>> /\ Metrics(c).schema_rate = <<valid(c), n>>
      /\ Metrics(c).safety_core_passed
  BY DEF Metrics, IsUnfaulted
<1> HIDE DEF correct, expected, unsupported, numeric, valid, n
<1>4. \A k, l \in Nat : AtMost(<<k, l>>, <<k, l>>) /\ AtMost(<<0, k>>, <<0, l>>)
  <2>1. \A k, l \in Nat : k * l <= k * l /\ 0 * k <= 0 * l
    <3>1. \A k, l \in Nat : k * l \in Int
      OBVIOUS
    <3> QED BY <3>1
  <2> QED BY <2>1 DEF AtMost
<1>5. Regressed([results |-> b, metrics |-> Metrics(b)], [results |-> c, metrics |-> Metrics(c)]) = {}
  <2>1. ASSUME NEW x \in cases, CasePassed(b[x])
        PROVE  \E r \in Range(c) :
                 /\ r.case.case_id = b[x].case.case_id /\ CasePassed(r)
                 /\ AtMost(<<b[x].correct, Cardinality(b[x].case.expected_evidence)>>,
                           <<r.correct, Cardinality(r.case.expected_evidence)>>)
    <3>1. c[x] \in Range(c)
      BY DEF Range
    <3>2. c[x].case = x /\ b[x].case = x /\ CasePassed(c[x])
      BY <2>1 DEF CasePassed, IsUnfaulted
    <3>3. AtMost(<<b[x].correct, Cardinality(x.expected_evidence)>>,
                 <<c[x].correct, Cardinality(x.expected_evidence)>>)
      BY <1>4 DEF IsUnfaulted
    <3> QED BY <3>1, <3>2, <3>3
  <2>2. \A r \in Range(b) : \E x \in cases : r = b[x]
    BY DEF Range
  <2> QED BY <2>1, <2>2 DEF Regressed
<1>6. /\ AtMost(Metrics(b).citation_accuracy, Metrics(c).citation_accuracy)
      /\ AtMost(Metrics(c).unsupported_rate, Metrics(b).unsupported_rate)
      /\ AtMost(Metrics(b).schema_rate, Metrics(c).schema_rate)
  BY <1>1, <1>2, <1>3, <1>4
<1> QED BY <1>3, <1>5, <1>6 DEF ComparisonPassed

(* Of predictions with one id each, the one with the case's id is scored.  *)
LEMMA OwnIsScored ==
  ASSUME NEW made, \A r \in Roles : made[r].case_id = r, NEW role \in Roles, NEW case, case.case_id = role
  PROVE  Scored(case, {made[r] : r \in Roles}) = ScoreCase(case, made[role])
<1> DEFINE fit == {p \in {made[r] : r \in Roles} : p.case_id = case.case_id}
<1>1. fit = {made[role]}
  OBVIOUS
<1> HIDE DEF fit
<1>2. fit # {} /\ (CHOOSE p \in fit : TRUE) = made[role]
  BY <1>1
<1> QED BY <1>2 DEF Scored, fit

(* The evidence a role was shown, by id.                                   *)
ShownTo(role) == {e.evidence_id : e \in ToSet(stage[role].bundle.items)}

(* Nothing is held against a prediction all numbers of which are supported.*)
LEMMA SupportedIsUnfaulted ==
  ASSUME NEW role, IsFiniteSet(ToSet(stage[role].bundle.items)),
         NEW claims, IsFiniteSet(claims), NEW citations,
         \A c \in claims : c.kind = "numeric_metric" =>
           IsSupported(CaseOf(role), PredictionOf(role, claims, citations), c)
  PROVE  LET result == ScoreCase(CaseOf(role), PredictionOf(role, claims, citations))
         IN  /\ IsUnfaulted(result, CaseOf(role))
             /\ result.correct = Cardinality(ShownTo(role) \cap {c.evidence_id : c \in citations})
<1> DEFINE case == CaseOf(role)
           items == stage[role].bundle.items
           prediction == PredictionOf(role, claims, citations)
           numeric == {c \in claims : c.kind = "numeric_metric"}
           unsupported == {c \in numeric : ~IsSupported(case, prediction, c)}
           cited == {c.evidence_id : c \in citations}
           expected == ShownTo(role)
           result == ScoreCase(case, prediction)
<1>1. case.expected_evidence = expected /\ case.required_checks = {"schema_valid"}
  BY DEF CaseOf, GoldenCase, CategoryChecks, ShownTo
<1>2. /\ prediction.claims = claims /\ prediction.citations = citations
      /\ prediction.checks = {"schema_valid"} /\ prediction.schema_valid = TRUE
  BY DEF PredictionOf, Prediction
<1>3. Cardinality(unsupported) = 0
  <2>1. unsupported = {}
    OBVIOUS
  <2> QED BY <2>1, FS_EmptySet
<1>4. Cardinality(numeric) \in Nat
  <2>1. numeric \in SUBSET claims
    OBVIOUS
  <2> HIDE DEF numeric
  <2> QED BY <2>1, FS_Subset, FS_CardinalityType
<1>5. Cardinality(expected) \in Nat /\ Cardinality(expected \cap cited) \in Nat
  <2>1. [e \in ToSet(items) |-> e.evidence_id] \in Surjection(ToSet(items), expected)
    BY DEF Surjection, ShownTo
  <2>2. IsFiniteSet(expected)
    BY <2>1, FS_Surjection
  <2> HIDE DEF expected
  <2>3. IsFiniteSet(expected \cap cited)
    BY <2>2, FS_Subset
  <2> QED BY <2>2, <2>3, FS_CardinalityType
<1> HIDE DEF case, prediction, expected
<1>6. /\ result.case = case /\ result.present = TRUE /\ result.correct = Cardinality(expected \cap cited)
      /\ result.numeric = Cardinality(numeric) /\ result.unsupported = Cardinality(unsupported)
      /\ result.schema_valid = TRUE
  BY <1>1, <1>2 DEF ScoreCase
<1>7. result.safety_passed
  <2>1. \A x, p : ScoreCase(x, p).safety_passed <=> x.required_checks \subseteq p.checks
    BY DEF ScoreCase
  <2> QED BY <1>1, <1>2, <2>1
<1> HIDE DEF result, numeric, unsupported, cited
<1>8. IsUnfaulted(result, case)
  BY <1>1, <1>3, <1>4, <1>5, <1>6, <1>7 DEF IsUnfaulted
<1> QED BY <1>6, <1>8 DEF result, case, prediction, expected, cited

(* A number is supported by a prediction with its citations.               *)
LEMMA NumberIsSupported ==
  ASSUME NEW role, NEW claims, NEW citations, NEW c, NEW d \in stage[role].output.claims,
         d.kind = "numeric_metric", c.claim_id = d.claim_id, IsSameClaim(c, d),
         IsSupportedOutput(stage[role].bundle.items, stage[role].output),
         \A x \in stage[role].output.citations : \E y \in citations :
           y.citation_id = x.citation_id /\ y.evidence_id = x.evidence_id
  PROVE  IsSupported(CaseOf(role), PredictionOf(role, claims, citations), c)
<1> DEFINE case == CaseOf(role)
           prediction == PredictionOf(role, claims, citations)
           output == stage[role].output
<1>1. /\ case.expected_evidence = ShownTo(role)
      /\ case.expected_numeric = {x.claim_id : x \in {x \in output.claims : x.kind = "numeric_metric"}}
      /\ prediction.citations = citations
  BY DEF CaseOf, GoldenCase, PredictionOf, Prediction, ShownTo
<1>2. c.claim_id \in case.expected_numeric /\ c.computation_policy = "deterministic_evidence" /\ c.citation_ids # {}
  BY <1>1 DEF IsSupportedOutput, IsSameClaim
<1>3. \A i \in d.citation_ids : \E x \in output.citations : x.citation_id = i /\ x.evidence_id \in ShownTo(role)
  BY DEF IsSupportedOutput, ShownTo
<1>4. \A i \in c.citation_ids : \E y \in citations : y.citation_id = i /\ y.evidence_id \in ShownTo(role)
  BY <1>3 DEF IsSameClaim
<1> HIDE DEF case, prediction
<1>5. IsSupported(case, prediction, c)
  BY <1>1, <1>2, <1>4 DEF IsSupported
<1> QED BY <1>5 DEF case, prediction

(* Nothing is held against the output of a role.                           *)
LEMMA OutputIsUnfaulted ==
  ASSUME FinishedInv, NEW role \in Roles, Done(role)
  PROVE  /\ IsUnfaulted(ScoreCase(CaseOf(role), OutputOf(role)), CaseOf(role))
         /\ ScoreCase(CaseOf(role), OutputOf(role)).correct =
              Cardinality(ShownTo(role) \cap {c.evidence_id : c \in stage[role].output.citations})
<1> DEFINE claims == stage[role].output.claims
           citations == stage[role].output.citations
<1>1. /\ IsSupportedOutput(stage[role].bundle.items, stage[role].output)
      /\ IsFiniteSet(ToSet(stage[role].bundle.items))
  BY DEF FinishedInv, StagesAreSupported, OutputsAreSupported, BundlesAreFinite, Done
<1>2. \A c \in claims : c.kind = "numeric_metric" =>
        IsSupported(CaseOf(role), PredictionOf(role, claims, citations), c)
  BY <1>1, NumberIsSupported DEF IsSameClaim
<1>3. IsFiniteSet(claims)
  BY <1>1 DEF IsSupportedOutput, IsOutput
<1> HIDE DEF claims, citations
<1>4. /\ IsUnfaulted(ScoreCase(CaseOf(role), PredictionOf(role, claims, citations)), CaseOf(role))
      /\ ScoreCase(CaseOf(role), PredictionOf(role, claims, citations)).correct =
           Cardinality(ShownTo(role) \cap {c.evidence_id : c \in citations})
  BY <1>1, <1>2, <1>3, SupportedIsUnfaulted
<1> QED BY <1>4 DEF OutputOf, claims, citations

(* Nothing is held against what a report made of the outputs leaves of it, *)
(* and it cites the same evidence.                                         *)
LEMMA LeftIsUnfaulted ==
  ASSUME FinishedInv, NEW role \in Roles, Done(role),
         NEW report, KeepsCitations(report), KeepsClaims(report), IsFiniteSet(report.claims)
  PROVE  /\ IsUnfaulted(ScoreCase(CaseOf(role), LeftOf(role, report)), CaseOf(role))
         /\ ScoreCase(CaseOf(role), LeftOf(role, report)).correct =
              Cardinality(ShownTo(role) \cap {c.evidence_id : c \in stage[role].output.citations})
<1> DEFINE output == stage[role].output
           claims == {c \in report.claims : c.claim_id \in {d.claim_id : d \in output.claims}}
           citations == {c \in report.citations : c.citation_id \in {d.citation_id : d \in output.citations}}
<1>1. /\ IsSupportedOutput(stage[role].bundle.items, output)
      /\ IsFiniteSet(ToSet(stage[role].bundle.items))
  BY DEF FinishedInv, StagesAreSupported, OutputsAreSupported, BundlesAreFinite, Done
<1>2. output.claims \subseteq Assembled.claims /\ output.citations \subseteq Assembled.citations
  BY DEF Assembled
<1>3. \A x \in output.citations : \E y \in citations : y.citation_id = x.citation_id /\ y.evidence_id = x.evidence_id
  BY <1>2 DEF KeepsCitations
<1>4. {c.evidence_id : c \in citations} = {c.evidence_id : c \in output.citations}
  <2>1. \A y \in citations : \E x \in output.citations : y.evidence_id = x.evidence_id
    BY <1>2 DEF KeepsCitations
  <2> HIDE DEF citations
  <2> QED BY <1>3, <2>1
<1>5. \A c \in claims : \E d \in output.claims : c.claim_id = d.claim_id /\ IsSameClaim(c, d)
  BY <1>2 DEF KeepsClaims
<1>6. IsFiniteSet(claims)
  <2>1. claims \in SUBSET report.claims
    OBVIOUS
  <2> HIDE DEF claims
  <2> QED BY <2>1, FS_Subset
<1>7. LeftOf(role, report) = PredictionOf(role, claims, citations)
  BY DEF LeftOf
<1> HIDE DEF claims, citations
<1>8. ASSUME NEW c \in claims, c.kind = "numeric_metric"
      PROVE  IsSupported(CaseOf(role), PredictionOf(role, claims, citations), c)
  <2>1. PICK d \in output.claims : c.claim_id = d.claim_id /\ IsSameClaim(c, d)
    BY <1>5
  <2>2. d.kind = "numeric_metric"
    BY <1>8, <2>1 DEF IsSameClaim
  <2> QED BY <1>1, <1>3, <2>1, <2>2, NumberIsSupported
<1>9. /\ IsUnfaulted(ScoreCase(CaseOf(role), PredictionOf(role, claims, citations)), CaseOf(role))
      /\ ScoreCase(CaseOf(role), PredictionOf(role, claims, citations)).correct =
           Cardinality(ShownTo(role) \cap {c.evidence_id : c \in citations})
  BY <1>1, <1>6, <1>8, SupportedIsUnfaulted
<1> QED BY <1>4, <1>7, <1>9

(* A report made of the outputs is no regression from them.                *)
LEMMA MadeIsNoRegression ==
  ASSUME FinishedInv, \A role \in Roles : Done(role),
         NEW report, KeepsCitations(report), KeepsClaims(report), IsFiniteSet(report.claims)
  PROVE  LET cases == {CaseOf(role) : role \in Roles}
         IN  ComparisonPassed(Score(cases, {OutputOf(role) : role \in Roles}),
                              Score(cases, {LeftOf(role, report) : role \in Roles}))
<1> DEFINE cases == {CaseOf(role) : role \in Roles}
           outputs == [role \in Roles |-> OutputOf(role)]
           left == [role \in Roles |-> LeftOf(role, report)]
           made == {outputs[role] : role \in Roles}
           kept == {left[role] : role \in Roles}
           b == [x \in cases |-> Scored(x, made)]
           c == [x \in cases |-> Scored(x, kept)]
<1>1. \A role \in Roles : outputs[role].case_id = role /\ left[role].case_id = role /\ CaseOf(role).case_id = role
  BY DEF OutputOf, LeftOf, PredictionOf, Prediction, CaseOf, GoldenCase
<1>2. /\ made = {OutputOf(role) : role \in Roles} /\ kept = {LeftOf(role, report) : role \in Roles}
      /\ \A role \in Roles : outputs[role] = OutputOf(role) /\ left[role] = LeftOf(role, report)
  OBVIOUS
<1>3. IsFiniteSet(cases)
  <2>1. [role \in Roles |-> CaseOf(role)] \in Surjection(Roles, cases)
    BY DEF Surjection
  <2>2. IsFiniteSet({"technical"} \cup {"intel"} \cup {"risk_portfolio"} \cup {"decision"})
    BY FS_Singleton, FS_Union
  <2>3. Roles = {"technical"} \cup {"intel"} \cup {"risk_portfolio"} \cup {"decision"}
    BY DEF Roles
  <2>4. IsFiniteSet(Roles)
    BY <2>2, <2>3
  <2> QED BY <2>1, <2>4, FS_Surjection
<1> HIDE DEF outputs, left
<1>4. ASSUME NEW role \in Roles
      PROVE  /\ IsUnfaulted(Scored(CaseOf(role), made), CaseOf(role))
             /\ IsUnfaulted(Scored(CaseOf(role), kept), CaseOf(role))
             /\ Scored(CaseOf(role), made).correct = Scored(CaseOf(role), kept).correct
  <2>1. Scored(CaseOf(role), made) = ScoreCase(CaseOf(role), OutputOf(role))
    BY <1>1, <1>2, OwnIsScored
  <2>2. Scored(CaseOf(role), kept) = ScoreCase(CaseOf(role), LeftOf(role, report))
    BY <1>1, <1>2, OwnIsScored
  <2> QED BY <2>1, <2>2, OutputIsUnfaulted, LeftIsUnfaulted
<1> HIDE DEF made, kept
<1>5. \A x \in cases : IsUnfaulted(b[x], x) /\ IsUnfaulted(c[x], x) /\ b[x].correct = c[x].correct
  BY <1>4
<1>6. DOMAIN b = cases /\ DOMAIN c = cases
  OBVIOUS
<1>7. /\ Score(cases, made) = [results |-> b, metrics |-> Metrics(b)]
      /\ Score(cases, kept) = [results |-> c, metrics |-> Metrics(c)]
  BY Zenon DEF Score
<1> HIDE DEF cases, b, c
<1>8. ComparisonPassed(Score(cases, made), Score(cases, kept))
  BY <1>3, <1>5, <1>6, <1>7, NoRegression
<1> QED BY <1>2, <1>8 DEF cases

(***************************************************************************)
(* The report.                                                             *)
(***************************************************************************)

(* What is rendered is the record of a faithful result.                    *)
RenderedIsFaithful ==
  rendered # None => Done("decision") /\ \E result : IsFaithful(result) /\ rendered = CanonicalRecord(result)

(* The inductive invariant behind ReportsHold.                             *)
ReportInv == FinishedInv /\ RenderedIsFaithful

(* When the decision is done, all stages are, and stay.                    *)
LEMMA AllAreDone == FinishedInv /\ Done("decision") => \A role \in Roles : Done(role)
BY DEF FinishedInv, StagesAreSupported, DecisionIsLast, Done, Roles

(* A report made of the stages stays one while they stay.                  *)
LEMMA FaithfulStays == ASSUME UNCHANGED stage, NEW result, IsFaithful(result) PROVE IsFaithful(result)'
<1>1. Assembled' = Assembled
  BY DEF Assembled
<1>2. IsExplained(result)'
  BY <1>1 DEF IsFaithful, IsExplained, IsAnswered
<1>3. IsMade(result.validated_report)'
  BY <1>1 DEF IsFaithful, IsMade, KeepsCitations, KeepsClaims, IsStanding, IsAnswered
<1> QED BY <1>2, <1>3 DEF IsFaithful

(* The invariant is inductive.                                             *)
LEMMA StepReport == ReportInv /\ [Next]_vars => ReportInv'
<1> SUFFICES ASSUME ReportInv, [Next]_vars PROVE RenderedIsFaithful'
  BY StepFinished DEF ReportInv
<1>1. CASE Render
  <2>1. UNCHANGED stage /\ Done("decision")
    BY <1>1 DEF Render, storeVars
  <2>2. PICK draft \in {d \in Drafts : ValidReport(d)}, repair \in {None} \cup {d \in Drafts : ValidReport(d)} :
          LET result == ValidateWithRepair(draft, repair)
          IN  \E shown \in {result, Validate(result.validated_report)} : rendered' = CanonicalRecord(shown)
    BY <1>1 DEF Render
  <2>3. \A d \in Drafts : ValidReport(d) => IsMade(d)
    BY <2>1, AllAreDone, DraftsAreMade DEF ReportInv, FinishedInv, StagesAreSupported
  <2>4. IsFaithful(ValidateWithRepair(draft, repair))
    BY <2>3, RepairIsFaithful
  <2>5. IsFaithful(Validate(ValidateWithRepair(draft, repair).validated_report))
    BY <2>4, ValidateIsFaithful DEF IsFaithful
  <2>6. PICK shown : IsFaithful(shown) /\ rendered' = CanonicalRecord(shown)
    BY <2>2, <2>4, <2>5
  <2>7. IsFaithful(shown)'
    BY <2>1, <2>6, FaithfulStays
  <2> QED BY <2>1, <2>6, <2>7 DEF RenderedIsFaithful, Done
<1>2. CASE UNCHANGED rendered /\ rendered # None
  <2>1. Done("decision") /\ \A role \in Roles : Done(role)
    BY <1>2, AllAreDone DEF ReportInv, RenderedIsFaithful
  <2>2. stage' = stage
    BY <2>1, DoneStays, StepStages DEF ReportInv, FinishedInv, StagesAreThere
  <2>3. PICK result : IsFaithful(result) /\ rendered = CanonicalRecord(result)
    BY <1>2 DEF ReportInv, RenderedIsFaithful
  <2>4. IsFaithful(result)'
    BY <2>2, <2>3, FaithfulStays
  <2> QED BY <1>2, <2>1, <2>2, <2>3, <2>4 DEF RenderedIsFaithful, Done
<1>3. CASE UNCHANGED rendered /\ rendered = None
  BY <1>3 DEF RenderedIsFaithful
<1> QED
  BY <1>1, <1>2, <1>3 DEF Next, vars, runVars, Begin, WriteRecord, WriteRevision, Crash,
     Prepare, Answer, AnswerLost, AnswerFromCache, PublishPrompt, MinutePasses

(* No gate that a report passes is laxer than another (ReportsHold): what  *)
(* is shown as verified is traceable, what is shown explains itself, and   *)
(* the evaluation holds nothing against the outputs, nor against what the  *)
(* report, whichever draft, repair or second validation it comes from,     *)
(* leaves of them.                                                         *)
THEOREM ReportsAlwaysHold == Spec => []ReportsHold
<1>1. Init => ReportInv
  <2> SUFFICES ASSUME Init PROVE ReportInv
    OBVIOUS
  <2>1. \A role \in Roles : stage[role].status = "waiting"
    BY DEF Init, EmptyStage
  <2>2. IsFiniteSet(records) /\ rendered = None
    BY StoreIsFinite DEF Init
  <2>3. StagesAreSupported
    BY <2>1 DEF StagesAreSupported, OutputsAreSupported, BundlesAreFinite, DecisionIsLast, Done, Roles
  <2> QED BY <2>2, <2>3, InitStages DEF ReportInv, FinishedInv, RenderedIsFaithful
<1>2. ReportInv => GradersAgree /\ RenderingsExplain
  <2> SUFFICES ASSUME ReportInv PROVE GradersAgree /\ RenderingsExplain
    OBVIOUS
  <2>1. \A role \in Roles : Done(role) => ScoreCase(CaseOf(role), OutputOf(role)).unsupported = 0
    BY OutputIsUnfaulted DEF ReportInv, IsUnfaulted
  <2>2. CASE rendered = None
    BY <2>1, <2>2 DEF GradersAgree, RenderingsExplain
  <2>3. CASE rendered # None
    <3>1. PICK result : IsFaithful(result) /\ rendered = CanonicalRecord(result)
      BY <2>3 DEF ReportInv, RenderedIsFaithful
    <3>2. \A role \in Roles : Done(role)
      BY <2>3, AllAreDone DEF ReportInv, RenderedIsFaithful
    <3>3. rendered.report = result.validated_report
      BY <3>1 DEF CanonicalRecord
    <3>4. KeepsCitations(rendered.report) /\ KeepsClaims(rendered.report) /\ IsFiniteSet(rendered.report.claims)
      BY <3>1, <3>3 DEF IsFaithful, IsMade
    <3>5. LET cases == {CaseOf(role) : role \in Roles}
          IN  ComparisonPassed(Score(cases, {OutputOf(role) : role \in Roles}),
                               Score(cases, {LeftOf(role, rendered.report) : role \in Roles}))
      BY <3>2, <3>4, MadeIsNoRegression DEF ReportInv
    <3>6. RenderingsExplain
      BY <3>1, FaithfulIsExplained
    <3> QED BY <2>1, <3>5, <3>6 DEF GradersAgree
  <2> QED BY <2>2, <2>3
<1>3. Spec => [](GradersAgree /\ RenderingsExplain)
  BY <1>1, <1>2, StepReport, PTL DEF Spec
<1>4. VerifiedClaimsAreTraceable /\ GradersAgree /\ RenderingsExplain => ReportsHold
  BY DEF ReportsHold
<1> QED BY <1>3, <1>4, VerifiedIsTraceable, PTL
=============================================================================
