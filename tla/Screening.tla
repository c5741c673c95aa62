------------------------------- MODULE Screening -------------------------------
(* A screen (quant/screening): the historical universe of a day              *)
(* (universe.py), the five stages from the candidates of a provider to those *)
(* that pass the risk gate (pipeline.py), and the snapshot with one result   *)
(* an instrument (snapshot.py).                                              *)
EXTENDS CrossSections, TradingCalendar

CONSTANTS
    Listings,      \* instrument master records of the market
    Suspensions    \* pairs of an instrument and a day it is suspended on

-----------------------------------------------------------------------------
\* build_historical_universe_snapshot.  bars is a set of <<inst, day>>.
Listed(r, day) ==
    r.status = "active" /\ (r.delistedOn = Missing \/ day < r.delistedOn)

ListingDays(r, day) ==
    IF day < r.listedOn THEN 0 ELSE Cardinality(DaysBetween(r.listedOn, day))

RulesInOrder == <<"listing_status_active", "min_listing_trading_days",
                  "not_st", "not_suspended", "daily_bar_available">>

\* Mutant: a suspended instrument is a member like any other.
FailsRuleButSuspension(rule, universe, r, day, bars) ==
    \/ rule = "listing_status_active" /\ ~Listed(r, day)
    \/ /\ rule = "min_listing_trading_days"
       /\ ListingDays(r, day) < universe.minDays
    \/ rule = "not_st" /\ universe.excludeSt /\ r.st
    \/ /\ rule = "daily_bar_available" /\ universe.requireBar
       /\ <<r.inst, day>> \notin bars

FailsRule(rule, universe, r, day, bars) ==
    \/ rule = "listing_status_active" /\ ~Listed(r, day)
    \/ /\ rule = "min_listing_trading_days"
       /\ ListingDays(r, day) < universe.minDays
    \/ rule = "not_st" /\ universe.excludeSt /\ r.st
    \/ /\ rule = "not_suspended" /\ universe.excludeSuspended
       /\ <<r.inst, day>> \in Suspensions
    \/ /\ rule = "daily_bar_available" /\ universe.requireBar
       /\ <<r.inst, day>> \notin bars

EffectiveListings(day) ==
    {r \in Listings : r.from <= day /\ (r.to = Missing \/ day < r.to)}

\* The first rule that fails is the reason; a member fails none.
UniverseOn(universe, day, bars) ==
    LET Failed(r) == {k \in DOMAIN RulesInOrder :
                        FailsRule(RulesInOrder[k], universe, r, day, bars)}
    IN  [members |-> {r.inst : r \in {q \in EffectiveListings(day) :
                                        Failed(q) = {}}},
         excluded |-> {<<r.inst, RulesInOrder[Min(Failed(r))]>> :
                         r \in {q \in EffectiveListings(day) :
                                  Failed(q) # {}}}]

-----------------------------------------------------------------------------
\* run_screen_pipeline.  A definition refers to one provider strategy, weighs
\* factors by their versions, and may pin the version of the factor values.
ValidScreen(screen) ==
    /\ screen.maxCandidates > 0 /\ screen.topN > 0
    /\ screen.maxPerIndustry = Missing \/ screen.maxPerIndustry > 0
    /\ screen.factors # <<>>
    /\ \A m, n \in DOMAIN screen.factors :
          screen.factors[m].id = screen.factors[n].id => m = n
    /\ \A f \in Range(screen.factors) : f.weight > 0
    /\ ~screen.overlay => screen.llmWeight = 0
    /\ \A weight \in {"providerWeight", "factorWeight", "llmWeight"} : screen[weight] >= 0
    /\ screen.providerWeight + screen.factorWeight + screen.llmWeight > 0

AcceptsUniverse(screen, universe) ==
    "universe" \in DOMAIN screen.versions => screen.versions["universe"] = universe

AcceptsBatch(screen, batch) ==
    /\ screen.status = "published"
    /\ batch.strategy = screen.strategy
    /\ \A d \in DOMAIN batch.versions \cap DOMAIN screen.versions :
          batch.versions[d] = screen.versions[d]

\* Mutant: results are taken whatever values they were computed from.
AcceptsAnyFactors(screen, results) ==
    \A f \in Range(screen.factors) : f.id \in DOMAIN results

AcceptsFactors(screen, results) ==
    \A f \in Range(screen.factors) :
        /\ f.id \in DOMAIN results
        /\ "factor_values" \in DOMAIN screen.versions =>
              results[f.id].version = screen.versions["factor_values"]

\* L0 and L1: the first candidates of the batch that are in the universe.
Proposed(screen, batch) ==
    SubSeq(batch.candidates, 1, Min({screen.maxCandidates, Len(batch.candidates)}))

\* Raw scores carry the factor weights undivided; their total is common.
RawScore(screen, results, inst) ==
    FoldSeq(LAMBDA f, sum : sum + f.weight * results[f.id].values[inst]
                * (IF f.direction = "lower_is_better" THEN -1 ELSE 1),
            0, screen.factors)

\* L2: from 0 to 100 between the lowest and the highest, times the span
\* between them; 50 for all when there is none.
Span(raw) ==
    LET span == Max(Range(raw)) - Min(Range(raw))
    IN  IF span = 0 THEN 1 ELSE span

FactorScores(raw) ==
    [i \in DOMAIN raw |->
        IF Max(Range(raw)) = Min(Range(raw)) THEN 50
        ELSE 100 * (raw[i] - Min(Range(raw)))]

OverlayScore(screen, batch, c) ==
    IF screen.overlay /\ batch.overlay THEN c.llm ELSE 0

\* _final_score, times what all candidates of a screen are divided by.
FinalScores(screen, batch, raw, candidate) ==
    [i \in DOMAIN raw |->
        screen.providerWeight * candidate[i].score * Span(raw)
        + screen.factorWeight * FactorScores(raw)[i]
        + screen.llmWeight * OverlayScore(screen, batch, candidate[i])
            * Span(raw)]

\* _apply_l4_gate, from the best score down: first the cap of the industry,
\* which counts who has passed, then the number of places.
RiskGate(screen, scores, industry) ==
    LET order == SetToSortSeq(DOMAIN scores, LAMBDA i, j :
                    scores[i] > scores[j] \/ (scores[i] = scores[j] /\ i < j))
        Full(passed, i) ==
            /\ screen.maxPerIndustry # Missing
            /\ Cardinality({j \in passed : industry[j] = industry[i]})
                  >= screen.maxPerIndustry
        gate[n \in 0..Cardinality(DOMAIN scores)] ==
            IF n = 0 THEN [passed |-> {}, capped |-> {}]
            ELSE LET before == gate[n - 1]
                     next == DOMAIN scores \cap {order[n]}
                     capped == {i \in next : Full(before.passed, i)}
                     open == Cardinality(before.passed) < screen.topN
                 IN  [passed |-> before.passed \cup
                                    (IF open THEN next \ capped ELSE {}),
                      capped |-> before.capped \cup capped]
    IN  gate[Cardinality(DOMAIN scores)]

Screened(screen, batch, universe, results) ==
    LET proposed == Proposed(screen, batch)
        candidate == [i \in {c.inst : c \in Range(proposed)} |->
                        CHOOSE c \in Range(proposed) : c.inst = i]
        inUniverse == DOMAIN candidate \cap universe.members
        valued == {i \in inUniverse : \A f \in Range(screen.factors) :
                      i \in DOMAIN results[f.id].values}
        raw == [i \in valued |-> RawScore(screen, results, i)]
        scores == FinalScores(screen, batch, raw, candidate)
        industry == [i \in valued |-> IF candidate[i].industry # Missing
                                      THEN candidate[i].industry
                                      ELSE IndustryOf[i]]
        gate == IF valued = {} THEN [passed |-> {}, capped |-> {}]
                ELSE RiskGate(screen, scores, industry)
    IN  [passed |-> gate.passed, scores |-> scores, industry |-> industry,
         failed |-> {<<i, "l0_universe_member">> :
                        i \in DOMAIN candidate \ universe.members}
              \cup {<<i, "l1_provider_candidate_missing">> :
                        i \in universe.members \ DOMAIN candidate}
              \cup {<<i, "l2_factor_value_missing">> : i \in inUniverse \ valued}
              \cup {<<i, IF i \in gate.capped THEN "max_per_industry"
                         ELSE "top_n">> : i \in valued \ gate.passed}]

\* build_screen_snapshot refuses to hold two results of an instrument.
MakesSnapshot(result) ==
    LET instruments == {f[1] : f \in result.failed}
    IN  /\ Cardinality(instruments) = Cardinality(result.failed)
        /\ instruments \cap result.passed = {}
        /\ instruments \cup result.passed # {}

Rank(result, inst) ==
    Cardinality({j \in result.passed :
        \/ result.scores[j] > result.scores[inst]
        \/ result.scores[j] = result.scores[inst] /\ j <= inst})

-----------------------------------------------------------------------------
(* compare_screen_snapshots and evaluate_screen_reproducibility of two runs. *)
(* The versions a snapshot names are those its definition pins.              *)
Statuses(result) ==
    [i \in {f[1] : f \in result.failed} \cup result.passed |->
        IF i \in result.passed THEN "passed" ELSE "failed"]

Compared(a, b) ==
    LET was == Statuses(a.result) is == Statuses(b.result)
        retained == a.result.passed \cap b.result.passed
    IN  [added |-> b.result.passed \ a.result.passed,
         removed |-> a.result.passed \ b.result.passed,
         statusChanges |-> {i \in DOMAIN was \cap DOMAIN is : was[i] # is[i]},
         rankChanges |-> {i \in retained : Rank(a.result, i) # Rank(b.result, i)}]

MismatchReasons(a, b) ==
    {r \in {"screen_definition_version_mismatch", "as_of_mismatch",
            "result_hash_mismatch"} :
        \/ r = "screen_definition_version_mismatch" /\ a.screen # b.screen
        \/ r = "as_of_mismatch" /\ a.day # b.day
        \/ /\ r = "result_hash_mismatch"
           /\ <<a.screen, a.day, a.result>> # <<b.screen, b.day, b.result>>}
=============================================================================
