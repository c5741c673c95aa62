--------------------------- MODULE MCFactorScreening ---------------------------
(* Four instruments in two industries and one without; four trading days     *)
(* around a closed one, of which the last three are planned; two drafts of   *)
(* one factor and one of another, which ranks.  Restated are a bar before    *)
(* the planned days and a late volume on the first of them.                  *)
EXTENDS FactorScreening

MCTradingDays == {1, 2, 4, 5}
MCPlannedDays == <<2, 4, 5>>
MCInstruments == 1..4
MCIndustryOf == <<1, 1, 2, Missing>>

F(op, args, n, name) == [op |-> op, args |-> args, n |-> n, name |-> name]
Input(name) == F("input", <<>>, 0, name)

\* close - delay(delay(close, 1), 1), rolling_sum(close, 3) and
\* rank(delay(delay(volume, 1), 1)).
Spec1 == [id |-> "f", semantic |-> "f@1", windows |-> {1},
          formula |-> <<Input("close"), F("delay", <<1>>, 1, ""),
                        F("delay", <<2>>, 1, ""), F("sub", <<1, 3>>, 0, "")>>,
          inputs |-> [close |-> [dataset |-> "bars", version |-> 1,
                                 numeric |-> TRUE]]]
Spec2 == [Spec1 EXCEPT !.formula = <<Input("close"),
                                     F("rolling_sum", <<1>>, 3, "")>>,
                       !.windows = {3}]
Spec3 == [id |-> "g", semantic |-> "g@1", windows |-> {1},
          formula |-> <<Input("volume"), F("delay", <<1>>, 1, ""),
                        F("delay", <<2>>, 1, ""), F("rank", <<3>>, 0, "")>>,
          inputs |-> [volume |-> [dataset |-> "bars", version |-> 1,
                                  numeric |-> TRUE]]]

MCPublished == {Spec1, Spec2, Spec3}

Closes == <<<<1, 2, 3, 5>>, <<Missing, 2, 4, 1>>, <<3, 1, 1, 4>>, <<2, 5, 1, 2>>>>
Volumes == <<<<1, 1, 2, 1>>, <<1, 3, 1, 1>>, <<2, 1, 1, 4>>, <<1, Missing, 1, 1>>>>

MCData == [q \in {"close", "volume"} \X MCInstruments \X MCTradingDays |->
             LET place == Cardinality({d \in MCTradingDays : d <= q[3]})
             IN  IF q[1] = "close" THEN Closes[q[2]][place] ELSE Volumes[q[2]][place]]

MCRestatements ==
    {[key |-> <<"close", 1, 1>>, value |-> 7, dataset |-> "bars"],
     [key |-> <<"volume", 4, 2>>, value |-> 4, dataset |-> "bars"]}

Listing(i) == [inst |-> i, status |-> "active", listedOn |-> 1, from |-> 1,
               delistedOn |-> Missing, st |-> FALSE, to |-> Missing]

MCListings == {Listing(1), [Listing(2) EXCEPT !.listedOn = 2], Listing(4),
               [Listing(3) EXCEPT !.to = 5],
               [Listing(3) EXCEPT !.from = 5, !.st = TRUE]}
MCSuspensions == {<<2, 4>>, <<4, 4>>}

MCUniverse == [minDays |-> 2, excludeSt |-> TRUE, excludeSuspended |-> TRUE,
               requireBar |-> TRUE]

MCProcessing == [missing |-> "drop", limit |-> 2, neutralize |-> TRUE]

Factor(id, weight, direction) ==
    [id |-> id, weight |-> weight, direction |-> direction]

Screen == [status |-> "published", strategy |-> "s", versions |-> <<>>,
           factors |-> <<Factor("f", 1, "higher_is_better")>>,
           providerWeight |-> 1, factorWeight |-> 2, llmWeight |-> 0,
           overlay |-> FALSE, maxCandidates |-> 4, topN |-> 2,
           maxPerIndustry |-> 1]

Both == <<Factor("f", 2, "lower_is_better"), Factor("g", 1, "higher_is_better")>>

AllBars == MCInstruments \X MCTradingDays \ {<<4, 2>>}

MCScreens ==
    {Screen,
     [Screen EXCEPT !.factors = Both,
                    !.versions = [factor_values |-> 1,
                       universe |-> UniverseOn(MCUniverse, 5, AllBars)]],
     [Screen EXCEPT !.factors = Both, !.overlay = TRUE, !.llmWeight = 1, !.maxCandidates = 3,
                    !.maxPerIndustry = Missing]}

Candidate(i, score, llm, industry) ==
    [inst |-> i, score |-> score, llm |-> llm, industry |-> industry]

MCBatches ==
    {[strategy |-> "s", versions |-> [bars |-> 1], overlay |-> TRUE,
      candidates |-> <<Candidate(2, 90, 10, Missing), Candidate(1, 80, 20, 1),
                       Candidate(4, 70, 90, Missing), Candidate(3, 60, 0, 1)>>]}
===============================================================================
