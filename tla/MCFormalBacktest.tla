---------------------------- MODULE MCFormalBacktest ----------------------------
(* q1 and q2 share a run id; q3, q4 and q5 share a run id and a key.  All have  *)
(* the same inputs.  The samples of q2 have a value without a date; the bundles *)
(* of q3 and q4 are partial, q3 looked ahead and does not bear higher costs,    *)
(* q4 is a preview of patched code and q5 formal from dirty code, with a stage  *)
(* id that two of its layers use.                                               *)
EXTENDS BacktestEvidence, TLC

CONSTANTS q1, q2, q3, q4, q5, r1, r2, k1, k2, k3, x

MCRunOf == (q1 :> r1) @@ (q2 :> r1) @@ [q \in {q3, q4, q5} |-> r2]
MCKeyOf == (q1 :> k1) @@ (q2 :> k2) @@ [q \in {q3, q4, q5} |-> k3]
MCInputOf == [q \in Requests |-> x]
MCMode == [q \in Requests |-> "formal"]
MCCode == (q4 :> "patched") @@ (q5 :> "dirty") @@ [q \in Requests |-> "clean"]

MCAuditPolicy ==
    [minOverlap |-> 8000, blockOverlap |-> 3000, costWarn |-> 500, costBlock |-> 1500]

MCSpec ==
    [dataset |-> [versions |-> [n \in RequiredDatasets |-> "v"],
                  hashes |-> [n \in RequiredDatasets |-> "h"]],
     universe |-> "u",
     strategy |-> [kind |-> "screen_snapshot_rebalance", screens |-> {"s"},
                   factors |-> <<"f">>, model |-> None],
     execution |-> [signal |-> "after_close", signalPrice |-> "close",
                    execution |-> "next_open", executionPrice |-> "open",
                    lag |-> 1, lot |-> 100, seed |-> 7],
     costs |-> [commission |-> 10, minCommission |-> 0, stampTax |-> 10,
                transferFee |-> 0, slippage |-> 0, impact |-> 0, participation |-> 1000],
     risk |-> [perInstrument |-> 5000, perIndustry |-> 8000, turnover |-> One,
               cashBuffer |-> 0, liquidityFloor |-> 0],
     start |-> 1, end |-> 3, capital |-> 10000, createdAt |-> 0, createdBy |-> r1]

Output(kind) ==
    [kind |-> kind, rows |-> 1, hash |-> kind, stored |-> kind, uri |-> kind,
     partitions |-> <<>>]

Sample(inst, trade, inReturn) ==
    [inst |-> inst, trade |-> trade, decided |-> trade - 1, available |-> trade - 1,
     pit |-> 1, universe |-> trade, historical |-> TRUE, known |-> TRUE,
     inStrategy |-> TRUE, inReturn |-> inReturn,
     versions |-> MCSpec.dataset.versions]

Scenario(id, baseline, total) == [id |-> id, baseline |-> baseline, total |-> total]

\* Two of three samples overlap, and the costs take off 600: two warnings.
Good ==
    [spec |-> MCSpec,
     observations |-> {Sample("a", 2, TRUE), Sample("a", 3, TRUE), Sample("b", 3, FALSE)},
     scenarios |-> {Scenario(1, TRUE, 2000), Scenario(2, FALSE, 1400),
                    Scenario(3, FALSE, 2100)},
     risk |-> "warn",
     bundle |-> [state |-> "formal", outputs |-> SetToSeq({Output(k) : k \in OutputKinds}),
                 scope |-> "formal_portfolio_backtest", warned |-> TRUE, erred |-> FALSE,
                 versions |-> MCSpec.dataset.versions],
     stages |-> <<"engine", "ledger", "risk", "audit", "metrics", "artifacts">>]

Undated ==
    [Good EXCEPT !.observations = {Sample("a", 3, TRUE), [Sample("a", 2, TRUE) EXCEPT !.pit = Never]}]

Partial == [Good EXCEPT !.bundle.state = "partial"]

Foreseen ==
    [Partial EXCEPT
        !.observations = {[Sample("a", 2, FALSE) EXCEPT !.available = 2, !.universe = 3]},
        !.scenarios = {Scenario(1, TRUE, 2000), Scenario(2, FALSE, 400)}]

SharedStage == [Good EXCEPT !.stages[2] = "engine"]

\* The same spec, created by the run of the request.
By(q, e) == [e EXCEPT !.spec.createdBy = RunOf[q], !.spec.createdAt = 1]

MCEvidence ==
    (q1 :> Good) @@ (q2 :> By(q2, Undated)) @@ (q3 :> By(q3, Foreseen))
        @@ (q4 :> By(q4, Partial)) @@ (q5 :> By(q5, SharedStage))

\* TLC evaluates a definition once, but what a constant is overridden by in
\* every state.
Judged == [q \in Requests |-> VerdictOf(MCEvidence[q])]

MCVerdict == Judged
=============================================================================
