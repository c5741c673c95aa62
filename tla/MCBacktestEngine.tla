------------------------- MODULE MCBacktestEngine -------------------------
(* Two instruments over three days: "a" splits, is at its limit up on the    *)
(* last day and has thin volume; "b" is suspended on the second day.         *)
EXTENDS BacktestEngine

MCInstruments == {"a", "b"}
MCOrderIds == {"o1", "o2"}

Open(price, volume) ==
    [price |-> price, volume |-> volume, suspended |-> FALSE,
     up |-> price + 1, down |-> price - 1]

MCMarket == <<
    [i \in MCInstruments |-> IF i = "a" THEN Open(1000, 100) ELSE Open(2000, 100)],
    [i \in MCInstruments |-> IF i = "a" THEN Open(1200, 4)
                             ELSE [Open(2000, 100) EXCEPT !.suspended = TRUE]],
    [i \in MCInstruments |-> IF i = "a" THEN [Open(1100, 100) EXCEPT !.up = 1100]
                             ELSE Open(1900, 100)] >>

Intent(i, side, n, limit, signal, trade) ==
    [inst |-> i, side |-> side, target |-> n, limit |-> limit,
     signal |-> signal, trade |-> trade]

MCIntents ==
    {Intent("a", "buy", 2, NoLimit, 0, 1), Intent("a", "sell", 2, NoLimit, 1, 2),
     Intent("a", "buy", 2, NoLimit, 1, 2), Intent("b", "buy", 2, 1900, 0, 1),
     Intent("a", "sell", 3, NoLimit, 2, 3), Intent("a", "buy", 2, NoLimit, 3, 3)}

\* From signals with weights, from a screen, and from signals with scores.
MCTargets ==
    {ExplicitWeights([i \in {"a"} |-> 4000]), EqualWeights(MCInstruments),
     ScoreWeights([i \in MCInstruments |-> IF i = "a" THEN 1 ELSE 2])}

MCProfiles ==
    [i \in MCInstruments |-> [industry |-> "bank", amount |-> 10, style |-> 1]]

Action(ref, d, kind, i, num, den) ==
    [ref |-> ref, day |-> d, kind |-> kind, inst |-> i, num |-> num, den |-> den]

MCActionPlan ==
    {Action("div", 2, "cash_dividend", "a", 50, 1),
     Action("split", 2, "share_split", "a", 2, 1),
     Action("bonus", 3, "bonus_share", "b", 1, 1),
     Action("rights", 2, "rights_issue", "b", 1, 500),
     Action("delist", 3, "delisting_liquidation", "a", 300, 1)}

MCStyleLimits == [warn |-> 5000, block |-> 8000]
=============================================================================
