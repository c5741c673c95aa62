--------------------------- MODULE BacktestEngine ---------------------------
(* The formal backtest as a run of days, in the way                          *)
(* BacktestGoldenRunner.run (quant/backtest/golden.py) drives the parts:     *)
(* orders are planned or placed, executed against the bar of the day and     *)
(* booked at once; debts and claims are settled, corporate actions posted;   *)
(* at the close the book is marked to market and a point of the equity curve *)
(* is taken.  Within a day the steps may come in any order.                  *)
EXTENDS RebalancePlan

CONSTANTS
    OrderIds,        \* names of orders
    Market,          \* Market[day][instrument] is a market snapshot
    Intents,         \* orders a caller may place without a plan
    TargetChoices,   \* target weights a rebalance may ask for
    Profiles,        \* risk profiles: instrument -> [industry, amount, style]
    ActionPlan,      \* corporate actions: [ref, day, kind, inst, num, den]
    MaxEvents        \* bound on the events of the ledger

ASSUME EngineConstants ==
    /\ \A d \in 1..Days, i \in Instruments : ValidSnapshot(Market[d][i])
    /\ Intents \subseteq OrderIntents
    /\ \A targets \in TargetChoices :
          /\ DOMAIN targets \subseteq Instruments
          /\ \A i \in DOMAIN targets : targets[i] \in 0..One
    /\ \A a \in ActionPlan :
          /\ a.kind \in CorporateActionTypes /\ a.inst \in Instruments
          /\ a.num \in Nat \ {0} /\ a.den \in Nat \ {0}
    /\ MaxEvents \in Nat
    /\ IsFiniteSet(OrderIds) /\ IsFiniteSet(Instruments)

VARIABLES
    day,        \* today; Days + 1 when the run is over
    orders,     \* order id -> the latest snapshot of the order
    ledger,     \* the PortfolioLedger
    plan,       \* the last rebalance plan and the risk decision about it
    curve       \* equity at each close

vars == <<day, orders, ledger, plan, curve>>

NoPlan == [made |-> FALSE]

Bar(inst) == Market[day][inst]

Prices == [i \in Instruments |-> Market[day][i].price]

Running == day <= Days

HasRoom == Len(ledger.events) < MaxEvents

\* Order ids are taken in one order, so that names do not multiply states.
UnusedIds == OrderIds \ DOMAIN orders

NextIds == SetToSeq(UnusedIds)

\* new maps some of the unused ids to orders.
AddOrders(new) ==
    [id \in DOMAIN orders \cup DOMAIN new |->
        IF id \in DOMAIN new THEN new[id] ELSE orders[id]]

-----------------------------------------------------------------------------
Init ==
    /\ day = 1
    /\ orders = <<>>
    /\ ledger = OpenLedger
    /\ plan = NoPlan
    /\ curve = <<>>

PlaceOrder(intent) ==
    /\ Running /\ UnusedIds # {}
    /\ intent.trade = day
    /\ orders' = AddOrders([id \in {NextIds[1]} |-> CreateOrder(intent)])
    /\ UNCHANGED <<day, ledger, plan, curve>>

\* The plan's orders are for today on yesterday's signal.
HighWater == FoldLeft(Higher, InitialCash, curve)

Rebalance(targets) ==
    LET made == BuildPlan(ledger, targets, Prices)
        n == Len(made.candidates)
    IN  /\ Running /\ ~plan.made
        /\ MayPlan(ledger, targets, Prices)
        /\ n <= Cardinality(UnusedIds)
        /\ plan' = [made |-> TRUE, of |-> made,
                    risk |-> RiskStatus(ledger, made, Profiles, HighWater)]
        /\ orders' = AddOrders(
             [id \in {NextIds[k] : k \in 1..n} |->
                LET k == CHOOSE j \in 1..n : id = NextIds[j]
                IN  CreateOrder(PlannedIntent(made.candidates[k], day - 1, day))])
        /\ UNCHANGED <<day, ledger, curve>>

LockedToday(inst) ==
    Total(ledger.lots,
          LAMBDA lot : IF lot.day = day THEN SharesOf(lot, inst) ELSE 0)

AvailabilityOf(inst) ==
    Availability(PositionQuantity(ledger, inst), LockedToday(inst))

\* Mutant: the order's target is booked, not the fill.
BookingOfTarget(intent, fill, id) ==
    ExecutionEvent(ledger, intent, [fill EXCEPT !.qty = intent.target], id,
                   TotalCost(intent.side, fill.qty * fill.price))

\* A fill is booked with the cost the cost model gave for it.
Booking(intent, fill, id) ==
    ExecutionEvent(ledger, intent, fill, id,
                   TotalCost(intent.side, fill.qty * fill.price))

Book(intent, fill, id) ==
    /\ HasRoom
    /\ ~CostRefused(intent.side, fill.qty * fill.price)
    /\ Applies(ledger, Booking(intent, fill, id))
    /\ ledger' = Apply(ledger, Booking(intent, fill, id))

\* _execute_order, and record_execution when there is a fill.
Trade(id) ==
    LET o == orders[id]
        next == Execute(o, Bar(o.intent.inst), AvailabilityOf(o.intent.inst), day)
    IN  /\ Running /\ Executable(o, day)
        /\ next # o
        /\ orders' = [orders EXCEPT ![id] = next]
        /\ IF Len(next.fills) > Len(o.fills)
           THEN Book(o.intent, Last(next.fills), id)
           ELSE UNCHANGED ledger
        /\ UNCHANGED <<day, plan, curve>>

\* A caller that fills by hand may fill a part only.
FillPartly(id, qty) ==
    LET o == orders[id]
        next == RecordFill(o, qty, Bar(o.intent.inst).price, day)
    IN  /\ Running /\ Executable(o, day)
        /\ o.intent.side = "buy"
        /\ qty < RemainingQuantity(o) /\ MayFill(o, qty)
        /\ orders' = [orders EXCEPT ![id] = next]
        /\ Book(o.intent, Last(next.fills), id)
        /\ UNCHANGED <<day, plan, curve>>

AcceptOrder(id) ==
    /\ Running /\ MayAccept(orders[id])
    /\ orders' = [orders EXCEPT ![id] = Accept(@)]
    /\ UNCHANGED <<day, ledger, plan, curve>>

CancelOrder(id) ==
    /\ Running /\ MayCancel(orders[id])
    /\ orders' = [orders EXCEPT ![id] = Cancel(@)]
    /\ UNCHANGED <<day, ledger, plan, curve>>

\* Every other entry of the ledger.
Post(event) ==
    /\ Running /\ HasRoom
    /\ Applies(ledger, event)
    /\ ledger' = Apply(ledger, event)
    /\ UNCHANGED <<day, orders, plan, curve>>

SettleDebts ==
    /\ ledger.payables > 0
    /\ Post(SettlePayableEvent(ledger, ledger.payables, "payables"))

SettleClaims ==
    /\ ledger.receivables > 0
    /\ Post(SettleReceivableEvent(ledger, ledger.receivables, "receivables"))

\* CorporateActionLedgerProcessor: one method of the ledger per kind.
EventOf(a) ==
    CASE a.kind = "cash_dividend" ->
           CashDividendEvent(ledger, a.inst, a.ref, day, a.num)
      [] a.kind = "bonus_share" ->
           BonusShareEvent(ledger, a.inst, a.ref, day, a.num)
      [] a.kind = "share_split" ->
           ShareSplitEvent(ledger, a.inst, a.ref, day, a.num, a.den)
      [] a.kind = "rights_issue" ->
           RightsIssueEvent(ledger, a.inst, a.ref, day, a.num, a.den)
      [] a.kind = "delisting_liquidation" ->
           DelistingEvent(ledger, a.inst, a.ref, day, a.num)

IsPosted(a) == \E n \in DOMAIN ledger.actions : ledger.actions[n].ref = a.ref

PostAction(a) ==
    /\ a.day = day /\ ~IsPosted(a)
    /\ PositionQuantity(ledger, a.inst) > 0
    /\ Post(EventOf(a))

\* The end of a pass of the loop: positions are marked at today's prices, if
\* there are any, and the equity curve gets its point.
Close ==
    LET held == OpenInstruments(ledger)
        mark == ValuationEvent(ledger, [i \in held |-> Prices[i]], day)
        marked == IF held = {} THEN ledger ELSE Apply(ledger, mark)
    IN  /\ Running
        /\ ledger' = marked
        /\ curve' = Append(curve, Equity(marked))
        /\ day' = day + 1
        /\ plan' = NoPlan
        /\ UNCHANGED orders

Over == ~Running /\ UNCHANGED vars

Next ==
    \/ \E intent \in Intents : PlaceOrder(intent)
    \/ \E targets \in TargetChoices : Rebalance(targets)
    \/ \E id \in DOMAIN orders :
          \/ Trade(id)
          \/ \E qty \in 1..MaxQuantity : FillPartly(id, qty)
          \/ AcceptOrder(id)
          \/ CancelOrder(id)
    \/ SettleDebts
    \/ SettleClaims
    \/ \E a \in ActionPlan : PostAction(a)
    \/ Close
    \/ Over

Spec == Init /\ [][Next]_vars

-----------------------------------------------------------------------------
(* quant/backtest/metrics.py: the report about the run up to its last close, *)
(* in fractions <<numerator, denominator>>.  Of the figures that take powers *)
(* or roots, only whether there is one; the risk-free rate is 0 and the      *)
(* curve has no benchmark, as in golden.py.                                  *)

\* BacktestMetricRegistry.default(): the category of each metric.
MetricRegistry ==
    [cumulative_return |-> "returns", annualized_return |-> "returns",
     annualized_volatility |-> "risk", sharpe_ratio |-> "risk", sortino_ratio |-> "risk",
     max_drawdown |-> "drawdown", max_drawdown_duration_periods |-> "drawdown",
     calmar_ratio |-> "drawdown", win_rate |-> "trading", profit_loss_ratio |-> "trading",
     turnover_rate |-> "trading", cost_ratio |-> "cost", tracking_error |-> "benchmark",
     information_ratio |-> "benchmark", industry_exposure |-> "exposure"]

\* calculate() takes two points or more, and only positive ones.
MayReport == Len(curve) >= 2 /\ \A n \in DOMAIN curve : curve[n] > 0

\* What point n lost of point m, and whether one loss is worse than another.
Fall(points, m, n) == <<points[m] - points[n], points[m]>>

Exceeds(p, q) == p[1] * q[2] > q[1] * p[2]

\* _period_returns: growth of each period, as <<after, before>>.
PeriodReturns(points) == [n \in 1..(Len(points) - 1) |-> <<points[n + 1], points[n]>>]

\* _returns: growth from the first point to the last.
CumulativeReturn(points) == <<Last(points) - points[1], points[1]>>

\* _risk: a sample deviation takes two periods, a ratio one that is not 0, and
\* the downside a period that lost.
Volatility(returns) == IF Len(returns) < 2 THEN {} ELSE {"annualized_volatility"}
Sharpe(returns) ==
    IF Len(returns) >= 2 /\ \E m, n \in DOMAIN returns : Exceeds(returns[m], returns[n])
    THEN {"sharpe_ratio"} ELSE {}
Sortino(returns) ==
    IF \E n \in DOMAIN returns : returns[n][1] < returns[n][2] THEN {"sortino_ratio"} ELSE {}

RiskMetrics(returns) == Volatility(returns) \union Sharpe(returns) \union Sortino(returns)

NoFall == [peak |-> 1, below |-> 0, longest |-> 0, worst |-> <<0, 1>>]

RisenTo(d, n) == [peak |-> n, below |-> 0, longest |-> d.longest, worst |-> d.worst]

FallenTo(points, d, n) ==
    LET fall == Fall(points, d.peak, n)
    IN  [peak |-> d.peak, below |-> d.below + 1, longest |-> Higher(d.longest, d.below + 1),
         worst |-> IF Exceeds(fall, d.worst) THEN fall ELSE d.worst]

\* Mutant: the peak starts again with every rise, not with a new high.
DrawdownOfRise(points) ==
    LET After[n \in 0..Len(points)] ==
          IF n = 0 THEN NoFall
          ELSE IF n = 1 \/ points[n] >= points[n - 1] THEN RisenTo(After[n - 1], n)
          ELSE FallenTo(points, After[n - 1], n)
    IN  After[Len(points)]

\* _drawdown: one pass with the latest peak, the periods since, and the worst
\* fall from the peak of its time.
WorstDrawdown(points) ==
    LET After[n \in 0..Len(points)] ==
          IF n = 0 THEN NoFall
          ELSE IF points[n] >= points[After[n - 1].peak] THEN RisenTo(After[n - 1], n)
          ELSE FallenTo(points, After[n - 1], n)
    IN  After[Len(points)]

\* One trade outcome per sale that was booked.
TradeOutcomes ==
    {n \in DOMAIN ledger.executions : ledger.executions[n].side = "sell"}

\* A sum over the executions at these places.
TotalAt(places, Op(_)) ==
    SumOf([n \in DOMAIN ledger.executions |->
              IF n \in places THEN Op(ledger.executions[n]) ELSE 0])

Trading ==
    LET won == {n \in TradeOutcomes : ledger.executions[n].pnl > 0}
        lost == {n \in TradeOutcomes : ledger.executions[n].pnl < 0}
    IN  [closed |-> Cardinality(TradeOutcomes), winning |-> Cardinality(won),
         losing |-> Cardinality(lost), won |-> TotalAt(won, LAMBDA e : e.pnl),
         lost |-> TotalAt(lost, LAMBDA e : e.pnl)]

Costs ==
    [total |-> Total(ledger.executions, LAMBDA e : e.cost),
     gross |-> Total(ledger.executions, LAMBDA e : e.gross)]

\* The metrics of a category that calculate() finds a value for: ratios whose
\* denominator is not 0.  Turnovers and exposures are observed elsewhere.
Evaluable(category) ==
    LET fall == WorstDrawdown(curve).worst
        found == RiskMetrics(PeriodReturns(curve))
                 \union (IF fall[1] > 0 THEN {"calmar_ratio"} ELSE {})
                 \union (IF Trading.closed > 0 THEN {"win_rate"} ELSE {})
                 \union (IF Trading.winning > 0 /\ Trading.losing > 0
                         THEN {"profit_loss_ratio"} ELSE {})
                 \union (IF Costs.gross > 0 THEN {"cost_ratio"} ELSE {})
                 \union {"cumulative_return", "annualized_return", "max_drawdown",
                         "max_drawdown_duration_periods"}
    IN  {m \in found : MetricRegistry[m] = category}

MetricReport ==
    [starting |-> curve[1], ending |-> Last(curve), cumulative |-> CumulativeReturn(curve),
     drawdown |-> WorstDrawdown(curve), trading |-> Trading, costs |-> Costs,
     evaluable |-> [c \in Range(MetricRegistry) |-> Evaluable(c)]]

-----------------------------------------------------------------------------
Earned ==
    Total(ledger.executions, LAMBDA e : e.pnl)
    + Total(ledger.actions, LAMBDA e : e.pnl)
    + Total(ledger.actions,
            LAMBDA e : IF e.action = "cash_dividend" THEN e.receivable ELSE 0)

Books == INSTANCE Accounts WITH
    cash <- ledger.cash, receivables <- ledger.receivables,
    payables <- ledger.payables, bookCost <- BookCost(ledger),
    earned <- Earned

\* The money side of the ledger is the one Accounts describes: realized profit
\* and dividends explain every change of what the book is worth at cost, with
\* FIFO lots, fees, splits and liquidations in it (ledger.py).
ImplementsAccounts == Books!Spec

Filled(inst, side) ==
    LET mine == {id \in DOMAIN orders :
                    orders[id].intent.inst = inst /\ orders[id].intent.side = side}
    IN  Total(SetToSeq(OrderIds),
              LAMBDA id : IF id \in mine
                          THEN Total(orders[id].fills, LAMBDA f : f.qty) ELSE 0)

Adjusted(inst) ==
    Total(ledger.actions, LAMBDA e : IF e.inst = inst THEN e.shares ELSE 0)

\* The shares of a position are the ones its orders bought, less the ones they
\* sold, plus what corporate actions added or took: no fill is lost, booked
\* twice or booked on the wrong side (execution.py, ledger.py).
PositionsMatchFills ==
    \A i \in Instruments :
        PositionQuantity(ledger, i) =
            Filled(i, "buy") - Filled(i, "sell") + Adjusted(i)

Redelivered(stream) ==
    [n \in 1..(2 * Len(stream)) |-> stream[(n + 1) \div 2]] \o stream

\* The events alone determine the ledger, even when each of them is delivered
\* twice and the whole stream a second time (docs/portfolio-ledger.md).
ReplayReproduces == Replay(Redelivered(ledger.events)) = ledger

LotsOfToday(l, inst) ==
    LET Upto[n \in 0..Len(l.lots)] ==
          IF n = 0 THEN <<>>
          ELSE IF l.lots[n].inst = inst /\ l.lots[n].day = day
               THEN Append(Upto[n - 1], l.lots[n])
               ELSE Upto[n - 1]
    IN  Upto[Len(l.lots)]

\* T+1: a sale never touches shares that were bought on the day of the sale
\* (AShareExecutionModel.execute, golden.py).
SharesAreHeldOvernight ==
    [][ \A id \in DOMAIN orders :
          (orders[id].intent.side = "sell" /\ orders'[id].fills # orders[id].fills)
            => LotsOfToday(ledger', orders[id].intent.inst)
                 = LotsOfToday(ledger, orders[id].intent.inst) ]_vars

\* A plan spends only settled cash that is not owed and not in the buffer, and
\* sells only what is held; its orders together, not each alone (rebalance.py).
PlansAreCovered ==
    [][ (plan'.made /\ ~plan.made) =>
          /\ plan'.of.bought > 0 =>
                plan'.of.bought + Nearest(Equity(ledger) * CashBuffer, One)
                    + ledger.payables <= ledger.cash
          /\ \A n \in DOMAIN plan'.of.candidates :
                LET c == plan'.of.candidates[n]
                IN  c.side = "sell" => c.qty <= PositionQuantity(ledger, c.inst)
      ]_vars

\* The worst drawdown of a report is the worst fall between any two points,
\* and its duration the longest stretch below an earlier point, though the
\* code keeps one peak in one pass (metrics.py).
DrawdownIsWorst(report) ==
    LET Points == DOMAIN curve
        LastsTo(m, n) == m <= n /\ \A k \in (m + 1)..n : curve[k] < curve[m]
    IN  /\ \A m, n \in Points :
              m <= n => ~Exceeds(Fall(curve, m, n), report.drawdown.worst)
        /\ \E m, n \in Points : m <= n /\
              ~Exceeds(report.drawdown.worst, Fall(curve, m, n))
        /\ \A m, n \in Points : LastsTo(m, n) => n - m <= report.drawdown.longest
        /\ \E m, n \in Points : LastsTo(m, n) /\ n - m = report.drawdown.longest

\* Risk and drawdown take different passes over the curve and agree on which
\* ratios there are: a curve that fell below a peak has a period that lost, and
\* one that recovered did not grow steadily (metrics.py).
RatiosAgree(report) ==
    LET risk == report.evaluable["risk"]
        fell == "calmar_ratio" \in report.evaluable["drawdown"]
    IN  /\ fell <=> "sortino_ratio" \in risk
        /\ "sharpe_ratio" \in risk => "annualized_volatility" \in risk
        /\ report.cumulative[1] < 0 => fell
        /\ (fell /\ report.cumulative[1] >= 0) => "sharpe_ratio" \in risk

\* Trades, corporate actions and the value of what is still held explain the
\* whole change of equity since the initial cash; so do the amounts traded and
\* their costs, without any lot in the sum (metrics.py, ledger.py).
EquityIsExplained(report) ==
    LET settled == ledger.cash + ledger.receivables - ledger.payables
        marked == Equity(ledger) - settled
        gained == Earned - Total(ledger.executions, LAMBDA e : e.pnl)
        net == Total(ledger.actions, LAMBDA e : e.receivable - e.payable)
        sold == TotalAt(TradeOutcomes, LAMBDA e : e.gross)
    IN  /\ report.ending - InitialCash =
              report.trading.won + report.trading.lost + gained
              + marked - BookCost(ledger)
        /\ report.ending - InitialCash =
              2 * sold - report.costs.gross - report.costs.total + net + marked

\* At the end of a run, the report is about that run.
MetricsAreTrue ==
    ~Running /\ MayReport =>
        LET report == MetricReport
        IN  DrawdownIsWorst(report) /\ RatiosAgree(report) /\ EquityIsExplained(report)

=============================================================================
