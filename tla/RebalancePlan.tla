---------------------------- MODULE RebalancePlan ----------------------------
(* quant/backtest/rebalance.py and risk.py: from screened instruments or     *)
(* model signals to target weights, from weights and a ledger to orders, and *)
(* the deterministic risk rules a plan is put through.  Weights are counted  *)
(* in quanta of 0.0001, as _quantize_weight leaves them.                     *)
EXTENDS PortfolioLedger

CONSTANTS
    CashBuffer,        \* BacktestRiskSpec.cash_buffer_pct, in quanta
    MaxWeight,         \* max_weight_per_instrument, in quanta
    MaxIndustryWeight, \* max_weight_per_industry, in quanta
    MaxTurnover,       \* max_turnover_per_rebalance, in quanta
    MaxDrawdown,       \* DeterministicRiskPolicy.max_drawdown_pct, in quanta
    WarnDrawdown,      \* warn_drawdown_pct, in quanta
    LiquidityFloor,    \* liquidity_floor_amount
    StyleLimits,       \* [warn, block] of the one style there is
    MinOrderNotional   \* RebalancePolicy.min_order_notional

One == 10000

ASSUME PlanConstants ==
    /\ {CashBuffer, MaxWeight, MaxIndustryWeight, MaxTurnover,
        MaxDrawdown, WarnDrawdown} \subseteq 0..One
    /\ WarnDrawdown <= MaxDrawdown
    /\ {LiquidityFloor, MinOrderNotional} \subseteq Nat
    /\ StyleLimits \in [warn : Nat, block : Nat]

-----------------------------------------------------------------------------
\* Decimal.quantize: to the nearest quantum, halves to the even one.
Nearest(num, den) ==
    LET q == num \div den
        r == num % den
    IN  IF 2 * r > den \/ (2 * r = den /\ q % 2 = 1) THEN q + 1 ELSE q

InvestableWeight == One - CashBuffer

\* _cap_weight of the weight num/den quanta.
CappedWeight(num, den) ==
    IF num > MaxWeight * den THEN MaxWeight ELSE Nearest(num, den)

EqualWeights(chosen) ==
    [i \in chosen |-> CappedWeight(InvestableWeight, Cardinality(chosen))]

ScoreSum(scores) == MapThenSumSet(LAMBDA i : scores[i], DOMAIN scores)

ScoreWeights(scores) ==
    [i \in DOMAIN scores |->
        CappedWeight(InvestableWeight * scores[i], ScoreSum(scores))]

ExplicitWeights(weights) ==
    [i \in DOMAIN weights |-> CappedWeight(weights[i], 1)]

WeightSum(weights) == MapThenSumSet(LAMBDA i : weights[i], DOMAIN weights)

\* _normalize_target_weights: what build_plan takes.
AcceptedTargets(weights) ==
    DOMAIN weights # {} /\ WeightSum(weights) <= InvestableWeight

-----------------------------------------------------------------------------
\* Mutant: a broken lot is rounded up.
CeilToLot(amount, price) == (amount \div (price * LotSize) + 1) * LotSize

FloorToLot(amount, price) == (amount \div (price * LotSize)) * LotSize

Distance(a, b) == IF a >= b THEN a - b ELSE b - a

\* _OrderCandidate: what one instrument needs to get to its target.
TargetNotional(l, targets, inst) ==
    IF inst \in DOMAIN targets THEN Nearest(Equity(l) * targets[inst], One) ELSE 0

\* The lots that get there; a sale is cut down to what is held, which is less
\* only when debts have made the target negative.
Wanted(l, targets, prices, inst) ==
    FloorToLot(Distance(TargetNotional(l, targets, inst),
                        PositionQuantity(l, inst) * prices[inst]), prices[inst])

Candidate(l, targets, prices, inst) ==
    LET held == PositionQuantity(l, inst)
        wanted == Wanted(l, targets, prices, inst)
        buys == TargetNotional(l, targets, inst) > held * prices[inst]
    IN  [inst |-> inst, price |-> prices[inst],
         side |-> IF buys THEN "buy" ELSE "sell",
         qty |-> IF ~buys /\ wanted > held THEN FloorToLot(held, 1) ELSE wanted]

Notional(c) == c.qty * c.price

BigEnough(c) == c.qty > 0 /\ Notional(c) >= MinOrderNotional

Considered(l, targets) == OpenInstruments(l) \cup DOMAIN targets

\* One candidate after the other, in the order of the instruments.
Candidates(l, targets, prices) ==
    LET order == SetToSeq(Considered(l, targets))
    IN  [n \in DOMAIN order |-> Candidate(l, targets, prices, order[n])]

\* The sales, in full.
ApprovedSells(candidates) ==
    LET Upto[n \in 0..Len(candidates)] ==
          IF n = 0 THEN <<>>
          ELSE IF candidates[n].side = "sell" /\ BigEnough(candidates[n])
               THEN Append(Upto[n - 1], candidates[n])
               ELSE Upto[n - 1]
    IN  Upto[Len(candidates)]

\* Settled cash that is not owed and not held back; receivables do not count.
AvailableBuyCash(l) ==
    LET free == l.cash - l.payables - Nearest(Equity(l) * CashBuffer, One)
    IN  IF free > 0 THEN free ELSE 0

\* A buy is cut down to the cash that is left when its turn comes.
ApproveBuy(acc, c) ==
    LET fits == [c EXCEPT !.qty =
                    IF Notional(c) <= acc.left THEN @ ELSE FloorToLot(acc.left, c.price)]
    IN  IF c.side = "buy" /\ BigEnough(c) /\ BigEnough(fits)
        THEN [left |-> acc.left - Notional(fits), buys |-> Append(acc.buys, fits)]
        ELSE acc

ApprovedBuys(candidates, cash) ==
    LET Upto[n \in 0..Len(candidates)] ==
          IF n = 0 THEN [left |-> cash, buys |-> <<>>]
          ELSE ApproveBuy(Upto[n - 1], candidates[n])
    IN  Upto[Len(candidates)]

\* RebalanceOrderGenerator.build_plan: sells first, then buys.  An order for no
\* shares raises: when no order is too small, a sale that was cut down can be one.
MayPlan(l, targets, prices) ==
    /\ AcceptedTargets(targets)
    /\ Considered(l, targets) \subseteq DOMAIN prices
    /\ Valued(l)
    /\ \A i \in Considered(l, targets) :
          MinOrderNotional = 0 /\ Wanted(l, targets, prices, i) > 0 =>
              Candidate(l, targets, prices, i).qty > 0

BuildPlan(l, targets, prices) ==
    LET candidates == Candidates(l, targets, prices)
        sells == ApprovedSells(candidates)
        approved == ApprovedBuys(candidates, AvailableBuyCash(l))
    IN  [targets |-> targets, candidates |-> sells \o approved.buys,
         bought |-> Total(approved.buys, Notional),
         sold |-> Total(sells, Notional), residual |-> approved.left]

\* _created_order: the intent of each order of a plan.
PlannedIntent(c, signal, trade) ==
    [inst |-> c.inst, side |-> c.side, target |-> c.qty, limit |-> NoLimit,
     signal |-> signal, trade |-> trade]

-----------------------------------------------------------------------------
\* RiskPolicyEvaluator: the outcome of each rule for a plan.  profiles maps
\* the instruments that have one to [industry, amount, style].
RiskRules ==
    {"risk_profile_available", "max_weight_per_instrument",
     "max_weight_per_industry", "style_exposure", "liquidity_floor",
     "max_turnover_per_rebalance", "max_drawdown"}

Profiled(targets, profiles) == DOMAIN targets \subseteq DOMAIN profiles

IndustryWeight(targets, profiles, industry) ==
    MapThenSumSet(LAMBDA i : targets[i],
        {i \in DOMAIN targets : profiles[i].industry = industry})

IndustryBreached(targets, profiles) ==
    \E i \in DOMAIN targets :
        IndustryWeight(targets, profiles, profiles[i].industry)
            > MaxIndustryWeight

StyleExposure(targets, profiles) ==
    LET sum == MapThenSumSet(LAMBDA i : targets[i] * profiles[i].style,
                             DOMAIN targets)
    IN  Distance(sum, 0)

StyleStatus(targets, profiles) ==
    LET exposure == StyleExposure(targets, profiles)
    IN  IF exposure > StyleLimits.block THEN "block"
        ELSE IF exposure > StyleLimits.warn THEN "warn" ELSE "pass"

Turnover(l, plan) == Nearest((plan.bought + plan.sold) * One, Equity(l))

TurnoverStatus(l, plan) ==
    IF Equity(l) <= 0 THEN "not_evaluable"
    ELSE IF Turnover(l, plan) > MaxTurnover THEN "block" ELSE "pass"

Drawdown(l, highWater) ==
    IF Equity(l) >= highWater THEN 0
    ELSE Nearest((highWater - Equity(l)) * One, highWater)

DrawdownStatus(l, highWater) ==
    IF Drawdown(l, highWater) > MaxDrawdown THEN "block"
    ELSE IF Drawdown(l, highWater) > WarnDrawdown THEN "warn" ELSE "pass"

BlockIf(breached) == IF breached THEN "block" ELSE "pass"

\* The rules that ask for the profile of every target.
ProfileStatus(rule, targets, profiles) ==
    CASE rule = "risk_profile_available" -> "pass"
      [] rule = "max_weight_per_industry" ->
           BlockIf(IndustryBreached(targets, profiles))
      [] rule = "style_exposure" -> StyleStatus(targets, profiles)
      [] rule = "liquidity_floor" ->
           BlockIf(\E i \in DOMAIN targets : profiles[i].amount < LiquidityFloor)

RuleStatus(rule, l, plan, profiles, highWater) ==
    LET targets == plan.targets
        known == Profiled(targets, profiles)
    IN  CASE rule = "max_weight_per_instrument" ->
               BlockIf(\E i \in DOMAIN targets : targets[i] > MaxWeight)
          [] rule = "max_turnover_per_rebalance" -> TurnoverStatus(l, plan)
          [] rule = "max_drawdown" -> DrawdownStatus(l, highWater)
          [] OTHER -> IF known THEN ProfileStatus(rule, targets, profiles)
                      ELSE "not_evaluable"

\* _overall_status: a rule that cannot be evaluated blocks like a breach.
RiskStatus(l, plan, profiles, highWater) ==
    LET found == {RuleStatus(r, l, plan, profiles, highWater) : r \in RiskRules}
    IN  IF found \cap {"block", "not_evaluable"} # {} THEN "block"
        ELSE IF "warn" \in found THEN "warn" ELSE "pass"
=============================================================================
