-------------------------- MODULE AShareExecution --------------------------
(* The order state machine of quant/backtest/orders.py (an order is an       *)
(* immutable intent plus the events applied to it; every method of Order     *)
(* builds one event and applies it: here a guard, which the method raises    *)
(* where it is FALSE, and the snapshot the method returns), and, in          *)
(* quant/backtest/execution.py and costs.py, how an order meets the market   *)
(* of its trade date.  The rules are tried in a fixed order and the first    *)
(* one that blocks decides, by the policy of that rule, how the order ends;  *)
(* an order that no rule blocks is filled whole and priced by the cost model.*)
EXTENDS Integers, Sequences, FiniteSets

CONSTANTS
    Instruments,      \* instruments that can be traded
    MaxQuantity,      \* bound on the quantity of one order
    MaxPrice,         \* bound on a price
    Days              \* the last trading day; days are 1..Days

ASSUME OrderConstants ==
    /\ MaxQuantity \in Nat \ {0}
    /\ MaxPrice \in Nat \ {0}
    /\ Days \in Nat \ {0}

NoLimit == 0          \* the limit price of a market order

CONSTANTS
    LotSize,               \* BacktestExecutionSpec.lot_size
    SuspendedPolicy,       \* BacktestExecutionSpec.suspended_security_policy
    UnfilledPolicy,        \* BacktestExecutionSpec.unfilled_order_policy
    MaxParticipation,      \* max_participation_rate, in hundredths
    CommissionBps, MinCommission, StampTaxBps, OtherBps

UnfilledPolicies ==
    {"reject_order", "expire_after_rebalance", "expire_order",
     "keep_open_until_cancelled"}

ASSUME ExecutionConstants ==
    /\ LotSize \in Nat \ {0}
    /\ {SuspendedPolicy, UnfilledPolicy} \subseteq UnfilledPolicies
    /\ {MaxParticipation, CommissionBps, MinCommission, StampTaxBps, OtherBps}
         \subseteq Nat

-----------------------------------------------------------------------------
Sides == {"buy", "sell"}

TerminalOrderStatuses == {"filled", "rejected", "expired", "cancelled"}

OpenStatuses == {"created", "accepted", "partially_filled"}

\* What an order asks for.  A signal may carry the date of the trade or a
\* later one: nothing here compares them, the execution model does.
OrderIntents ==
    [inst : Instruments, side : Sides, target : 1..MaxQuantity,
     limit : NoLimit..MaxPrice, signal : 0..Days, trade : 1..Days]

RemainingQuantity(o) == o.intent.target - o.filled

IsTerminal(o) == o.status \in TerminalOrderStatuses

\* Order._apply_event: the event is appended, the status is the event's.
Moved(o, status) ==
    [o EXCEPT !.status = status, !.events = Append(@, status)]

\* Order._validate_transition, the rules that do not look at quantities.
MayMove(o, status) ==
    /\ ~IsTerminal(o)
    /\ CASE status = "accepted" -> o.status = "created"
         [] status \in {"partially_filled", "filled"} ->
                o.status \in {"accepted", "partially_filled"}
         [] status = "rejected" -> o.status \in {"created", "accepted"}
         [] status \in {"expired", "cancelled"} -> TRUE
         [] OTHER -> FALSE

CreateOrder(intent) ==
    [intent |-> intent, status |-> "created", filled |-> 0, fills |-> <<>>,
     events |-> <<"created">>]

MayAccept(o) == MayMove(o, "accepted")
Accept(o) == Moved(o, "accepted")

Reject(o) == Moved(o, "rejected")

Expire(o) == Moved(o, "expired")

MayCancel(o) == MayMove(o, "cancelled")
Cancel(o) == Moved(o, "cancelled")

\* The status and the event type of a fill follow from the cumulative quantity.
FillStatus(o, qty) ==
    IF o.filled + qty = o.intent.target THEN "filled" ELSE "partially_filled"

MayFill(o, qty) ==
    /\ MayMove(o, FillStatus(o, qty))
    /\ o.filled + qty <= o.intent.target

RecordFill(o, qty, price, day) ==
    [Moved(o, FillStatus(o, qty)) EXCEPT
        !.filled = @ + qty,
        !.fills = Append(@, [qty |-> qty, price |-> price, day |-> day])]

-----------------------------------------------------------------------------
\* AShareMarketSnapshot: the bar of one instrument on one day.  volume > 0
\* also on a suspended day.
MarketSnapshots ==
    [price : 1..MaxPrice, volume : Nat \ {0}, suspended : BOOLEAN,
     up : 1..MaxPrice, down : 1..MaxPrice]

ValidSnapshot(bar) == bar \in MarketSnapshots /\ bar.down <= bar.up

\* Mutant: what was bought today can be sold today.
AvailabilityAll(total, locked) ==
    [total |-> total, sellable |-> total, locked |-> locked]

\* ASharePositionAvailability: what the caller says can be sold today.
Availability(total, locked) ==
    [total |-> total, sellable |-> total - locked, locked |-> locked]

\* The rules in the order AShareExecutionModel.execute tries them.
Rules == <<"signal_available_before_execution", "trade_unit_lot_size",
           "market_tradable_status", "t_plus_one_sellable_quantity",
           "limit_up_down_executable",
           "order_limit_price_crosses_execution_price",
           "cost_model_participation">>

\* A limit-up bar has nobody to buy from, a limit-down bar nobody to sell to.
AtPriceLimit(o, bar) ==
    \/ o.intent.side = "buy" /\ bar.price >= bar.up
    \/ o.intent.side = "sell" /\ bar.price <= bar.down

LimitNotCrossed(o, bar) ==
    /\ o.intent.limit # NoLimit
    /\ \/ o.intent.side = "buy" /\ o.intent.limit < bar.price
       \/ o.intent.side = "sell" /\ o.intent.limit > bar.price

ParticipationExceeded(qty, bar) == qty * 100 > MaxParticipation * bar.volume

Blocks(rule, o, bar, avail) ==
    CASE rule = "signal_available_before_execution" ->
            o.intent.signal >= o.intent.trade
      [] rule = "trade_unit_lot_size" ->
            RemainingQuantity(o) % LotSize # 0
      [] rule = "market_tradable_status" -> bar.suspended
      [] rule = "t_plus_one_sellable_quantity" ->
            o.intent.side = "sell" /\ avail.sellable < RemainingQuantity(o)
      [] rule = "limit_up_down_executable" -> AtPriceLimit(o, bar)
      [] rule = "order_limit_price_crosses_execution_price" ->
            LimitNotCrossed(o, bar)
      [] rule = "cost_model_participation" ->
            ParticipationExceeded(RemainingQuantity(o), bar)

\* The audit trail of an execution ends with the rule that blocked it.
BlockingRules(o, bar, avail) ==
    {n \in DOMAIN Rules :
        /\ Blocks(Rules[n], o, bar, avail)
        /\ \A m \in 1..(n - 1) : ~Blocks(Rules[m], o, bar, avail)}

PolicyOf(rule) ==
    CASE rule \in {"signal_available_before_execution", "trade_unit_lot_size"} ->
            "reject_order"
      [] rule = "market_tradable_status" -> SuspendedPolicy
      [] OTHER -> UnfilledPolicy

EnsureAccepted(o) == IF o.status = "created" THEN Accept(o) ELSE o

\* _reject_order: what is left of a partially filled order can only expire.
RejectOrder(o) == IF o.status = "partially_filled" THEN Expire(o) ELSE Reject(o)

ApplyUnfilledPolicy(o, policy) ==
    CASE policy = "reject_order" -> RejectOrder(o)
      [] policy \in {"expire_after_rebalance", "expire_order"} ->
            Expire(EnsureAccepted(o))
      [] policy = "keep_open_until_cancelled" -> EnsureAccepted(o)

\* AShareExecutionModel.execute: the order it returns.  _validate_request lets
\* through open orders of the bar's own date only.
Executable(o, day) == o.status \in OpenStatuses /\ o.intent.trade = day

Execute(o, bar, avail, day) ==
    LET blocked == BlockingRules(o, bar, avail)
    IN  IF blocked = {}
        THEN RecordFill(EnsureAccepted(o), RemainingQuantity(o), bar.price, day)
        ELSE LET first == CHOOSE n \in blocked : TRUE
             IN  ApplyUnfilledPolicy(o, PolicyOf(Rules[first]))

-----------------------------------------------------------------------------
BpsAmount(basis, bps) == (basis * bps) \div 10000

Higher(a, b) == IF a >= b THEN a ELSE b

\* CostModel.calculate: commission has a floor, stamp tax is on sells only;
\* OtherBps stands for transfer fee, slippage and impact together.
TotalCost(side, gross) ==
    Higher(BpsAmount(gross, CommissionBps), MinCommission)
    + (IF side = "sell" THEN BpsAmount(gross, StampTaxBps) ELSE 0)
    + BpsAmount(gross, OtherBps)

\* It refuses a sale whose cost is more than its proceeds, and execute turns
\* that into an error of its own after the fill was recorded on a snapshot the
\* caller never gets: the order stays as it was.
CostRefused(side, gross) == side = "sell" /\ TotalCost(side, gross) > gross
=============================================================================
