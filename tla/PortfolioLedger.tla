--------------------------- MODULE PortfolioLedger ---------------------------
(* quant/backtest/ledger.py and corporate_actions.py: an event-sourced book  *)
(* of cash, claims, debts and FIFO lots.  Each method of PortfolioLedger     *)
(* builds one event from the state it finds and hands it to _apply_event; so *)
(* here an ...Event operator builds the event, Applies says whether          *)
(* _apply_event takes it, and Apply is the ledger it returns.  Quantities    *)
(* and money are integers: \div stands for the rounding of Decimal.          *)
EXTENDS AShareExecution, SequencesExt

CONSTANT InitialCash

ASSUME LedgerConstants == InitialCash \in Nat \ {0}

-----------------------------------------------------------------------------

CorporateActionTypes ==
    {"cash_dividend", "bonus_share", "share_split", "rights_issue",
     "delisting_liquidation"}

NoInst == "none"

\* The fields of LedgerEvent that a property reads.  id is the event_id; ref
\* is the execution or the corporate action an event is about.
BlankEvent ==
    [id |-> 0, type |-> "valuation", action |-> "none", inst |-> NoInst,
     side |-> "none", qty |-> 0, shares |-> 0, gross |-> 0, cost |-> 0,
     cash |-> 0, receivable |-> 0, payable |-> 0, pnl |-> 0, ref |-> "none",
     day |-> 0, prices |-> <<>>]

EmptyLedger ==
    [events |-> <<>>, cash |-> 0, receivables |-> 0, payables |-> 0,
     lots |-> <<>>, executions |-> <<>>, actions |-> <<>>,
     prices |-> [i \in Instruments |-> 0]]

\* PositionLot: bought on a day for a cost that includes the fees.
Lot(inst, day, qty, cost) ==
    [inst |-> inst, day |-> day, qty |-> qty, cost |-> cost]

-----------------------------------------------------------------------------
\* The sums of the first 0, 1, ... numbers of a sequence, and of all of them.
PartialSums(seq) ==
    LET Upto[n \in 0..Len(seq)] == IF n = 0 THEN 0 ELSE Upto[n - 1] + seq[n]
    IN  Upto

SumOf(seq) == PartialSums(seq)[Len(seq)]

Total(seq, Op(_)) == SumOf([n \in DOMAIN seq |-> Op(seq[n])])

SharesOf(lot, inst) == IF lot.inst = inst THEN lot.qty ELSE 0

SharesIn(lots, inst) == Total(lots, LAMBDA lot : SharesOf(lot, inst))

PositionQuantity(l, inst) == SharesIn(l.lots, inst)

OpenInstruments(l) == {l.lots[n].inst : n \in DOMAIN l.lots}

BookCost(l) == Total(l.lots, LAMBDA lot : lot.cost)

\* position_market_value and equity, at the prices of the last valuation; both
\* raise when an open position has none.
Valued(l) == \A i \in OpenInstruments(l) : l.prices[i] # 0

Equity(l) ==
    l.cash + Total(l.lots, LAMBDA lot : lot.qty * l.prices[lot.inst])
    + l.receivables - l.payables

\* PositionLot.reduce: the cost goes with the shares, pro rata.
RemovedCost(lot, qty) == (lot.cost * qty) \div lot.qty

\* _reduce_lots looks at one lot after the other.  acc is what is left to
\* take, the cost that went with what was taken, and the lots that remain.
\* Mutant: what is left of a lot keeps the whole cost.
TakeKeepingCost(acc, lot, inst) ==
    LET n == IF lot.qty <= acc.left THEN lot.qty ELSE acc.left
    IN  IF lot.inst # inst \/ acc.left = 0
        THEN [acc EXCEPT !.lots = Append(@, lot)]
        ELSE [left |-> acc.left - n,
              removed |-> acc.removed + RemovedCost(lot, n),
              lots |-> IF n = lot.qty THEN acc.lots
                       ELSE Append(acc.lots, [lot EXCEPT !.qty = @ - n])]

Take(acc, lot, inst) ==
    LET n == IF lot.qty <= acc.left THEN lot.qty ELSE acc.left
        c == RemovedCost(lot, n)
    IN  IF lot.inst # inst \/ acc.left = 0
        THEN [acc EXCEPT !.lots = Append(@, lot)]
        ELSE [left |-> acc.left - n, removed |-> acc.removed + c,
              lots |-> IF n = lot.qty THEN acc.lots
                       ELSE Append(acc.lots, Lot(inst, lot.day, lot.qty - n, lot.cost - c))]

\* The oldest lots of the instrument first.  left # 0 at the end is the
\* "insufficient position" error.
ReduceLots(lots, inst, qty) ==
    LET After[n \in 0..Len(lots)] ==
          IF n = 0 THEN [left |-> qty, removed |-> 0, lots |-> <<>>]
          ELSE Take(After[n - 1], lots[n], inst)
    IN  After[Len(lots)]

\* _adjust_lots_pro_rata: every lot of the instrument changes in proportion and
\* the last one takes what is left, so the total is exact.
LastLotOf(lots, inst) ==
    CHOOSE n \in DOMAIN lots :
        /\ lots[n].inst = inst
        /\ \A m \in DOMAIN lots : lots[m].inst = inst => m <= n

AdjustedLots(lots, inst, delta) ==
    LET share(n) == (delta * lots[n].qty) \div SharesIn(lots, inst)
        others == {n \in DOMAIN lots :
                      lots[n].inst = inst /\ n # LastLotOf(lots, inst)}
        rest == delta - SumOf([n \in DOMAIN lots |->
                                  IF n \in others THEN share(n) ELSE 0])
    IN  [n \in DOMAIN lots |->
            IF lots[n].inst # inst THEN lots[n]
            ELSE [lots[n] EXCEPT !.qty =
                    @ + (IF n \in others THEN share(n) ELSE rest)]]

MayAdjust(lots, inst, delta) ==
    /\ delta # 0
    /\ \A n \in DOMAIN AdjustedLots(lots, inst, delta) :
          AdjustedLots(lots, inst, delta)[n].qty > 0

-----------------------------------------------------------------------------
\* LedgerEvent._validate_payload.
ValidPayload(e) ==
    CASE e.type = "initial_cash" ->
            e.cash > 0 /\ e.receivable = 0 /\ e.payable = 0
      [] e.type = "execution" ->
            IF e.side = "buy" THEN e.payable > 0 ELSE e.receivable > 0
      [] e.type = "cash_settled" ->
            e.cash # 0 /\ (e.receivable = 0) # (e.payable = 0)
      [] e.type = "valuation" -> e.prices # <<>>
      [] e.action = "cash_dividend" ->
            e.cash = 0 /\ e.receivable > 0 /\ e.shares = 0 /\ e.payable = 0
      [] e.action \in {"bonus_share", "share_split"} ->
            /\ e.cash = 0 /\ e.receivable = 0 /\ e.payable = 0
            /\ IF e.action = "bonus_share" THEN e.shares > 0 ELSE e.shares # 0
      [] e.action = "rights_issue" ->
            e.cash = 0 /\ e.shares > 0 /\ e.payable > 0
      [] e.action = "delisting_liquidation" ->
            e.cash = 0 /\ e.receivable > 0 /\ e.shares = -e.qty

\* The lots an event leaves, and whether it fits the ones that are there.
LotsAfter(l, e) ==
    CASE e.type = "execution" /\ e.side = "buy" ->
            Append(l.lots, Lot(e.inst, e.day, e.qty, e.gross + e.cost))
      [] e.type = "execution" /\ e.side = "sell" ->
            ReduceLots(l.lots, e.inst, e.qty).lots
      [] e.action \in {"bonus_share", "share_split"} ->
            AdjustedLots(l.lots, e.inst, e.shares)
      [] e.action = "rights_issue" ->
            Append(l.lots, Lot(e.inst, e.day, e.shares, e.payable))
      [] e.action = "delisting_liquidation" ->
            ReduceLots(l.lots, e.inst, e.qty).lots
      [] OTHER -> l.lots

FitsLots(l, e) ==
    LET sold == ReduceLots(l.lots, e.inst, e.qty)
    IN  /\ (e.type = "execution" /\ e.side = "sell") =>
              sold.left = 0 /\ e.pnl = e.gross - e.cost - sold.removed
        /\ e.action \in {"bonus_share", "share_split"} =>
              MayAdjust(l.lots, e.inst, e.shares)
        /\ e.action = "delisting_liquidation" =>
              sold.left = 0 /\ e.pnl = e.receivable - sold.removed

\* An event already there is not applied again; one with its id and another
\* payload is an error, and so is one that skips a number.
IsRepeated(l, e) == \E n \in DOMAIN l.events : l.events[n] = e

IdIsTaken(l, e) == \E n \in DOMAIN l.events : l.events[n].id = e.id

Applies(l, e) ==
    \/ IsRepeated(l, e)
    \/ /\ ~IdIsTaken(l, e)
       /\ e.id = Len(l.events) + 1
       /\ (l.events = <<>>) = (e.type = "initial_cash")
       /\ ValidPayload(e)
       /\ l.receivables + e.receivable >= 0
       /\ l.payables + e.payable >= 0
       /\ FitsLots(l, e)

Posted(l, e) ==
    [events |-> Append(l.events, e),
     cash |-> l.cash + e.cash,
     receivables |-> l.receivables + e.receivable,
     payables |-> l.payables + e.payable,
     lots |-> LotsAfter(l, e),
     executions |-> IF e.type = "execution" THEN Append(l.executions, e)
                    ELSE l.executions,
     actions |-> IF e.type = "corporate_action" THEN Append(l.actions, e)
                 ELSE l.actions,
     prices |-> IF e.type = "valuation"
                THEN [i \in Instruments |->
                        IF i \in DOMAIN e.prices THEN e.prices[i] ELSE 0]
                ELSE l.prices]

\* Mutant: a repeated event is posted again.
ApplyAlways(l, e) == Posted(l, e)

Apply(l, e) == IF IsRepeated(l, e) THEN l ELSE Posted(l, e)

\* PortfolioLedger.replay, on a stream it accepts.
Replay(stream) ==
    LET After[n \in 0..Len(stream)] ==
          IF n = 0 THEN EmptyLedger ELSE Apply(After[n - 1], stream[n])
    IN  After[Len(stream)]

NextId(l) == Len(l.events) + 1

-----------------------------------------------------------------------------
InitialCashEvent ==
    [BlankEvent EXCEPT !.id = 1, !.type = "initial_cash", !.cash = InitialCash]

OpenLedger == Apply(EmptyLedger, InitialCashEvent)

\* record_execution: a fill of the order becomes a debt and a lot, or a claim
\* and a profit computed on the lots as they are now.
ExecutionEvent(l, intent, fill, ref, cost) ==
    LET gross == fill.qty * fill.price
        removed == ReduceLots(l.lots, intent.inst, fill.qty).removed
        booked == [BlankEvent EXCEPT !.id = NextId(l), !.type = "execution",
                     !.inst = intent.inst, !.side = intent.side, !.ref = ref,
                     !.qty = fill.qty, !.gross = gross, !.cost = cost,
                     !.day = fill.day]
    IN  IF intent.side = "buy"
        THEN [booked EXCEPT !.payable = gross + cost]
        ELSE [booked EXCEPT !.receivable = gross - cost,
                            !.pnl = gross - cost - removed]

\* settle_payable and settle_receivable: any amount up to the whole balance,
\* whatever execution it is said to be for.
SettlePayableEvent(l, amount, ref) ==
    [BlankEvent EXCEPT !.id = NextId(l), !.type = "cash_settled",
        !.cash = -amount, !.payable = -amount, !.ref = ref]

SettleReceivableEvent(l, amount, ref) ==
    [BlankEvent EXCEPT !.id = NextId(l), !.type = "cash_settled",
        !.cash = amount, !.receivable = -amount, !.ref = ref]

\* A corporate action is on the position held now.
ActionEvent(l, kind, inst, ref, day) ==
    [BlankEvent EXCEPT !.id = NextId(l), !.type = "corporate_action",
        !.action = kind, !.inst = inst, !.ref = ref, !.day = day,
        !.qty = PositionQuantity(l, inst)]

CashDividendEvent(l, inst, ref, day, perShare) ==
    [ActionEvent(l, "cash_dividend", inst, ref, day) EXCEPT
        !.receivable = PositionQuantity(l, inst) * perShare]

BonusShareEvent(l, inst, ref, day, ratio) ==
    [ActionEvent(l, "bonus_share", inst, ref, day) EXCEPT
        !.shares = PositionQuantity(l, inst) * ratio]

\* numerator over denominator: 2/1 splits, 1/2 merges.
ShareSplitEvent(l, inst, ref, day, num, den) ==
    LET held == PositionQuantity(l, inst)
    IN  [ActionEvent(l, "share_split", inst, ref, day) EXCEPT
            !.shares = (held * num) \div den - held]

RightsIssueEvent(l, inst, ref, day, ratio, price) ==
    LET delta == PositionQuantity(l, inst) * ratio
    IN  [ActionEvent(l, "rights_issue", inst, ref, day) EXCEPT
            !.shares = delta, !.payable = delta * price]

DelistingEvent(l, inst, ref, day, price) ==
    LET held == PositionQuantity(l, inst)
    IN  [ActionEvent(l, "delisting_liquidation", inst, ref, day) EXCEPT
            !.shares = -held, !.receivable = held * price,
            !.pnl = held * price - ReduceLots(l.lots, inst, held).removed]

\* mark_to_market needs a price for every open position and takes more.
ValuationEvent(l, prices, day) ==
    [BlankEvent EXCEPT !.id = NextId(l), !.prices = prices, !.day = day]

=============================================================================
