---------------------------- MODULE SignalEvaluation ----------------------------
(* What became of a piece of advice: the bars of the following days against  *)
(* what the advice expected of them (quant/signal_evaluation.py).  Prices    *)
(* are whole numbers, and a return is the difference of two prices, to be    *)
(* measured by the start price.                                              *)
EXTENDS MarketData, SequencesExt, FiniteSetsExt

CONSTANT NeutralBand    \* neutral_band_pct, its sign does not count

ASSUME BandAssumption == NeutralBand \in Nat

-----------------------------------------------------------------------------
(* Advice is a sequence of the words found in it, each with its intent and   *)
(* whether it is negated (_is_negated).                                      *)

\* _first_intent_position, None as the position after the last.
FirstIntent(advice, intent) ==
    LET found == {n \in DOMAIN advice :
                    advice[n].intent = intent /\ ~advice[n].negated}
    IN  CHOOSE n \in found \cup {Len(advice) + 1} : \A m \in found : n <= m

Matches(advice, intent) == FirstIntent(advice, intent) <= Len(advice)

\* Waiting counts when it is said before buying and holding.
WaitsFirst(advice) ==
    /\ Matches(advice, "wait")
    /\ FirstIntent(advice, "wait") < FirstIntent(advice, "buy")
    /\ FirstIntent(advice, "wait") < FirstIntent(advice, "hold")

DirectionExpected(advice) ==
    CASE Matches(advice, "sell") -> "down"
      [] ~Matches(advice, "sell") /\ WaitsFirst(advice) -> "flat"
      [] OTHER -> IF Matches(advice, "buy") THEN "up"
                  ELSE IF Matches(advice, "hold") THEN "not_down" ELSE "flat"

PositionRecommended(advice) ==
    IF Matches(advice, "sell") \/ WaitsFirst(advice) THEN "cash"
    ELSE IF Matches(advice, "buy") \/ Matches(advice, "hold") THEN "long" ELSE "cash"

-----------------------------------------------------------------------------
(* The window                                                              *)

\* Mutant: the window ends with the latest bar.
LatestBars(bars, days) == SubSeq(bars, Len(bars) - days + 1, Len(bars))

\* forward_bars[:eval_days]
WindowBars(bars, days) == SubSeq(bars, 1, days)

\* Returns, as the change of a price and the price it is a change of.
Return(from, to) == [change |-> to - from, of |-> from]

AtLeast(return, percent) == return.change * 100 >= percent * return.of

EndReturn(bars, start) ==
    LET close == bars[Len(bars)].close
    IN  IF close = Missing THEN {} ELSE {Return(start, close)}

\* _classify_outcome: the names of the outcomes, and what becomes of returns.
Outcome(return, direction) ==
    LET gained == AtLeast(return, NeutralBand)
        lost == AtLeast([return EXCEPT !.change = -@], NeutralBand)
    IN  CASE direction = "up" ->
               IF gained THEN "win" ELSE IF lost THEN "loss" ELSE "neutral"
          [] direction = "down" ->
               IF lost THEN "win" ELSE IF gained THEN "loss" ELSE "neutral"
          [] direction = "not_down" ->
               IF return.change >= 0 THEN "win" ELSE IF lost THEN "loss" ELSE "neutral"
          [] direction = "flat" ->
               IF /\ AtLeast(return, -NeutralBand)
                  /\ AtLeast([return EXCEPT !.change = -@], -NeutralBand)
               THEN "win" ELSE "loss"

\* _classify_signal_outcome: a direction that is not expected has no outcome.
SignalOutcome(return, direction) ==
    LET gained == AtLeast(return, NeutralBand)
        lost == AtLeast([return EXCEPT !.change = -@], NeutralBand)
    IN  CASE direction = "up" ->
               IF gained THEN "hit" ELSE IF lost THEN "miss" ELSE "neutral"
          [] direction = "not_down" ->
               IF return.change >= 0 THEN "hit" ELSE IF lost THEN "miss" ELSE "neutral"
          [] direction = "not_up" ->
               IF AtLeast([return EXCEPT !.change = -@], -NeutralBand) THEN "hit" ELSE "miss"
          [] OTHER -> "none"

IsCorrect(outcome) ==
    CASE outcome \in {"win", "hit"} -> {TRUE}
      [] outcome \in {"loss", "miss"} -> {FALSE}
      [] OTHER -> {}

-----------------------------------------------------------------------------
(* Targets of a long position; a stop or a profit target may be Missing      *)

HitsStop(bar, stop) == stop # Missing /\ bar.low # Missing /\ bar.low <= stop
HitsTake(bar, take) == take # Missing /\ bar.high # Missing /\ take <= bar.high

\* _evaluate_targets: what is reached first ends it, the stop if both are
\* reached in one bar, and at the price of the target.
Targets(position, stop, take, bars) ==
    LET hits == {n \in DOMAIN bars : HitsStop(bars[n], stop) \/ HitsTake(bars[n], take)}
        n == Min(hits)
        stops == HitsStop(bars[n], stop)
    IN  CASE position # "long" -> [first |-> "not_applicable", days |-> 0, exit |-> Missing]
          [] position = "long" /\ hits = {} ->
                [first |-> "neither", days |-> 0, exit |-> bars[Len(bars)].close]
          [] OTHER ->
                [first |-> IF ~stops THEN "take_profit"
                           ELSE IF HitsTake(bars[n], take) THEN "ambiguous"
                           ELSE "stop_loss",
                 days |-> n,
                 exit |-> IF stops THEN stop ELSE take]

-----------------------------------------------------------------------------
(* Evaluations                                                             *)

Unevaluated(advice, status) ==
    [advice |-> advice, status |-> status, position |-> PositionRecommended(advice),
     outcome |-> "none", returned |-> {}, simulated |-> {}, stop |-> {}, take |-> {},
     first |-> "none", days |-> 0]

\* evaluate_single.  hit_stop_loss and hit_take_profit are asked of a long
\* position that has such a target; returned and simulated may be None.
EvaluateSingle(signal, forward) ==
    LET bars == WindowBars(forward, signal.days)
        position == PositionRecommended(signal.advice)
        returned == EndReturn(bars, signal.start)
        targets == Targets(position, signal.stop, signal.take, bars)
        Asked(target, hit) ==
            IF position = "long" /\ target # Missing
            THEN {targets.first \in {hit, "ambiguous"}} ELSE {}
    IN  CASE signal.start <= 0 -> Unevaluated(signal.advice, "error")
          [] signal.start > 0 /\ Len(forward) < signal.days ->
                Unevaluated(signal.advice, "insufficient_data")
          [] OTHER ->
                [advice |-> signal.advice, status |-> "completed", position |-> position,
                 outcome |-> IF returned = {} THEN "none"
                             ELSE Outcome(CHOOSE r \in returned : TRUE,
                                          DirectionExpected(signal.advice)),
                 returned |-> returned,
                 simulated |-> CASE position # "long" -> {Return(signal.start, signal.start)}
                                 [] position = "long" /\ targets.exit = Missing -> {}
                                 [] OTHER -> {Return(signal.start, targets.exit)},
                 stop |-> Asked(signal.stop, "stop_loss"),
                 take |-> Asked(signal.take, "take_profit"),
                 first |-> targets.first, days |-> targets.days]

\* evaluate_decision_signal, of a direction that was decided for.
EvaluateDecision(direction, start, days, forward) ==
    LET bars == WindowBars(forward, days)
        Unable(reason) == [status |-> "unable", reason |-> reason, outcome |-> "none"]
    IN  CASE start <= 0 -> Unable("invalid_anchor_price")
          [] start > 0 /\ Len(forward) < days -> Unable("insufficient_forward_bars")
          [] OTHER ->
                IF EndReturn(bars, start) = {} THEN Unable("missing_end_close")
                ELSE [status |-> "completed", reason |-> "none",
                      outcome |-> SignalOutcome(CHOOSE r \in EndReturn(bars, start) : TRUE,
                                                direction)]

-----------------------------------------------------------------------------
(* compute_summary: counts, and rates as the pair they are the ratio of, or  *)
(* nothing, before it is rounded.  Rows are the positions of results that    *)
(* are counted.                                                              *)

CountIf(results, rows, P(_)) == Cardinality({n \in rows : P(results[n])})

Rate(part, whole) == IF whole = 0 THEN {} ELSE {<<part, whole>>}

Completed(results) == {n \in DOMAIN results : results[n].status = "completed"}

TriggerRate(results, rows, Hit(_), Applies(_)) ==
    Rate(CountIf(results, rows, LAMBDA r : Applies(r) /\ Hit(r)),
         CountIf(results, rows, Applies))

Advised(results, rows) == {results[n].advice : n \in rows}

\* _compute_advice_breakdown
AdviceBreakdown(results, rows) ==
    [advice \in Advised(results, rows) |->
        LET advised == {n \in rows : results[n].advice = advice}
            ended(o) == CountIf(results, advised, LAMBDA r : r.outcome = o)
        IN  [total |-> Cardinality(advised),
             win |-> ended("win"), loss |-> ended("loss"), neutral |-> ended("neutral"),
             winRate |-> Rate(ended("win"), ended("win") + ended("loss"))]]

\* _compute_diagnostics
Diagnostics(results) ==
    LET Count(P(_)) == CountIf(results, DOMAIN results, P)
    IN  [status |-> [s \in {results[n].status : n \in DOMAIN results} |->
                        Count(LAMBDA r : r.status = s)],
         first |-> [f \in {results[n].first : n \in DOMAIN results} |->
                        Count(LAMBDA r : r.first = f)]]

Summary(results) ==
    LET rows == Completed(results)
        Count(P(_)) == CountIf(results, rows, P)
        Triggered(Hit(_), Applies(_)) == TriggerRate(results, rows, Hit, Applies)
        ended(o) == Count(LAMBDA r : r.outcome = o)
        known == Count(LAMBDA r : IsCorrect(r.outcome) # {})
    IN  [total |-> Len(results), completed |-> Cardinality(rows),
         insufficient |-> CountIf(results, DOMAIN results,
                                  LAMBDA r : r.status = "insufficient_data"),
         long |-> Count(LAMBDA r : r.position = "long"),
         cash |-> Count(LAMBDA r : r.position = "cash"),
         win |-> ended("win"), loss |-> ended("loss"), neutral |-> ended("neutral"),
         accuracy |-> Rate(Count(LAMBDA r : IsCorrect(r.outcome) = {TRUE}), known),
         winRate |-> Rate(ended("win"), ended("win") + ended("loss")),
         neutralRate |-> Rate(ended("neutral"), Cardinality(rows)),
         stopRate |-> Triggered(LAMBDA r : r.stop = {TRUE}, LAMBDA r : r.stop # {}),
         takeRate |-> Triggered(LAMBDA r : r.take = {TRUE}, LAMBDA r : r.take # {}),
         ambiguousRate |-> Triggered(LAMBDA r : r.first = "ambiguous",
                                     LAMBDA r : r.stop \cup r.take # {}),
         advice |-> AdviceBreakdown(results, rows), diagnostics |-> Diagnostics(results)]
=============================================================================
