--------------------------- MODULE PositionReview ---------------------------
(***************************************************************************)
(* The portfolio manager's verdict on one open position                    *)
(* (sentinel/portfolio/manager.py, review_position): a ladder of tests, of *)
(* which the first that holds decides.  Pure: the portfolio, the profile   *)
(* and the technical snapshot come in, an action and a change of shares    *)
(* come out.                                                               *)
(*                                                                         *)
(*   holding: [symbol, shares, cost, mark, sector, adv, corr as in the     *)
(*             risk engine; chart: the snapshot, or NotKnown;              *)
(*             calm: not a high-volatility regime; earnings]               *)
(*   chart:   [atr, sma20, sma50, sma200]: ATR-14 in price units, and      *)
(*            whether the close is above each average (or NotKnown)        *)
(***************************************************************************)
EXTENDS RiskEngine

Advice(action, delta) == [action |-> action, delta |-> delta]

Selling == {"EXIT", "REDUCE", "TAKE_PARTIAL_PROFITS"}

IsSell(advice) == advice.action \in Selling /\ advice.delta < 0

Worth(h)  == h.shares * h.mark
Gain(h)   == h.mark - h.cost
Risked(h, r) == StopDistance(h.chart.atr, r)

\* The weight is rounded to two decimals of a percent: to a basis point.
Weight(h, p) ==
    IF p.equity > 0 THEN (2 * Whole * Worth(h) + p.equity) \div (2 * p.equity) ELSE 0

Judgeable(h) == h.chart # NotKnown /\ h.chart.atr > 0 /\ h.cost > 0

\* r_multiple: the gain in units of the initial risk, rounded to hundredths.
RMultiple(h, r) == (200 * Gain(h) + Risked(h, r)) \div (2 * Risked(h, r))

StopBreached(h, r)  == RMultiple(h, r) <= -100
TrendBroken(h)      == h.chart.sma50 = FALSE /\ h.chart.sma200 = FALSE
TargetReached(h, r) == RMultiple(h, r) >= 100 * r.min_reward_risk
Onside(h, r)        == RMultiple(h, r) >= 100

ShouldExit(h, r) ==
    StopBreached(h, r) \/ TrendBroken(h) \/ (TargetReached(h, r) /\ h.chart.sma20 = FALSE)

Outgrown(h, p, r) == Weight(h, p) > r.max_position_pct /\ h.mark > 0

\* Mutant of Trim: one share short.
TrimOneShort(h, p, r) ==
    LET allowed == (p.equity * r.max_position_pct) \div (Whole * h.mark)
    IN  Min({h.shares, Max({1, h.shares - Max({0, allowed}) - 1})})

\* The trim that brings the position back under its size limit.
Trim(h, p, r) ==
    LET allowed == (p.equity * r.max_position_pct) \div (Whole * h.mark)
    IN  Min({h.shares, Max({1, h.shares - Max({0, allowed})})})

\* ADD_HEADROOM_FRACTION is 0.6.
RoomToAdd(h, p, r) ==
    /\ h.chart.sma20 = TRUE /\ h.chart.sma50 = TRUE /\ h.chart.sma200 = TRUE
    /\ h.calm
    /\ 10 * Weight(h, p) < 6 * r.max_position_pct
    /\ h.earnings = NotKnown \/ h.earnings > r.earnings_blackout_days
    /\ RMultiple(h, r) > 0

Addition(h, p, r) ==
    LET room == Max({0, p.equity * r.max_position_pct - Whole * Worth(h)})
                    \div (Whole * h.mark)
    IN  Min({SizePosition(p.equity, h.mark, h.chart.atr, r), room})

\* _evaluate_add: the risk engine's verdict on the addition.
AdditionOrder(h, add) ==
    [symbol |-> h.symbol, action |-> "BUY", shares |-> add, price |-> h.mark,
     sector |-> h.sector, adv |-> h.adv, atr |-> (Whole * h.chart.atr) \div h.mark,
     earnings |-> NotKnown, corr |-> h.corr]

CanAdd(h, p, r) ==
    /\ RoomToAdd(h, p, r)
    /\ Addition(h, p, r) > 0
    /\ Approved(AdditionOrder(h, Addition(h, p, r)), p, r)

\* Mutant of ReviewPosition: additions are judged before profits are taken.
ReviewAddsFirst(h, p, r) ==
    IF ~Judgeable(h)            THEN Advice("NO_ACTION", 0)
    ELSE IF ShouldExit(h, r)    THEN Advice("EXIT", -h.shares)
    ELSE IF Outgrown(h, p, r)   THEN Advice("REDUCE", -Trim(h, p, r))
    ELSE IF CanAdd(h, p, r)     THEN Advice("INCREASE", Addition(h, p, r))
    ELSE IF TargetReached(h, r) /\ h.shares >= 2
                                THEN Advice("TAKE_PARTIAL_PROFITS", -(h.shares \div 2))
    ELSE Advice("HOLD", 0)

ReviewPosition(h, p, r) ==
    IF ~Judgeable(h)            THEN Advice("NO_ACTION", 0)
    ELSE IF ShouldExit(h, r)    THEN Advice("EXIT", -h.shares)
    ELSE IF Outgrown(h, p, r)   THEN Advice("REDUCE", -Trim(h, p, r))
    ELSE IF TargetReached(h, r) /\ h.shares >= 2
                                THEN Advice("TAKE_PARTIAL_PROFITS", -(h.shares \div 2))
    ELSE IF Onside(h, r)        THEN Advice("TIGHTEN_STOP", 0)
    ELSE IF CanAdd(h, p, r)     THEN Advice("INCREASE", Addition(h, p, r))
    ELSE Advice("HOLD", 0)
=============================================================================
