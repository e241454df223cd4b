----------------------------- MODULE RiskEngine -----------------------------
(***************************************************************************)
(* The deterministic risk engine (sentinel/risk/engine.py) and the position*)
(* sizing (sentinel/portfolio/sizing.py): pure functions of an order, a    *)
(* portfolio and a risk profile.  There is no override path: an order is   *)
(* approved exactly when it passes all eleven rules.                       *)
(*                                                                         *)
(* Money and shares are integers, percentages are basis points (Whole is   *)
(* 100%), and a rule compares cross products where the code compares       *)
(* quotients.  A value the code holds as None is NotKnown.                 *)
(*                                                                         *)
(*   portfolio: [equity, highWater, dayPnl : Int,                          *)
(*               shares, price, sector : functions on the symbols]         *)
(*   order:     [symbol, action, shares, price, sector, adv, atr (bp of    *)
(*               the price), earnings (trading days), corr: function from  *)
(*               held symbols to a correlation in bp]                      *)
(***************************************************************************)
EXTENDS Integers, FiniteSets, FiniteSetsExt

CONSTANTS Symbols,  \* the instruments
          NotKnown  \* a missing value (None, or an empty sector)

ASSUME SymbolsFinite == IsFiniteSet(Symbols)

Whole == 10000

Open(p)     == {x \in Symbols : p.shares[x] # 0}
Value(p, x) == p.shares[x] * p.price[x]
Total(p, X) == SumFunction([x \in X |-> Value(p, x)])

Notional(c) == c.shares * c.price

\* The amount stays within a limit in basis points of the equity.
Within(amount, limit, p) == p.equity > 0 /\ Whole * amount <= limit * p.equity

\* A symbol not in the portfolio has no position to sell from.
OrderSanity(c, p) ==
    c.action \in {"BUY", "SELL"} =>
        /\ c.shares > 0 /\ c.price > 0
        /\ c.action = "SELL" => c.symbol \in Open(p) /\ p.shares[c.symbol] >= c.shares

MaxPositionPct(c, p, r) ==
    Within(Value(p, c.symbol) + Notional(c), r.max_position_pct, p)

MaxOpenPositions(c, p, r) ==
    Cardinality(Open(p) \cup {c.symbol}) <= r.max_open_positions

\* The halts are strict: a loss at the limit already stops BUYs.
MaxDailyLoss(c, p, r) ==
    /\ p.equity > 0
    /\ p.dayPnl < 0 => Whole * (-p.dayPnl) < r.max_daily_loss_pct * p.equity

MaxDrawdown(c, p, r) ==
    /\ p.highWater > 0
    /\ Whole * (p.highWater - p.equity) < r.max_drawdown_pct * p.highWater

MaxSectorPct(c, p, r) ==
    LET peers == {x \in Open(p) : p.sector[x] = c.sector \/ x = c.symbol}
    IN  c.sector # NotKnown /\ Within(Total(p, peers) + Notional(c), r.max_sector_pct, p)

\* A held symbol without a correlation fails the rule; the candidate's own
\* position is not counted.
MaxCorrelatedExposure(c, p, r) ==
    LET others == Open(p) \ {c.symbol}
        moving == {x \in others : c.corr[x] > r.correlation_threshold}
    IN  /\ others \subseteq DOMAIN c.corr
        /\ Within(Total(p, moving) + Notional(c), r.max_correlated_exposure_pct, p)

Liquidity(c, p, r) ==
    /\ c.adv # NotKnown
    /\ c.adv >= r.min_avg_dollar_volume
    /\ IF c.adv > 0 THEN Whole * Notional(c) <= r.max_adv_participation_pct * c.adv
                    ELSE Whole <= r.max_adv_participation_pct

MaxAtrPct(c, p, r) == c.atr # NotKnown /\ c.atr <= r.max_atr_pct

EarningsBlackout(c, p, r) == c.earnings = NotKnown \/ c.earnings > r.earnings_blackout_days

\* Mutant of MaxPortfolioExposure: the order itself is not counted.
ExposureBeforeOrder(c, p, r) == Within(Total(p, Open(p)), r.max_portfolio_exposure_pct, p)

MaxPortfolioExposure(c, p, r) ==
    Within(Total(p, Open(p)) + Notional(c), r.max_portfolio_exposure_pct, p)

EntryRules(c, p, r) ==
    /\ MaxPositionPct(c, p, r)
    /\ MaxOpenPositions(c, p, r)
    /\ MaxDailyLoss(c, p, r)
    /\ MaxDrawdown(c, p, r)
    /\ MaxSectorPct(c, p, r)
    /\ MaxCorrelatedExposure(c, p, r)
    /\ Liquidity(c, p, r)
    /\ MaxAtrPct(c, p, r)
    /\ EarningsBlackout(c, p, r)
    /\ MaxPortfolioExposure(c, p, r)

\* Mutant of Approved: the entry rules stop a SELL, too.
ApprovedByAllRules(c, p, r) == OrderSanity(c, p) /\ EntryRules(c, p, r)

\* evaluate: every rule but order_sanity concerns BUYs only.
Approved(c, p, r) == OrderSanity(c, p) /\ (c.action = "BUY" => EntryRules(c, p, r))

-----------------------------------------------------------------------------
\* max_entry_price: the limit price, 0.15% above the reference entry.
MaxEntry(entry) == (entry * (Whole + 15)) \div Whole

StopDistance(atr, r) == r.atr_stop_multiple * atr

\* size_position: the shares of a position, 0 when there is no valid one.
SizePosition(equity, entry, atr, r) ==
    LET byRisk == (equity * r.risk_per_trade_pct) \div (Whole * StopDistance(atr, r))
        byCap  == (equity * r.max_position_pct) \div (Whole * entry)
    IN  IF equity > 0 /\ entry > 0 /\ atr > 0 /\ StopDistance(atr, r) < entry
        THEN Min({byRisk, byCap}) ELSE 0
=============================================================================
