----------------------------- MODULE MCPipeline -----------------------------
(* A portfolio of 50,000 with one holding (h) and one other candidate (n),  *)
(* at 2,000 and 1,000 a share.  In the base profile the risk bounds the     *)
(* size of a trade, and two trades fit the exposure one by one only; one    *)
(* edit keeps the holding from growing, the other lets the position limit   *)
(* bound the size.  The holding may be in an uptrend (a BUY and, with a     *)
(* gain, an addition), broken down (an EXIT), or too young to be screened;  *)
(* the other name in an uptrend, oversold or without a snapshot.  An ingest *)
(* may lower the holding's mark, which halts BUYs for the day's loss, and   *)
(* bring the correlation of the two over the threshold.                     *)
EXTENDS Pipeline

CONSTANTS h, n, e1, e2

MCSymbols == {h, n}
MCRank == [x \in MCSymbols |-> IF x = h THEN 1 ELSE 2]

Base ==
    [risk_per_trade_pct |-> 150, atr_stop_multiple |-> 2, min_reward_risk |-> 2,
     max_position_pct |-> 4000, max_open_positions |-> 2, max_daily_loss_pct |-> 200,
     max_drawdown_pct |-> 1000, max_sector_pct |-> 6000,
     max_correlated_exposure_pct |-> 5000, correlation_threshold |-> 7000,
     min_avg_dollar_volume |-> 5000, max_adv_participation_pct |-> 100,
     max_atr_pct |-> 800, earnings_blackout_days |-> 2,
     max_portfolio_exposure_pct |-> 4000]

MCEdits ==
    {[max_position_pct |-> 1500, max_daily_loss_pct |-> 80, earnings_blackout_days |-> 5],
     [risk_per_trade_pct |-> 400, max_position_pct |-> 2000]}

MCPrice    == [x \in MCSymbols |-> IF x = h THEN 2000 ELSE 1000]
MCCost     == [x \in MCSymbols |-> 1800]
MCFacts    == [x \in MCSymbols |-> [sector |-> "tech", cap |-> 5000]]
MCAdv      == [x \in MCSymbols |-> 10000000]
MCMarket(mark, corr) ==
    [mark |-> [MCPrice EXCEPT ![h] = mark], sector |-> [x \in MCSymbols |-> "tech"],
     corr |-> [x \in MCSymbols |-> [y \in MCSymbols |-> IF x = y THEN 10000 ELSE corr]]]
MCMarkets  == {MCMarket(2000, 5000), MCMarket(1800, 8000)}
MCEvents   == [x \in MCSymbols |-> {}]

Rising ==
    [bars |-> 250, close |-> 0, adv |-> 0, atr |-> 80, rsi |-> 60, macd |-> 20,
     sma20 |-> TRUE, sma50 |-> TRUE, sma200 |-> TRUE, rvol |-> 160, off |-> -10,
     support |-> 20, overhead |-> FALSE, news |-> 0]

Broken == [Rising EXCEPT !.atr = 60, !.rsi = 40, !.macd = -20, !.sma20 = FALSE, !.sma50 = FALSE,
                           !.sma200 = FALSE, !.rvol = 90, !.off = -250]

Oversold == [Broken EXCEPT !.rsi = 28, !.sma200 = TRUE, !.support = 10]

New   == [Rising EXCEPT !.bars = 10]
Young == [Broken EXCEPT !.bars = 120]

MCCharts ==
    [x \in MCSymbols |-> IF x = h THEN {Rising, Broken, Young} ELSE {Rising, Oversold, New}]

Bull  == [bars |-> 250, above |-> TRUE, pctile |-> 40, vix |-> 15, adx |-> 25]
Shock == [Bull EXCEPT !.vix = 30]
MCTapes == {Bull, Shock}

MCStart == [shares |-> [x \in MCSymbols |-> IF x = h THEN 4 ELSE 0], cash |-> 42000]

\* The holding reports within the blackout of the first edit.
MCEarnings == [x \in MCSymbols |-> IF x = h THEN 4 ELSE NotKnown]

MCAggregates == {-6000, 1000, 7000}

MCLots == {-2, 3}
=============================================================================
