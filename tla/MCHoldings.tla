------------------------------ MODULE MCHoldings ------------------------------
(* Holdings of two correlated instruments, around 10 a share, in an account *)
(* of 200: the size limit is 6 shares, and a trade risks 8.                 *)
EXTENDS Holdings

MCProfile ==
    [risk_per_trade_pct |-> 400, atr_stop_multiple |-> 1, min_reward_risk |-> 2,
     max_position_pct |-> 3000, max_open_positions |-> 2, max_daily_loss_pct |-> 200,
     max_drawdown_pct |-> 1000, max_sector_pct |-> 6000,
     max_correlated_exposure_pct |-> 4000, correlation_threshold |-> 7000,
     min_avg_dollar_volume |-> 5000, max_adv_participation_pct |-> 100,
     max_atr_pct |-> 5000, earnings_blackout_days |-> 2,
     max_portfolio_exposure_pct |-> 10000]

MCSector == [x \in Symbols |-> "tech"]
MCAdv    == [x \in Symbols |-> 10000]
MCCorr   == [x \in Symbols |-> [y \in Symbols |-> 8000]]
MCEarnings == [x \in Symbols |-> NotKnown]
MCMarks  == {7, 9, 11, 13, 17, 25}

MCCharts ==
    {NotKnown} \cup
    {[atr |-> 2, sma20 |-> above[1], sma50 |-> above[2], sma200 |-> above[3]] :
        above \in {<<TRUE, TRUE, TRUE>>, <<FALSE, TRUE, TRUE>>, <<TRUE, FALSE, FALSE>>,
                   <<FALSE, FALSE, NotKnown>>}}

MCOpening ==
    [shares |-> [x \in Symbols |-> 3], mark |-> [x \in Symbols |-> 10], cash |-> 140]
=============================================================================
