----------------------------- MODULE MCSwingScan ----------------------------
(* Two candidates (a, b) beside a holding (z).  A pullback, a breakout at   *)
(* the high and one just off it, which share their fingerprint but not      *)
(* their priority, an oversold name and a near miss without volume.  The    *)
(* tight profile does not take another position; in a correlated market no  *)
(* candidate passes.                                                        *)
EXTENDS SwingScan

CONSTANTS a, b, z, s1, s2

MCSymbols == {a, b, z}
MCUniverse == {a, b}
MCRank == [x \in MCSymbols |-> IF x = a THEN 1 ELSE IF x = b THEN 2 ELSE 3]

Pullback ==
    [bars |-> 250, close |-> 1000, adv |-> 20000000, atr |-> 40, rsi |-> 48, macd |-> 5,
     sma20 |-> FALSE, sma50 |-> TRUE, sma200 |-> TRUE, rvol |-> 120, off |-> -60,
     support |-> 30, overhead |-> TRUE, news |-> 0]

BreakingOut ==
    [Pullback EXCEPT !.rsi = 62, !.macd = 20, !.sma20 = TRUE, !.rvol = 180, !.off = -10,
                     !.support = NotKnown, !.overhead = FALSE]

OffTheHigh == [BreakingOut EXCEPT !.off = -20]
Quiet      == [BreakingOut EXCEPT !.rvol = 140]
WashedOut  ==
    [Pullback EXCEPT !.rsi = 30, !.macd = -30, !.sma50 = FALSE, !.off = -180, !.support = 20,
                     !.news = 1]
NoVolume   == [BreakingOut EXCEPT !.off = -40, !.support = 30, !.rvol = 220]
Short      == [BreakingOut EXCEPT !.bars = 120]

Held == [Pullback EXCEPT !.close = 2000]

MCStart ==
    [shares |-> [x \in MCSymbols |-> IF x = z THEN 4 ELSE 0], cash |-> 42000, corr |-> 5000,
     stock |-> [x \in MCSymbols |-> IF x = a THEN Pullback
                                    ELSE IF x = b THEN OffTheHigh ELSE Held],
     priorClose |-> 50000]

MCHistories == {BreakingOut, NoVolume, WashedOut}

MCFacts == [x \in MCSymbols |-> [sector |-> "tech", cap |-> 5000]]
MCEvents ==
    [x \in MCSymbols |-> IF x = a THEN {[kind |-> "relative_strength", score |-> 60],
                                        [kind |-> "trend_alignment", score |-> 90]} ELSE {}]
MCEarnings == [x \in MCSymbols |-> NotKnown]

Bull   == [bars |-> 250, above |-> TRUE, pctile |-> 40, vix |-> 15, adx |-> 25]
Shock  == [Bull EXCEPT !.vix = 30]
MCTapes == {Bull, Shock}

Base ==
    [risk_per_trade_pct |-> 150, atr_stop_multiple |-> 2, min_reward_risk |-> 2,
     max_position_pct |-> 2000, max_open_positions |-> 3, max_daily_loss_pct |-> 200,
     max_drawdown_pct |-> 1000, max_sector_pct |-> 6000,
     max_correlated_exposure_pct |-> 2000, correlation_threshold |-> 7000,
     min_avg_dollar_volume |-> 5000, max_adv_participation_pct |-> 100,
     max_atr_pct |-> 800, earnings_blackout_days |-> 2,
     max_portfolio_exposure_pct |-> 9000]

Tight == [Base EXCEPT !.max_open_positions = 1]

MCProfiles == {Base, Tight}

MCLots == {-2, 3}
=============================================================================
