----------------------------- MODULE Strategies -----------------------------
(***************************************************************************)
(* From a screened snapshot to a strategy: the rule-based technical        *)
(* verdict and the confidence-weighted aggregate of the analysts           *)
(* (sentinel/agents/analysts.py, strategies/base.py), the five strategies  *)
(* of the core book (strategies/catalog.py), the three setups of the swing *)
(* book (sentinel/swing/strategies.py), the choice among them              *)
(* (strategies/selector.py) and the conviction (pipeline/synthesizer.py).  *)
(*                                                                         *)
(* A fit is a function from the names of the strategies the regime admits  *)
(* to scores between 0 and 100 Points.  An aggregate is in hundredths of a *)
(* point, -100 Points to 100 Points.                                       *)
(***************************************************************************)
EXTENDS Screening

\* deterministic_technicals_verdict, in points.
TechnicalRead(s) ==
    LET Side(above, weight) == IF above = TRUE THEN weight ELSE IF above = FALSE THEN -weight ELSE 0
        rsi == IF s.rsi = NotKnown THEN 0
               ELSE IF s.rsi >= 70 THEN -15 ELSE IF s.rsi <= 30 \/ s.rsi > 50 THEN 10 ELSE -10
        macd == IF s.macd = NotKnown THEN 0 ELSE IF s.macd > 0 THEN 15 ELSE -15
    IN  Clamp(Side(s.sma20, 10) + Side(s.sma50, 15) + Side(s.sma200, 20) + rsi + macd
                  + (IF AtLeast(s.rvol, 150) THEN 10 ELSE 0), -100, 100)

\* The confidence of each analyst without the model, in percent.  Only the
\* technical analyst has a read of its own; the others read 0 where there is
\* data, and do not count where there is none.
TechnicalsConfidence(s)    == IF s.bars >= 200 THEN 50 ELSE 35
NewsConfidence(news)       == IF news THEN 15 ELSE 0
FundamentalsConfidence(f)  == IF f.cap # NotKnown THEN 20 ELSE 0
MacroConfidence(macro)     == IF macro THEN 20 ELSE 0

\* analyst_aggregate: the reads weighted by confidence.
Aggregate(s, f, news, macro) ==
    LET silent == NewsConfidence(news) + FundamentalsConfidence(f) + MacroConfidence(macro)
    IN  (Points * TechnicalRead(s) * TechnicalsConfidence(s))
            \div (TechnicalsConfidence(s) + silent)

Fit(score) == Clamp(score, 0, 100 * Points)

\* The analysts' contribution to a fit: a percentage of their aggregate on top
\* of a base, up to a cap; below zero a penalty.
Backing(aggregate, base, percent, cap, penalty) ==
    IF aggregate >= 0 THEN Min({cap * Points, base * Points + Share(percent, aggregate)})
    ELSE -penalty * Points

Uptrend(s)      == s.sma50 = TRUE /\ s.sma200 = TRUE
StrongVolume(s) == AtLeast(s.rvol, 150)
OpenSky(s)      == ~s.overhead /\ s.bars >= 60

-----------------------------------------------------------------------------
\* The core catalog.
CashBaseline == 30

MomentumSwing(s, aggregate) ==
    Fit(Share(35, Max({0, Trend(s)})) + Share(25, Max({0, Momentum(s)}))
        + Bonus(Between(s.rsi, 50, 70), 15) + Bonus(AtLeast(s.macd, 1), 10)
        + Backing(aggregate, 0, 40, 20, 0))

MeanReversion(s, aggregate) ==
    Fit(Bonus(AtMost(s.rsi, 35), 35) + Bonus(s.sma20 = FALSE /\ s.sma200 = TRUE, 30)
        + Bonus(AtMost(s.support, 30), 15) + Backing(aggregate, 5, 20, 15, 20))

Breakout(s, aggregate) ==
    Fit(Bonus(NearHigh(s), 35) + Bonus(OpenSky(s), 15) + Bonus(StrongVolume(s), 25)
        + Share(10, Max({0, Volume(s)})) + Backing(aggregate, 0, 30, 15, 0))

PositionHold(s, aggregate) ==
    Fit(Bonus(s.sma200 = TRUE, 25) + Bonus(aggregate > 10 * Points, 25))

\* Cash; only a candidate that passed its screen is ever given a strategy.
Cash(standAside) == Fit(CashBaseline * Points + Bonus(standAside, 30))

CoreFits(s, regime, aggregate) ==
    LET names == {"cash"}
            \cup (IF regime \in {"bull-trend", "range"}
                  THEN {"mean-reversion", "breakout", "position-hold"} ELSE {})
            \cup (IF regime = "bull-trend" THEN {"momentum-swing"} ELSE {})
    IN  [name \in names |->
            CASE name = "momentum-swing" -> MomentumSwing(s, aggregate)
              [] name = "mean-reversion" -> MeanReversion(s, aggregate)
              [] name = "breakout"       -> Breakout(s, aggregate)
              [] name = "position-hold"  -> PositionHold(s, aggregate)
              [] name = "cash"           -> Cash(regime = "high-volatility")]

-----------------------------------------------------------------------------
\* The swing setups: without its defining condition a fit is capped at 25,
\* which is five points, the margin of a tie, below cash.
Capped(isSetup, score) == Fit(IF isSetup THEN score ELSE Min({score, 25 * Points}))

PulledBack(s) == Between(s.rsi, 40, 55) \/ (s.sma20 = FALSE /\ s.sma50 = TRUE)

IsPullback(s) == Uptrend(s) /\ PulledBack(s)
IsBreakout(s) == NearHigh(s) /\ StrongVolume(s)
IsOversold(s) == AtMost(s.rsi, 35) /\ s.sma200 = TRUE

SwingPullback(s, aggregate) ==
    Capped(IsPullback(s),
           Bonus(Uptrend(s), 30) + Bonus(Between(s.rsi, 40, 55), 20)
           + Bonus(s.sma20 = FALSE /\ s.sma50 = TRUE, 15) + Bonus(AtMost(s.support, 40), 15)
           + Backing(aggregate, 5, 15, 20, 15))

\* Mutant of SwingBreakout: volume alone makes a breakout.
SwingBreakoutOnVolume(s, aggregate) ==
    Capped(StrongVolume(s),
           Bonus(NearHigh(s), 35) + Bonus(OpenSky(s), 10) + Bonus(StrongVolume(s), 25)
           + Bonus(s.sma50 = TRUE, 10) + Backing(aggregate, 0, 25, 15, 0))

SwingBreakout(s, aggregate) ==
    Capped(IsBreakout(s),
           Bonus(NearHigh(s), 35) + Bonus(OpenSky(s), 10) + Bonus(StrongVolume(s), 25)
           + Bonus(s.sma50 = TRUE, 10) + Backing(aggregate, 0, 25, 15, 0))

SwingOversold(s, aggregate) ==
    Capped(IsOversold(s),
           (IF AtMost(s.rsi, 30) THEN 40 * Points ELSE Bonus(AtMost(s.rsi, 35), 25))
           + Bonus(s.sma200 = TRUE, 25) + Bonus(AtMost(s.support, 30), 15)
           + Backing(aggregate, 5, 10, 10, 20))

SwingRegimes == {"bull-trend", "range"}

SwingFits(s, regime, aggregate) ==
    [name \in {"swing-cash"}
          \cup (IF regime \in SwingRegimes
                THEN {"swing-pullback", "swing-breakout", "swing-oversold"} ELSE {}) |->
        CASE name = "swing-pullback" -> SwingPullback(s, aggregate)
          [] name = "swing-breakout" -> SwingBreakout(s, aggregate)
          [] name = "swing-oversold" -> SwingOversold(s, aggregate)
          [] name = "swing-cash"     -> Cash(regime \notin SwingRegimes)]

-----------------------------------------------------------------------------
\* The action of a strategy; none ever selects SELL.
StrategyAction(name) ==
    CASE name \in {"cash", "swing-cash"} -> "NO_TRADE"
      [] name = "position-hold"          -> "HOLD"
      [] OTHER                           -> "BUY"

\* Both _TIE_PRIORITY lists: stand aside first, then the less aggressive.
TiePriority ==
    <<"cash", "position-hold", "mean-reversion", "momentum-swing", "breakout",
      "swing-cash", "swing-oversold", "swing-pullback", "swing-breakout">>

TieMargin == 5

\* The strategies within the margin of the best, which is strict.
Tied(fits) ==
    {name \in DOMAIN fits : \A other \in DOMAIN fits : fits[other] - fits[name] < TieMargin * Points}

\* select_strategy and select_swing_strategy without a vote of the model.
Select(fits) ==
    TiePriority[Min({i \in DOMAIN TiePriority : TiePriority[i] \in Tied(fits)})]

-----------------------------------------------------------------------------
\* compute_conviction: agreement times fit, in bp.
Conviction(aggregate, fit) == ((aggregate + 100 * Points) * fit) \div (2 * Whole)
=============================================================================
