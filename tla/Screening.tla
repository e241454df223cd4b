------------------------------ MODULE Screening ------------------------------
(***************************************************************************)
(* What the deterministic front of both pipelines makes of a market: which *)
(* indicators a price history yields (sentinel/agents/technicals.py), the  *)
(* regime (regime.py), the quality screen and its factor scores            *)
(* (screener.py), the swing screen and its ranking (sentinel/swing/        *)
(* screen.py).  Pure operators; the values of the indicators are data.     *)
(*                                                                         *)
(*   history: [bars, close, adv : Nat, atr : Nat (price units), rsi: 0..100*)
(*             macd: the histogram in bp of the close, sma20, sma50, sma200*)
(*             whether the close is above each average, rvol: the relative *)
(*             volume in percent, off: the distance from the 52-week high  *)
(*             in tenths of a percent (<= 0), support: the distance of the *)
(*             close above its swing support in tenths of a percent, or    *)
(*             NotKnown, overhead: whether there is a swing resistance]    *)
(*   facts:   [sector, cap (millions)], each possibly NotKnown             *)
(*   tape:    [bars, above, pctile, vix, adx] of the benchmark             *)
(*                                                                         *)
(* Scores are in hundredths of a point: Points is one point.               *)
(***************************************************************************)
EXTENDS RiskEngine

Points == 100

Clamp(v, low, high) == Max({low, Min({high, v})})

Bonus(condition, points) == IF condition THEN points * Points ELSE 0

\* A percentage of a score.
Share(percent, score) == (percent * score) \div 100

-----------------------------------------------------------------------------
\* compute_technicals: an indicator is known once the history is long enough.
Technicals(history) ==
    LET Since(bars, v) == IF history.bars >= bars THEN v ELSE NotKnown
    IN  IF history.bars < 15 THEN NotKnown
        ELSE [history EXCEPT !.macd = Since(35, @),
                             !.sma20 = Since(20, @), !.sma50 = Since(50, @),
                             !.sma200 = Since(200, @),
                             !.rvol = Since(20, @), !.adv = Since(20, @)]

Between(v, low, high) == v # NotKnown /\ low <= v /\ v <= high

AtMost(v, high) == v # NotKnown /\ v <= high

AtLeast(v, low) == v # NotKnown /\ v >= low

-----------------------------------------------------------------------------
\* classify_regime: VIX_HIGH, VOL_PCTILE_HIGH and ADX_TRENDING are 28, 85, 20;
\* the percentile takes 60 values of a 20-day volatility.
HighVolatility(tape) ==
    \/ AtLeast(tape.vix, 28)
    \/ tape.bars >= 80 /\ AtLeast(tape.pctile, 85)

Trending(tape, above) == tape.bars >= 200 /\ tape.above = above /\ AtLeast(tape.adx, 20)

Regime(tape) ==
    IF tape.bars < 60              THEN "range"
    ELSE IF HighVolatility(tape)   THEN "high-volatility"
    ELSE IF Trending(tape, TRUE)   THEN "bull-trend"
    ELSE IF Trending(tape, FALSE)  THEN "bear-trend"
    ELSE "range"

-----------------------------------------------------------------------------
\* The factor scores of screen.
Momentum(s) ==
    LET rsi  == IF s.rsi = NotKnown THEN 0 ELSE 120 * (s.rsi - 50)
        macd == IF s.macd = NotKnown THEN 0 ELSE Clamp(40 * s.macd, -40 * Points, 40 * Points)
    IN  Clamp(rsi + macd, -100 * Points, 100 * Points)

Trend(s) ==
    LET averages == <<s.sma20, s.sma50, s.sma200>>
        Count(answer) == Cardinality({i \in 1 .. 3 : averages[i] = answer})
    IN  Clamp(3340 * (Count(TRUE) - Count(FALSE)), -100 * Points, 100 * Points)

Volume(s) ==
    IF s.rvol = NotKnown THEN 0
    ELSE Clamp(Points * (s.rvol - 100), -100 * Points, 100 * Points)

\* ScreenerParams; the filters no caller sets are left out.
CoreScreen ==
    [bars |-> 200, price |-> 5, adv |-> 5000000, cap |-> 2000, atr |-> NotKnown]

\* screen: eligible is the absence of reasons to exclude.
PassesScreen(s, f, p) ==
    /\ s # NotKnown /\ s.bars >= p.bars
    /\ s.close >= p.price
    /\ AtLeast(s.adv, p.adv)
    /\ f.sector # NotKnown
    /\ AtLeast(f.cap, p.cap)
    /\ p.atr = NotKnown \/ Whole * s.atr <= p.atr * s.close

-----------------------------------------------------------------------------
\* SwingScreenParams: dearer liquidity, and the movement between 2% and 8%.
SwingScreen == [CoreScreen EXCEPT !.adv = 20000000, !.atr = 800]

MovementFloor == 200

NearHigh(s) == s.off >= -30

CleanStructure(s) == s.support # NotKnown \/ NearHigh(s)

PassesSwingScreen(s, f) ==
    /\ PassesScreen(s, f, SwingScreen)
    /\ Whole * s.atr >= MovementFloor * s.close
    /\ CleanStructure(s)

\* _prescore ranks for the cap only.
Prescore(s) ==
    Trend(s) + Share(50, Max({0, Momentum(s)})) + Share(50, Volume(s))
        + Bonus(s.off >= -50, 20) + Bonus(AtMost(s.rsi, 35), 20)
=============================================================================
