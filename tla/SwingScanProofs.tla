--------------------------- MODULE SwingScanProofs ---------------------------
(***************************************************************************)
(* Proofs about the swing book, for any universe, market, mode and number  *)
(* of overlapping scans: only what has its setup is bought                 *)
(* (BuysHaveTheirSetup), the gate repeats the prefilter (GateAgrees), and  *)
(* a review is paid for again only after a race (PaidOnce).                *)
(*                                                                         *)
(* The first part is about the scores: a strategy without its setup is     *)
(* capped so far below cash that it cannot be tied with it.  The second    *)
(* keeps a condition on what each scan knows, the third one on who has     *)
(* written, missed and paid for which review.                              *)
(***************************************************************************)
EXTENDS SwingScan, TLAPS

(* The bounds of two numbers. *)
LEMMA MinMaxOfTwo ==
    ASSUME NEW a \in Int, NEW b \in Int
    PROVE  /\ Min({a, b}) = IF a <= b THEN a ELSE b
           /\ Max({a, b}) = IF a >= b THEN a ELSE b
<1>1. Min({a, b}) = IF a <= b THEN a ELSE b
  <2> DEFINE m == IF a <= b THEN a ELSE b
  <2>1. m \in {a, b} /\ \A y \in {a, b} : m <= y
    OBVIOUS
  <2>2. \A x \in {a, b} : (\A y \in {a, b} : x <= y) => x = m
    OBVIOUS
  <2> QED BY <2>1, <2>2 DEF Min
<1>2. Max({a, b}) = IF a >= b THEN a ELSE b
  <2> DEFINE m == IF a >= b THEN a ELSE b
  <2>1. m \in {a, b} /\ \A y \in {a, b} : m >= y
    OBVIOUS
  <2>2. \A x \in {a, b} : (\A y \in {a, b} : x >= y) => x = m
    OBVIOUS
  <2> QED BY <2>1, <2>2 DEF Max
<1> QED BY <1>1, <1>2

(* A clamped score. *)
LEMMA ClampBounds ==
    ASSUME NEW v \in Int, NEW low \in Int, NEW high \in Int, low <= high
    PROVE  Clamp(v, low, high) = IF v < low THEN low ELSE IF v > high THEN high ELSE v
<1>1. Min({high, v}) \in Int /\ Min({high, v}) = IF high <= v THEN high ELSE v
  BY MinMaxOfTwo
<1> HIDE DEF Min
<1>2. Max({low, Min({high, v})}) = IF low >= Min({high, v}) THEN low ELSE Min({high, v})
  BY <1>1, MinMaxOfTwo
<1> QED BY <1>1, <1>2 DEF Clamp

(* The aggregate of the analysts is a number, whatever is known. *)
LEMMA AggregateIsNumber ==
    ASSUME NEW s, NEW f, NEW news, NEW macro
    PROVE  Aggregate(s, f, news, macro) \in Int
<1>1. TechnicalRead(s) \in Int
  <2> DEFINE Side(above, weight) == IF above = TRUE THEN weight ELSE IF above = FALSE THEN -weight ELSE 0
             rsi == IF s.rsi = NotKnown THEN 0
                    ELSE IF s.rsi >= 70 THEN -15 ELSE IF s.rsi <= 30 \/ s.rsi > 50 THEN 10 ELSE -10
             macd == IF s.macd = NotKnown THEN 0 ELSE IF s.macd > 0 THEN 15 ELSE -15
             sum == Side(s.sma20, 10) + Side(s.sma50, 15) + Side(s.sma200, 20) + rsi + macd
                        + (IF AtLeast(s.rvol, 150) THEN 10 ELSE 0)
  <2>1. \A above, weight \in Int : Side(above, weight) \in Int
    OBVIOUS
  <2>2. Side(s.sma20, 10) \in Int /\ Side(s.sma50, 15) \in Int /\ Side(s.sma200, 20) \in Int
    OBVIOUS
  <2>3. rsi \in Int /\ macd \in Int /\ (IF AtLeast(s.rvol, 150) THEN 10 ELSE 0) \in Int
    OBVIOUS
  <2> HIDE DEF Side, rsi, macd
  <2>4. sum \in Int
    BY <2>2, <2>3
  <2> HIDE DEF sum
  <2>5. Clamp(sum, -100, 100) \in Int
    BY <2>4, ClampBounds
  <2> QED BY <2>5 DEF TechnicalRead, sum, Side, rsi, macd
<1>2. TechnicalsConfidence(s) \in Nat \ {0}
  BY DEF TechnicalsConfidence
<1>3. NewsConfidence(news) + FundamentalsConfidence(f) + MacroConfidence(macro) \in Nat
  BY DEF NewsConfidence, FundamentalsConfidence, MacroConfidence
<1> QED BY <1>1, <1>2, <1>3 DEF Aggregate, Points

(* The analysts' contribution is a number. *)
LEMMA BackingIsNumber ==
    ASSUME NEW aggregate \in Int, NEW base \in Int, NEW percent \in Int, NEW cap \in Int,
           NEW penalty \in Int
    PROVE  Backing(aggregate, base, percent, cap, penalty) \in Int
<1>1. cap * Points \in Int /\ base * Points + Share(percent, aggregate) \in Int
  BY DEF Points, Share
<1>2. Min({cap * Points, base * Points + Share(percent, aggregate)}) \in Int
  BY <1>1, MinMaxOfTwo
<1> QED BY <1>1, <1>2 DEF Backing, Points

\* Scores, and those of a strategy without its setup.
ScoreSet  == 0 .. 100 * Points
LowScores == 0 .. 25 * Points

(* A fit is a score; one without its setup is at most 25 points.           *)
LEMMA CappedScore ==
    ASSUME NEW isSetup \in BOOLEAN, NEW score \in Int
    PROVE  /\ Capped(isSetup, score) \in ScoreSet
           /\ ~isSetup => Capped(isSetup, score) \in LowScores
<1> DEFINE Cut(v) == IF v < 0 THEN 0 ELSE IF v > 100 * Points THEN 100 * Points ELSE v
           Least(v) == IF v <= 25 * Points THEN v ELSE 25 * Points
<1>1. 0 \in Int /\ 100 * Points \in Int /\ 25 * Points \in Int /\ 0 <= 100 * Points
  BY DEF Points
<1>2. \A v \in Int : Cut(v) \in ScoreSet /\ Least(v) \in Int /\ Cut(Least(v)) \in LowScores
  <2> TAKE v \in Int
  <2>1. Cut(v) \in ScoreSet
    BY DEF ScoreSet, Points
  <2>2. Least(v) \in Int
    BY DEF Points
  <2>3. Cut(Least(v)) \in LowScores
    BY DEF LowScores, Points
  <2> QED BY <2>1, <2>2, <2>3
<1>3. \A v \in Int : Fit(v) = Cut(v)
  BY <1>1, ClampBounds DEF Fit
<1>4. Min({score, 25 * Points}) = Least(score)
  BY <1>1, MinMaxOfTwo
<1> HIDE DEF Cut, Least
<1>5. CASE isSetup = TRUE
  <2>1. Capped(isSetup, score) = Cut(score)
    BY <1>3, <1>5 DEF Capped
  <2> QED BY <1>2, <1>5, <2>1, Zenon
<1>6. CASE isSetup = FALSE
  <2>1. Capped(isSetup, score) = Fit(Least(score))
    BY <1>4, <1>6, Zenon DEF Capped
  <2>2. Least(score) \in Int /\ Cut(Least(score)) \in LowScores /\ Cut(Least(score)) \in ScoreSet
    BY <1>2, Zenon
  <2> QED BY <1>3, <2>1, <2>2, Zenon
<1> QED BY <1>5, <1>6

Setups == {"swing-pullback", "swing-breakout", "swing-oversold"}

\* The condition that defines a setup.
HasSetup(name, s) ==
    CASE name = "swing-pullback" -> IsPullback(s)
      [] name = "swing-breakout" -> IsBreakout(s)
      [] OTHER                   -> IsOversold(s)

(* The fits of the swing book: cash is at 30 points when setups compete    *)
(* with it, and a setup that is absent is five points below.               *)
LEMMA SwingScores ==
    ASSUME NEW s, NEW regime, NEW aggregate \in Int
    PROVE  LET fits == SwingFits(s, regime, aggregate) IN
           /\ regime \in SwingRegimes =>
                 /\ DOMAIN fits = {"swing-cash"} \cup Setups
                 /\ fits["swing-cash"] = 30 * Points
                 /\ \A name \in Setups : /\ fits[name] \in ScoreSet
                                         /\ ~HasSetup(name, s) => fits[name] \in LowScores
           /\ regime \notin SwingRegimes =>
                 DOMAIN fits = {"swing-cash"} /\ fits["swing-cash"] = 60 * Points
<1> DEFINE fits == SwingFits(s, regime, aggregate)
<1>0. {0, 5, 10, 15, 20, 25, 30, 35, 40} \subseteq Int
  OBVIOUS
<1>1. ASSUME NEW ok \in BOOLEAN, NEW n \in Int
      PROVE  Bonus(ok, n) \in Int
  <2>1. n * Points \in Int
    BY DEF Points
  <2> QED BY <1>0, <2>1, Zenon DEF Bonus
<1>2. ASSUME NEW standAside \in BOOLEAN
      PROVE  Cash(standAside) = IF standAside THEN 60 * Points ELSE 30 * Points
  BY ClampBounds DEF Cash, Fit, Bonus, Points, CashBaseline
<1>3. ASSUME NEW base \in Int, NEW percent \in Int, NEW cap \in Int, NEW penalty \in Int
      PROVE  Backing(aggregate, base, percent, cap, penalty) \in Int
  BY BackingIsNumber
<1>4. /\ SwingPullback(s, aggregate) \in ScoreSet
      /\ ~IsPullback(s) => SwingPullback(s, aggregate) \in LowScores
  <2> DEFINE a == Bonus(Uptrend(s), 30)
             b == Bonus(Between(s.rsi, 40, 55), 20)
             c == Bonus(s.sma20 = FALSE /\ s.sma50 = TRUE, 15)
             d == Bonus(AtMost(s.support, 40), 15)
             e == Backing(aggregate, 5, 15, 20, 15)
  <2>1. a \in Int /\ b \in Int /\ c \in Int /\ d \in Int /\ e \in Int
    <3>1. /\ Uptrend(s) \in BOOLEAN /\ Between(s.rsi, 40, 55) \in BOOLEAN
          /\ (s.sma20 = FALSE /\ s.sma50 = TRUE) \in BOOLEAN /\ AtMost(s.support, 40) \in BOOLEAN
      BY DEF Uptrend, Between, AtMost
    <3> QED BY <1>0, <1>1, <1>3, <3>1, Zenon
  <2>2. IsPullback(s) \in BOOLEAN
    BY DEF IsPullback
  <2>3. SwingPullback(s, aggregate) = Capped(IsPullback(s), a + b + c + d + e)
    BY DEF SwingPullback
  <2> HIDE DEF a, b, c, d, e
  <2>4. a + b + c + d + e \in Int
    BY <2>1
  <2> QED BY <2>2, <2>3, <2>4, CappedScore
<1>5. /\ SwingBreakout(s, aggregate) \in ScoreSet
      /\ ~IsBreakout(s) => SwingBreakout(s, aggregate) \in LowScores
  <2> DEFINE a == Bonus(NearHigh(s), 35)
             b == Bonus(OpenSky(s), 10)
             c == Bonus(StrongVolume(s), 25)
             d == Bonus(s.sma50 = TRUE, 10)
             e == Backing(aggregate, 0, 25, 15, 0)
  <2>1. a \in Int /\ b \in Int /\ c \in Int /\ d \in Int /\ e \in Int
    <3>1. /\ NearHigh(s) \in BOOLEAN /\ OpenSky(s) \in BOOLEAN
          /\ StrongVolume(s) \in BOOLEAN /\ (s.sma50 = TRUE) \in BOOLEAN
      BY DEF NearHigh, OpenSky, StrongVolume, AtLeast
    <3> QED BY <1>0, <1>1, <1>3, <3>1, Zenon
  <2>2. IsBreakout(s) \in BOOLEAN
    BY DEF IsBreakout
  <2>3. SwingBreakout(s, aggregate) = Capped(IsBreakout(s), a + b + c + d + e)
    BY DEF SwingBreakout
  <2> HIDE DEF a, b, c, d, e
  <2>4. a + b + c + d + e \in Int
    BY <2>1
  <2> QED BY <2>2, <2>3, <2>4, CappedScore
<1>6. /\ SwingOversold(s, aggregate) \in ScoreSet
      /\ ~IsOversold(s) => SwingOversold(s, aggregate) \in LowScores
  <2> DEFINE a == IF AtMost(s.rsi, 30) THEN 40 * Points ELSE Bonus(AtMost(s.rsi, 35), 25)
             b == Bonus(s.sma200 = TRUE, 25)
             c == Bonus(AtMost(s.support, 30), 15)
             d == Backing(aggregate, 5, 10, 10, 20)
  <2>1. a \in Int /\ b \in Int /\ c \in Int /\ d \in Int
    <3>1. /\ AtMost(s.rsi, 30) \in BOOLEAN /\ AtMost(s.rsi, 35) \in BOOLEAN
          /\ (s.sma200 = TRUE) \in BOOLEAN /\ AtMost(s.support, 30) \in BOOLEAN
      BY DEF AtMost
    <3>2. 40 * Points \in Int
      BY DEF Points
    <3> QED BY <1>0, <1>1, <1>3, <3>1, <3>2, Zenon
  <2>2. IsOversold(s) \in BOOLEAN
    BY DEF IsOversold
  <2>3. SwingOversold(s, aggregate) = Capped(IsOversold(s), a + b + c + d)
    BY DEF SwingOversold
  <2> HIDE DEF a, b, c, d
  <2>4. a + b + c + d \in Int
    BY <2>1
  <2> QED BY <2>2, <2>3, <2>4, CappedScore
<1>7. CASE regime \in SwingRegimes
  <2>1. /\ DOMAIN fits = {"swing-cash"} \cup Setups
        /\ fits["swing-cash"] = Cash(FALSE)
        /\ fits["swing-pullback"] = SwingPullback(s, aggregate)
        /\ fits["swing-breakout"] = SwingBreakout(s, aggregate)
        /\ fits["swing-oversold"] = SwingOversold(s, aggregate)
    BY <1>7 DEF SwingFits, Setups
  <2> HIDE DEF fits
  <2>2. \A name \in Setups : fits[name] \in ScoreSet /\ (~HasSetup(name, s) => fits[name] \in LowScores)
    BY <1>4, <1>5, <1>6, <2>1 DEF Setups, HasSetup
  <2> QED BY <1>2, <1>7, <2>1, <2>2 DEF fits
<1>8. CASE regime \notin SwingRegimes
  BY <1>2, <1>8 DEF SwingFits
<1> QED BY <1>7, <1>8

(* Among a few numbered choices one comes first.                           *)
LEMMA FirstOfNine ==
    ASSUME NEW S \in SUBSET (1 .. 9), S # {}
    PROVE  Min(S) \in S
<1>1. \A y \in S : y \in {1, 2, 3, 4, 5, 6, 7, 8, 9}
  OBVIOUS
<1>2. \E m \in S : \A y \in S : m <= y
  <2>1. CASE 1 \in S
    BY <1>1, <2>1
  <2>2. CASE 1 \notin S /\ 2 \in S
    BY <1>1, <2>2
  <2>3. CASE 1 \notin S /\ 2 \notin S /\ 3 \in S
    BY <1>1, <2>3
  <2>4. CASE 1 \notin S /\ 2 \notin S /\ 3 \notin S /\ 4 \in S
    BY <1>1, <2>4
  <2>5. CASE 1 \notin S /\ 2 \notin S /\ 3 \notin S /\ 4 \notin S /\ 5 \in S
    BY <1>1, <2>5
  <2>6. CASE 1 \notin S /\ 2 \notin S /\ 3 \notin S /\ 4 \notin S /\ 5 \notin S /\ 6 \in S
    BY <1>1, <2>6
  <2>7. CASE 1 \notin S /\ 2 \notin S /\ 3 \notin S /\ 4 \notin S /\ 5 \notin S /\ 6 \notin S /\ 7 \in S
    BY <1>1, <2>7
  <2>8. CASE 1 \notin S /\ 2 \notin S /\ 3 \notin S /\ 4 \notin S /\ 5 \notin S /\ 6 \notin S /\ 7 \notin S /\ 8 \in S
    BY <1>1, <2>8
  <2>9. CASE 1 \notin S /\ 2 \notin S /\ 3 \notin S /\ 4 \notin S /\ 5 \notin S /\ 6 \notin S /\ 7 \notin S /\ 8 \notin S /\ 9 \in S
    BY <1>1, <2>9
  <2> QED BY <1>1, <2>1, <2>2, <2>3, <2>4, <2>5, <2>6, <2>7, <2>8, <2>9
<1> QED BY <1>2 DEF Min

(* What is selected is tied with the best.                                 *)
LEMMA SelectedIsTied ==
    ASSUME NEW fits, Tied(fits) # {}, \A name \in Tied(fits) : \E i \in 1 .. 9 : name = TiePriority[i]
    PROVE  Select(fits) \in Tied(fits)
<1> DEFINE places == {i \in DOMAIN TiePriority : TiePriority[i] \in Tied(fits)}
<1>1. DOMAIN TiePriority = 1 .. 9
  BY DEF TiePriority
<1>2. places \in SUBSET (1 .. 9) /\ places # {}
  BY <1>1
<1>3. Min(places) \in places
  BY <1>2, FirstOfNine
<1> QED BY <1>3 DEF Select

(* A BUY has the setup of its strategy in a regime for setups: without its *)
(* setup a strategy loses to cash, which then is at least the margin of a  *)
(* tie ahead.                                                              *)
LEMMA SetupSelected ==
    ASSUME NEW s, NEW regime, NEW aggregate \in Int, NEW name,
           name = Select(SwingFits(s, regime, aggregate)), StrategyAction(name) = "BUY"
    PROVE  regime \in SwingRegimes /\ HasSetup(name, s)
<1> DEFINE fits == SwingFits(s, regime, aggregate)
<1>1. \A n \in DOMAIN fits : fits[n] \in Int
  <2>1. 30 * Points \in Int /\ 60 * Points \in Int /\ ScoreSet \subseteq Int
    BY DEF ScoreSet, Points
  <2>2. CASE regime \in SwingRegimes
    <3>1. /\ DOMAIN fits = {"swing-cash"} \cup Setups /\ fits["swing-cash"] = 30 * Points
          /\ \A n \in Setups : fits[n] \in ScoreSet
      BY <2>2, SwingScores
    <3> HIDE DEF fits
    <3> QED BY <2>1, <3>1
  <2>3. CASE regime \notin SwingRegimes
    BY <2>1, <2>3, SwingScores
  <2> QED BY <2>2, <2>3
<1>2. \A n \in DOMAIN fits : \E i \in 1 .. 9 : n = TiePriority[i]
  <2>1. \A n \in DOMAIN fits : n \in {"swing-cash"} \cup Setups
    BY SwingScores
  <2>2. /\ TiePriority[6] = "swing-cash" /\ TiePriority[7] = "swing-oversold"
        /\ TiePriority[8] = "swing-pullback" /\ TiePriority[9] = "swing-breakout"
    BY DEF TiePriority
  <2> QED BY <2>1, <2>2 DEF Setups
<1>3. \E best \in DOMAIN fits : \A n \in DOMAIN fits : fits[n] <= fits[best]
  <2>1. CASE regime \in SwingRegimes
    <3>1. DOMAIN fits = {"swing-cash", "swing-pullback", "swing-breakout", "swing-oversold"}
      BY <2>1, SwingScores DEF Setups
    <3> HIDE DEF fits
    <3> QED BY <1>1, <3>1
  <2>2. CASE regime \notin SwingRegimes
    BY <1>1, <2>2, SwingScores
  <2> QED BY <2>1, <2>2
<1>4. Tied(fits) # {}
  BY <1>1, <1>3 DEF Tied, TieMargin, Points
<1>5. name \in Tied(fits)
  BY <1>2, <1>4, SelectedIsTied DEF Tied
<1>6. name # "swing-cash" /\ name \in DOMAIN fits
  BY <1>5 DEF Tied, StrategyAction
<1>7. regime \in SwingRegimes /\ name \in Setups
  BY <1>6, SwingScores
<1>8. fits["swing-cash"] - fits[name] < TieMargin * Points
  BY <1>5, <1>7, SwingScores DEF Tied
<1>9. fits[name] \notin LowScores
  <2>1. fits["swing-cash"] = 30 * Points /\ fits[name] \in Int
    BY <1>1, <1>6, <1>7, SwingScores
  <2> HIDE DEF fits
  <2>2. \A f \in Int : 30 * Points - f < TieMargin * Points => f \notin LowScores
    BY DEF TieMargin, Points, LowScores
  <2> QED BY <1>8, <2>1, <2>2, Zenon
<1> QED BY <1>7, <1>9, SwingScores

-----------------------------------------------------------------------------
(* What a scan knows is well founded.  It is kept as one condition on the  *)
(* record of a scan, which no variable but that record enters: nothing     *)
(* that happens around a scan can disturb it.                              *)

Reviewing == {"reviewing", "asking", "storing"}

\* The fields of a scan with candidates.
Fields == {"step", "regime", "snap", "cand", "portfolio", "profile", "corr", "waiting", "stance",
           "wrote", "entry"}

IsReviewing(r) == Fields \subseteq DOMAIN r

\* Whoever is scanned passed the screen.
Grounded(r) == \A x \in DOMAIN r.snap : PassesSwingScreen(r.snap[x], Facts[x])

\* A candidate that would be bought has its setup in the snapshot.
Founded(r) ==
    /\ DOMAIN r.cand = DOMAIN r.snap
    /\ \A x \in DOMAIN r.cand : StrategyAction(r.cand[x].strategy) = "BUY" =>
          r.regime \in SwingRegimes /\ HasSetup(r.cand[x].strategy, r.snap[x])

\* The verdict on the order of a candidate, given what the scan has read.
Verdict(r, x, moving) ==
    Approved(OrderOn(x, r.snap[x], r.cand[x].shares, r.portfolio, moving), r.portfolio, r.profile)

Judged(r) ==
    \A x \in DOMAIN r.cand :
        r.cand[x].pre = TRUE <=> r.cand[x].shares > 0 /\ Verdict(r, x, r.corr)

\* The signals of a gated scan come from its candidates and their verdicts.
Signalled(r) ==
    /\ DOMAIN r.signal = DOMAIN r.cand
    /\ \A x \in DOMAIN r.signal : r.signal[x] = "BUY" =>
          /\ StrategyAction(r.cand[x].strategy) = "BUY"
          /\ r.steady = TRUE => (x \in r.approved <=> r.cand[x].pre = TRUE)

GoodScan(r) ==
    \/ r = Idle
    \/ r.step = "screened" /\ Grounded(r)
    \/ r.step \in Reviewing /\ IsReviewing(r) /\ Grounded(r) /\ Founded(r) /\ Judged(r)
    \/ r.step = "gated" /\ Grounded(r) /\ Founded(r) /\ Signalled(r)

ScanInv == scan = [s \in Sessions |-> scan[s]] /\ \A s \in Sessions : GoodScan(scan[s])

(* A step of one session leaves the others as they are.                    *)
LEMMA OneScanMoves ==
    ASSUME ScanInv, NEW s \in Sessions, NEW r, GoodScan(r), scan' = [scan EXCEPT ![s] = r]
    PROVE  ScanInv'
<1>1. scan' = [t \in Sessions |-> IF t = s THEN r ELSE scan[t]]
  BY DEF ScanInv
<1>2. \A t \in Sessions : scan'[t] = r \/ scan'[t] = scan[t]
  BY <1>1
<1>3. ASSUME NEW t \in Sessions
      PROVE  GoodScan(scan'[t])
  BY <1>2, <1>3 DEF ScanInv
<1>4. scan' = [t \in Sessions |-> scan'[t]]
  BY <1>1
<1> QED BY <1>3, <1>4 DEF ScanInv

(* A scan that only goes on with its reviews keeps what it is founded on.  *)
LEMMA ReviewsGoOn ==
    ASSUME NEW r, GoodScan(r), r.step \in Reviewing, NEW q, q.step \in Reviewing, IsReviewing(q),
           q.regime = r.regime, q.snap = r.snap, q.cand = r.cand,
           q.portfolio = r.portfolio, q.profile = r.profile, q.corr = r.corr
    PROVE  GoodScan(q)
<1>1. Grounded(r) /\ Founded(r) /\ Judged(r)
  BY DEF GoodScan, Idle, Reviewing
<1>2. Grounded(q) /\ Founded(q) /\ Judged(q)
  BY <1>1, Zenon DEF Grounded, Founded, Judged, Verdict
<1> QED BY <1>2 DEF GoodScan

(* The screen lets nobody through who does not pass it.                    *)
LEMMA ScreenedIsGood == GoodScan(Screened)
<1> DEFINE snap == [x \in Universe |-> Technicals(stock[x])]
<1>1. \E kept \in SUBSET {x \in Universe : PassesSwingScreen(snap[x], Facts[x])} :
          Screened = [step |-> "screened", regime |-> Regime(tape), snap |-> [x \in kept |-> snap[x]]]
  BY DEF Screened
<1> HIDE DEF snap
<1>2. PICK kept \in SUBSET {x \in Universe : PassesSwingScreen(snap[x], Facts[x])} :
          Screened = [step |-> "screened", regime |-> Regime(tape), snap |-> [x \in kept |-> snap[x]]]
  BY <1>1
<1>3. \A x \in kept : PassesSwingScreen(snap[x], Facts[x])
  OBVIOUS
<1>4. Screened.step = "screened" /\ DOMAIN Screened.snap = kept /\ \A x \in kept : Screened.snap[x] = snap[x]
  BY <1>2
<1>5. Grounded(Screened)
  BY <1>3, <1>4, Zenon DEF Grounded
<1> QED BY <1>4, <1>5 DEF GoodScan

(* The candidate the deterministic stages make of a survivor.              *)
LEMMA CandidateIsGood ==
    ASSUME NEW x, NEW snap, NEW regime, NEW p, NEW c, c = Candidate(x, snap, regime, p)
    PROVE  /\ StrategyAction(c.strategy) = "BUY" => regime \in SwingRegimes /\ HasSetup(c.strategy, snap)
           /\ c.pre = TRUE <=> c.shares > 0 /\ Approved(OrderOn(x, snap, c.shares, p, corr), p, profile)
<1> DEFINE aggregate == Aggregate(snap, Facts[x], stock[x].news > 0, tape.vix # NotKnown)
           strategy == Select(SwingFits(snap, regime, aggregate))
           n == IF StrategyAction(strategy) = "BUY"
                THEN SizePosition(p.equity, snap.close, snap.atr, profile) ELSE 0
           pre == n > 0 /\ Approved(OrderFor(x, snap, n, p), p, profile)
<1>1. c.strategy = strategy /\ c.shares = n /\ c.pre = pre
  BY DEF Candidate
<1>2. aggregate \in Int
  BY AggregateIsNumber
<1> HIDE DEF aggregate
<1>3. StrategyAction(strategy) = "BUY" => regime \in SwingRegimes /\ HasSetup(strategy, snap)
  BY <1>2, SetupSelected
<1> HIDE DEF strategy, n
<1>4. pre = TRUE <=> n > 0 /\ Approved(OrderOn(x, snap, n, p, corr), p, profile)
  BY DEF OrderFor
<1> HIDE DEF pre
<1> QED BY <1>1, <1>3, <1>4

(* Every candidate of an analysed scan has its setup and its verdict.      *)
LEMMA AnalysedIsGood ==
    ASSUME NEW sc, sc.step = "screened", Grounded(sc), NEW useLlm
    PROVE  GoodScan(Analysed(sc, useLlm))
<1> DEFINE q == Analysed(sc, useLlm)
           p == Portfolio
<1>1. /\ q.step = "reviewing" /\ IsReviewing(q)
      /\ q.regime = sc.regime /\ q.snap = sc.snap
      /\ q.cand = [x \in DOMAIN sc.snap |-> Candidate(x, sc.snap[x], sc.regime, p)]
      /\ q.portfolio = p /\ q.profile = profile /\ q.corr = corr
  BY DEF Analysed, IsReviewing, Fields
<1> HIDE DEF q, p
<1>2. DOMAIN q.cand = DOMAIN q.snap
  BY <1>1
<1>3. ASSUME NEW x \in DOMAIN q.cand
      PROVE  q.cand[x] = Candidate(x, q.snap[x], q.regime, q.portfolio)
  BY <1>1
<1>4. Grounded(q)
  BY <1>1, Zenon DEF Grounded
<1>5. ASSUME NEW x \in DOMAIN q.cand
      PROVE  /\ StrategyAction(q.cand[x].strategy) = "BUY" =>
                    q.regime \in SwingRegimes /\ HasSetup(q.cand[x].strategy, q.snap[x])
             /\ q.cand[x].pre = TRUE <=> q.cand[x].shares > 0 /\
                    Approved(OrderOn(x, q.snap[x], q.cand[x].shares, q.portfolio, corr), q.portfolio, profile)
  BY <1>3, CandidateIsGood, Zenon
<1>6. Founded(q)
  BY <1>2, <1>5, Zenon DEF Founded
<1>7. Judged(q)
  BY <1>1, <1>5, Zenon DEF Judged, Verdict
<1> QED BY <1>1, <1>4, <1>6, <1>7 DEF GoodScan, Reviewing, q

(* The gate repeats the verdict of the prefilter, on the same portfolio    *)
(* and profile; with the same correlations it comes to the same.           *)
LEMMA GatedIsGood ==
    ASSUME NEW s, GoodScan(scan[s]), scan[s].step = "reviewing"
    PROVE  GoodScan(Gated(s))
<1> DEFINE sc == scan[s]
           q == Gated(s)
           signal == [x \in DOMAIN sc.cand |-> Signal(s, x)]
           approved == {x \in DOMAIN sc.cand : signal[x] = "BUY" /\
                           Approved(OrderFor(x, sc.snap[x], sc.cand[x].shares, sc.portfolio),
                                    sc.portfolio, sc.profile)}
<1>1. Grounded(sc) /\ Founded(sc) /\ Judged(sc)
  BY DEF GoodScan, Idle, Reviewing
<1>2. /\ q.step = "gated" /\ q.regime = sc.regime /\ q.snap = sc.snap /\ q.cand = sc.cand
      /\ q.signal = signal /\ q.steady = (sc.corr = corr) /\ q.approved = approved
  BY DEF Gated, GatePortfolio
<1>3. DOMAIN signal = DOMAIN sc.cand
  OBVIOUS
<1>4. ASSUME NEW x \in DOMAIN sc.cand, signal[x] = "BUY"
      PROVE  StrategyAction(sc.cand[x].strategy) = "BUY"
  BY <1>4 DEF Signal, Standing
<1>5. ASSUME NEW x \in DOMAIN sc.cand, signal[x] = "BUY", sc.corr = corr
      PROVE  x \in approved <=> sc.cand[x].pre = TRUE
  <2>1. x \in approved <=> Verdict(sc, x, corr)
    BY <1>5 DEF Verdict, OrderFor
  <2>2. Verdict(sc, x, corr) => sc.cand[x].shares > 0
    BY DEF Verdict, Approved, OrderSanity, OrderOn
  <2>3. sc.cand[x].pre = TRUE <=> sc.cand[x].shares > 0 /\ Verdict(sc, x, corr)
    BY <1>1, <1>5 DEF Judged
  <2> QED BY <2>1, <2>2, <2>3
<1> HIDE DEF sc, q, signal, approved
<1>6. Grounded(q) /\ Founded(q)
  BY <1>1, <1>2, Zenon DEF Grounded, Founded
<1>7. Signalled(q)
  BY <1>2, <1>3, <1>4, <1>5, Zenon DEF Signalled
<1> QED BY <1>2, <1>6, <1>7 DEF GoodScan, q

(* Reviews change neither the candidates nor what they rest on.            *)
LEMMA ReviewStep ==
    ASSUME ScanInv, NEW s \in Sessions,
           UseCached(s) \/ Ask(s) \/ Unavailable(s) \/ Answer(s) \/ Store(s)
    PROVE  ScanInv'
<1> DEFINE r == scan[s]
           q == scan'[s]
           GoesOn == /\ q.step \in Reviewing /\ IsReviewing(q)
                     /\ q.regime = r.regime /\ q.snap = r.snap /\ q.cand = r.cand
                     /\ q.portfolio = r.portfolio /\ q.profile = r.profile /\ q.corr = r.corr
<1>1. GoodScan(r) /\ r.step \in Reviewing
  BY DEF ScanInv, UseCached, Ask, Unavailable, Answer, Store, Reviewing
<1>2. Fields \subseteq DOMAIN r
  BY <1>1 DEF GoodScan, Idle, Reviewing, IsReviewing
<1>3. scan = [t \in Sessions |-> scan[t]]
  BY DEF ScanInv
<1>4. GoesOn /\ scan' = [t \in Sessions |-> IF t = s THEN q ELSE scan[t]]
  <2>1. CASE UseCached(s)
    <3>1. PICK x, v : scan' = [scan EXCEPT ![s].waiting = @ \ {x}, ![s].stance[x] = v]
      BY <2>1 DEF UseCached
    <3>2. /\ scan' = [t \in Sessions |-> IF t = s THEN q ELSE scan[t]]
          /\ q = [r EXCEPT !.waiting = @ \ {x}, !.stance[x] = v]
      BY <1>3, <3>1
    <3> QED BY <1>1, <1>2, <3>2 DEF Reviewing, IsReviewing, Fields
  <2>2. CASE Ask(s)
    <3>1. /\ scan' = [t \in Sessions |-> IF t = s THEN q ELSE scan[t]]
          /\ q = [r EXCEPT !.step = "asking"]
      BY <1>3, <2>2 DEF Ask
    <3> QED BY <1>2, <3>1 DEF Reviewing, IsReviewing, Fields
  <2>3. CASE Unavailable(s)
    <3>1. PICK x : scan' = [scan EXCEPT ![s].step = "reviewing", ![s].waiting = @ \ {x}]
      BY <2>3 DEF Unavailable
    <3>2. /\ scan' = [t \in Sessions |-> IF t = s THEN q ELSE scan[t]]
          /\ q = [r EXCEPT !.step = "reviewing", !.waiting = @ \ {x}]
      BY <1>3, <3>1
    <3> QED BY <1>2, <3>2 DEF Reviewing, IsReviewing, Fields
  <2>4. CASE Answer(s)
    <3>1. PICK entry : scan' = [scan EXCEPT ![s].step = "storing", ![s].entry = entry]
      BY <2>4 DEF Answer
    <3>2. /\ scan' = [t \in Sessions |-> IF t = s THEN q ELSE scan[t]]
          /\ q = [r EXCEPT !.step = "storing", !.entry = entry]
      BY <1>3, <3>1
    <3> QED BY <1>2, <3>2 DEF Reviewing, IsReviewing, Fields
  <2>5. CASE Store(s)
    <3>1. PICK v \in Stances : scan' = [scan EXCEPT ![s] = Reviewed(r, Turn(s), v)]
      BY <2>5, Zenon DEF Store
    <3>2. /\ scan' = [t \in Sessions |-> IF t = s THEN q ELSE scan[t]]
          /\ q = Reviewed(r, Turn(s), v)
      BY <1>3, <3>1
    <3> QED BY <1>2, <3>2 DEF Reviewed, Reviewing, IsReviewing, Fields
  <2> QED BY <2>1, <2>2, <2>3, <2>4, <2>5
<1>5. GoodScan(q)
  BY <1>1, <1>4, ReviewsGoOn
<1> HIDE DEF q
<1>6. scan' = [t \in Sessions |-> scan'[t]] /\ \A t \in Sessions : scan'[t] = q \/ scan'[t] = scan[t]
  BY <1>4
<1> QED BY <1>5, <1>6 DEF ScanInv

(* Every step keeps the scans well founded.                                *)
LEMMA ScanStep ==
    ASSUME ScanInv, [Next]_vars
    PROVE  ScanInv'
<1>1. CASE UNCHANGED scan
  BY <1>1 DEF ScanInv
<1>2. ASSUME NEW s \in Sessions, Screen(s)
      PROVE  ScanInv'
  BY <1>2, ScreenedIsGood, OneScanMoves DEF Screen
<1>3. ASSUME NEW s \in Sessions, NEW useLlm \in BOOLEAN, Analyse(s, useLlm)
      PROVE  ScanInv'
  <2>1. Grounded(scan[s])
    BY <1>3 DEF Analyse, ScanInv, GoodScan, Idle, Reviewing
  <2> QED BY <1>3, <2>1, AnalysedIsGood, OneScanMoves DEF Analyse
<1>4. ASSUME NEW s \in Sessions, Gate(s)
      PROVE  ScanInv'
  BY <1>4, GatedIsGood, OneScanMoves DEF Gate, ScanInv
<1>5. ASSUME NEW s \in Sessions, scan' = [scan EXCEPT ![s] = Idle]
      PROVE  ScanInv'
  BY <1>5, OneScanMoves DEF GoodScan
<1> QED
  BY <1>1, <1>2, <1>3, <1>4, <1>5, ReviewStep
     DEF Next, Progress, KeyTaken, Deadlocked, Fault, Abort, Commit, Ingest, Expire, OwnerEdits, vars

(* Only what has its setup is bought: for every market, portfolio, profile *)
(* and number of concurrent scans.                                         *)
THEOREM BuysHaveTheirSetup == Spec => []SetupOrCash
<1>1. Init => ScanInv
  BY DEF Init, ScanInv, GoodScan
<1>2. ScanInv => SetupOrCash
  <2> SUFFICES ASSUME ScanInv, NEW s \in Sessions, scan[s].step = "gated", NEW x \in BuysOf(s)
               PROVE  /\ scan[s].regime \in SwingRegimes
                      /\ PassesSwingScreen(scan[s].snap[x], Facts[x])
                      /\ HasSetup(scan[s].cand[x].strategy, scan[s].snap[x])
    BY Zenon DEF SetupOrCash, HasSetup, SwingRegimes
  <2>1. Grounded(scan[s]) /\ Founded(scan[s]) /\ Signalled(scan[s])
    BY DEF ScanInv, GoodScan, Idle, Reviewing
  <2> QED BY <2>1 DEF Grounded, Founded, Signalled, BuysOf
<1> QED BY <1>1, <1>2, ScanStep, PTL DEF Spec

(* The gate never disagrees with the prefilter about a BUY unless a        *)
(* correlation moved in between.                                           *)
THEOREM GateAgrees == Spec => []GateAgreesWithPrefilter
<1>1. Init => ScanInv
  BY DEF Init, ScanInv, GoodScan
<1>2. ScanInv => GateAgreesWithPrefilter
  <2> SUFFICES ASSUME ScanInv, NEW s \in Sessions, scan[s].step = "gated", scan[s].steady,
                      NEW x \in BuysOf(s)
               PROVE  x \in scan[s].approved <=> scan[s].cand[x].pre
    BY Zenon DEF GateAgreesWithPrefilter
  <2>1. Signalled(scan[s])
    BY DEF ScanInv, GoodScan, Idle, Reviewing
  <2> QED BY <2>1 DEF Signalled, BuysOf
<1> QED BY <1>1, <1>2, ScanStep, PTL DEF Spec

-----------------------------------------------------------------------------
(* A situation is paid for again only when two scans raced for it.  A paid *)
(* review has a live row in the cache; a scan that pays has missed that    *)
(* row; and no two scans hold a row of the same key.                       *)

\* Whose turn it is, what a scan has missed and what it has written, as
\* functions of its record.
TurnOf(r) ==
    LET priority == [x \in DOMAIN r.cand |-> r.cand[x].priority]
    IN  CHOOSE x \in r.waiting : \A y \in r.waiting \ {x} : Precedes(x, y, priority, Rank)

MissedOf(r) == IF r.step \in {"asking", "storing"} THEN {r.cand[TurnOf(r)].key} ELSE {}

RowsOf(r) == IF r.step \in Reviewing \cup {"gated"} THEN r.wrote ELSE {}

Wrote(r, key) == \E row \in RowsOf(r) : row.key = key

Backed   == \A p \in payments : \E row \in cache : row.key = p[1] /\ row.live
RowsLive == \A s \in Sessions : \A row \in RowsOf(scan[s]) : row.live

OneHolder ==
    \A s, t \in Sessions : s # t => \A key : ~(Wrote(scan[s], key) /\ Wrote(scan[t], key))

EntryFits(r) == r.step = "storing" => r.entry.key = r.cand[TurnOf(r)].key

EntriesFit == \A s \in Sessions : EntryFits(scan[s])

\* Whoever pays for what is paid for already had missed it before.
LatePayer(r, key) == key \in MissedOf(r) \/ Wrote(r, key)

RacedIfPaid ==
    \A s \in Sessions : \A p \in payments : LatePayer(scan[s], p[1]) => p[1] \in raced

PayInv ==
    /\ Backed /\ RowsLive /\ OneHolder /\ EntriesFit /\ RacedIfPaid
    /\ PaidOnceUnlessRaced

Moves(s, q) == scan' = [t \in Sessions |-> IF t = s THEN q ELSE scan[t]]

(* The functions of a record are the operators of the model.               *)
LEMMA RecordsSuffice ==
    ASSUME ScanInv, NEW s \in Sessions
    PROVE  /\ Turn(s) = TurnOf(scan[s])
           /\ Missed(s) = MissedOf(scan[s])
           /\ \A key : Holds(s, key) <=> Wrote(scan[s], key)
<1>1. Turn(s) = TurnOf(scan[s])
  BY DEF Turn, TurnOf
<1>2. Missed(s) = MissedOf(scan[s])
  BY <1>1 DEF Missed, MissedOf
<1>3. scan[s].step \in {"idle", "screened", "gated"} \cup Reviewing
  BY DEF ScanInv, GoodScan, Idle
<1>4. ASSUME NEW key
      PROVE  Holds(s, key) <=> Wrote(scan[s], key)
  BY <1>3 DEF Holds, Wrote, RowsOf, Keys, Reviewing
<1> QED BY <1>1, <1>2, <1>4

(* A scan that writes nothing and misses nothing new.                      *)
LEMMA PaymentsStand ==
    ASSUME PayInv, NEW s \in Sessions, NEW q, Moves(s, q), EntryFits(q),
           RowsOf(q) \subseteq RowsOf(scan[s]), MissedOf(q) \subseteq MissedOf(scan[s]),
           UNCHANGED <<cache, payments, raced>>
    PROVE  PayInv'
<1>1. ASSUME NEW t \in Sessions
      PROVE  (t = s /\ scan'[t] = q) \/ (t # s /\ scan'[t] = scan[t])
  BY DEF Moves
<1>2. ASSUME NEW t \in Sessions
      PROVE  /\ RowsOf(scan'[t]) \subseteq RowsOf(scan[t])
             /\ MissedOf(scan'[t]) \subseteq MissedOf(scan[t])
  BY <1>1, Zenon
<1>3. Backed' /\ PaidOnceUnlessRaced'
  BY DEF PayInv, Backed, PaidOnceUnlessRaced
<1>4. ASSUME NEW t \in Sessions, NEW key
      PROVE  /\ Wrote(scan'[t], key) => Wrote(scan[t], key)
             /\ LatePayer(scan'[t], key) => LatePayer(scan[t], key)
  <2>1. Wrote(scan'[t], key) => Wrote(scan[t], key)
    BY <1>2, Zenon DEF Wrote
  <2> QED BY <1>2, <2>1, Zenon DEF LatePayer
<1>5. RowsLive'
  BY <1>2, Zenon DEF PayInv, RowsLive
<1>6. OneHolder'
  BY <1>4, Zenon DEF PayInv, OneHolder
<1>7. EntriesFit'
  BY <1>1, Zenon DEF PayInv, EntriesFit
<1>8. payments' = payments /\ raced' = raced
  OBVIOUS
<1>9. RacedIfPaid'
  BY <1>4, <1>8, Zenon DEF PayInv, RacedIfPaid
<1> QED BY <1>3, <1>5, <1>6, <1>7, <1>9 DEF PayInv

(* The same, for an update of the scan of one session.                     *)
LEMMA PaymentsStandByRecord ==
    ASSUME ScanInv, PayInv, NEW s \in Sessions, NEW q, scan' = [scan EXCEPT ![s] = q], EntryFits(q),
           RowsOf(q) \subseteq RowsOf(scan[s]), MissedOf(q) \subseteq MissedOf(scan[s]),
           UNCHANGED <<cache, payments, raced>>
    PROVE  PayInv'
<1>1. Moves(s, q)
  BY DEF ScanInv, Moves
<1> QED BY <1>1, PaymentsStand

(* A scan starts, is analysed, gated or rolled back.                       *)
LEMMA UnpaidStep ==
    ASSUME ScanInv, PayInv, NEW s \in Sessions, UNCHANGED <<cache, payments, raced>>,
           \/ Screen(s)
           \/ \E useLlm \in BOOLEAN : Analyse(s, useLlm)
           \/ Gate(s)
           \/ scan' = [scan EXCEPT ![s] = Idle]
    PROVE  PayInv'
<1>2. CASE Screen(s)
  <2> DEFINE q == Screened
  <2>1. q.step = "screened"
    BY DEF Screened
  <2>2. scan' = [scan EXCEPT ![s] = q]
    BY <1>2 DEF Screen
  <2> HIDE DEF q
  <2>3. RowsOf(q) = {} /\ MissedOf(q) = {} /\ EntryFits(q)
    BY <2>1 DEF RowsOf, MissedOf, EntryFits, Reviewing
  <2> QED BY <2>2, <2>3, PaymentsStandByRecord
<1>3. ASSUME NEW useLlm \in BOOLEAN, Analyse(s, useLlm)
      PROVE  PayInv'
  <2> DEFINE q == Analysed(scan[s], useLlm)
  <2>1. q.step = "reviewing" /\ q.wrote = {}
    BY DEF Analysed
  <2>2. scan' = [scan EXCEPT ![s] = q]
    BY <1>3 DEF Analyse
  <2> HIDE DEF q
  <2>3. RowsOf(q) = {} /\ MissedOf(q) = {} /\ EntryFits(q)
    BY <2>1 DEF RowsOf, MissedOf, EntryFits, Reviewing
  <2> QED BY <2>2, <2>3, PaymentsStandByRecord
<1>4. CASE Gate(s)
  <2> DEFINE q == Gated(s)
  <2>1. q.step = "gated" /\ q.wrote = scan[s].wrote
    BY DEF Gated
  <2>2. scan' = [scan EXCEPT ![s] = q] /\ scan[s].step = "reviewing"
    BY <1>4 DEF Gate
  <2> HIDE DEF q
  <2>3. RowsOf(q) = RowsOf(scan[s]) /\ MissedOf(q) = {} /\ EntryFits(q)
    BY <2>1, <2>2 DEF RowsOf, MissedOf, EntryFits, Reviewing
  <2> QED BY <2>2, <2>3, PaymentsStandByRecord
<1>5. CASE scan' = [scan EXCEPT ![s] = Idle]
  <2>1. RowsOf(Idle) = {} /\ MissedOf(Idle) = {} /\ EntryFits(Idle)
    BY DEF RowsOf, MissedOf, EntryFits, Reviewing, Idle
  <2> QED BY <1>5, <2>1, PaymentsStandByRecord
<1> QED BY <1>2, <1>3, <1>4, <1>5

(* A stored review is used, or none is to be had.                          *)
LEMMA FreeStep ==
    ASSUME ScanInv, PayInv, NEW s \in Sessions, UseCached(s) \/ Unavailable(s)
    PROVE  PayInv'
<1> DEFINE r == scan[s]
           q == scan'[s]
<1>1. Fields \subseteq DOMAIN r /\ r.step \in Reviewing
  <2>1. r.step = "reviewing" \/ r.step = "asking"
    BY DEF UseCached, Unavailable
  <2> QED BY <2>1 DEF ScanInv, GoodScan, Idle, Reviewing, IsReviewing
<1>2. scan = [t \in Sessions |-> scan[t]]
  BY DEF ScanInv
<1>3. Moves(s, q) /\ q.step = "reviewing" /\ q.wrote = r.wrote
  <2>1. CASE UseCached(s)
    <3>1. PICK x, v : scan' = [scan EXCEPT ![s].waiting = @ \ {x}, ![s].stance[x] = v]
      BY <2>1 DEF UseCached
    <3>2. /\ scan' = [t \in Sessions |-> IF t = s THEN q ELSE scan[t]]
          /\ q = [r EXCEPT !.waiting = @ \ {x}, !.stance[x] = v]
      BY <1>2, <3>1
    <3>3. r.step = "reviewing"
      BY <2>1 DEF UseCached
    <3> QED BY <1>1, <3>2, <3>3 DEF Moves, Fields
  <2>2. CASE Unavailable(s)
    <3>1. PICK x : scan' = [scan EXCEPT ![s].step = "reviewing", ![s].waiting = @ \ {x}]
      BY <2>2 DEF Unavailable
    <3>2. /\ scan' = [t \in Sessions |-> IF t = s THEN q ELSE scan[t]]
          /\ q = [r EXCEPT !.step = "reviewing", !.waiting = @ \ {x}]
      BY <1>2, <3>1
    <3> QED BY <1>1, <3>2 DEF Moves, Fields
  <2> QED BY <2>1, <2>2
<1>4. UNCHANGED <<cache, payments, raced>>
  BY DEF UseCached, Unavailable, history
<1> HIDE DEF q, r
<1>5. RowsOf(q) = RowsOf(r) /\ MissedOf(q) = {} /\ EntryFits(q)
  BY <1>1, <1>3 DEF RowsOf, MissedOf, EntryFits, Reviewing
<1> QED BY <1>3, <1>4, <1>5, PaymentsStand DEF r

(* An answer to be stored is that of the finalist whose turn it is.        *)
LEMMA AnswerStep ==
    ASSUME ScanInv, PayInv, NEW s \in Sessions, Answer(s)
    PROVE  PayInv'
<1> DEFINE r == scan[s]
           q == scan'[s]
           x == Turn(s)
<1>1. Fields \subseteq DOMAIN r /\ r.step = "asking"
  BY DEF ScanInv, Answer, GoodScan, Idle, Reviewing, IsReviewing
<1>2. scan = [t \in Sessions |-> scan[t]]
  BY DEF ScanInv
<1>3. x = TurnOf(r)
  BY RecordsSuffice
<1> HIDE DEF x
<1>4. PICK isNew : scan' = [scan EXCEPT ![s].step = "storing",
                                ![s].entry = [key |-> r.cand[x].key, isNew |-> isNew]]
  BY DEF Answer, x
<1>5. Moves(s, q) /\ q = [r EXCEPT !.step = "storing", !.entry = [key |-> r.cand[x].key, isNew |-> isNew]]
  BY <1>2, <1>4 DEF Moves
<1>6. UNCHANGED <<cache, payments, raced>>
  BY DEF Answer, history
<1> HIDE DEF q, r
<1>7. /\ q.step = "storing" /\ q.wrote = r.wrote /\ q.cand = r.cand /\ q.waiting = r.waiting
      /\ q.entry.key = r.cand[x].key
  BY <1>1, <1>5 DEF Fields
<1>8. TurnOf(q) = TurnOf(r)
  BY <1>7 DEF TurnOf
<1>9. RowsOf(q) = RowsOf(r) /\ MissedOf(q) = MissedOf(r) /\ EntryFits(q)
  BY <1>1, <1>3, <1>7, <1>8 DEF RowsOf, MissedOf, EntryFits, Reviewing
<1> QED BY <1>5, <1>6, <1>9, PaymentsStand DEF r

(* Whoever misses the cache has nothing paid for: what was paid for has a  *)
(* live row there.                                                         *)
LEMMA AskStep ==
    ASSUME ScanInv, PayInv, NEW s \in Sessions, Ask(s)
    PROVE  PayInv'
<1> DEFINE r == scan[s]
           q == scan'[s]
           key == r.cand[TurnOf(r)].key
<1>1. Fields \subseteq DOMAIN r /\ r.step = "reviewing"
  BY DEF ScanInv, Ask, GoodScan, Idle, Reviewing, IsReviewing
<1>2. scan = [t \in Sessions |-> scan[t]]
  BY DEF ScanInv
<1>3. Moves(s, q) /\ q = [r EXCEPT !.step = "asking"]
  BY <1>2 DEF Ask, Moves
<1>4. cache' = cache /\ payments' = payments /\ raced' = raced
  BY DEF Ask, history
<1>5. \A p \in payments : p[1] # key
  <2>1. Cached(key) = {}
    BY RecordsSuffice DEF Ask
  <2> HIDE DEF key
  <2> QED BY <2>1 DEF Cached, PayInv, Backed
<1> HIDE DEF q, r
<1>6. q.step = "asking" /\ q.wrote = r.wrote /\ q.cand = r.cand /\ q.waiting = r.waiting
  BY <1>1, <1>3 DEF Fields
<1>7. TurnOf(q) = TurnOf(r)
  BY <1>6 DEF TurnOf
<1>8. RowsOf(q) = RowsOf(r) /\ MissedOf(q) = {key} /\ EntryFits(q)
  BY <1>1, <1>6, <1>7 DEF RowsOf, MissedOf, EntryFits, Reviewing
<1> HIDE DEF key
<1>9. ASSUME NEW t \in Sessions
      PROVE  (t = s /\ scan'[t] = q) \/ (t # s /\ scan'[t] = scan[t])
  BY <1>3 DEF Moves
<1>10. \A k : Wrote(q, k) => Wrote(scan[s], k)
  BY <1>8, Zenon DEF Wrote, r
<1>11. \A t \in Sessions : \A k : Wrote(scan'[t], k) => Wrote(scan[t], k)
  BY <1>9, <1>10, Zenon
<1>12. Backed' /\ PaidOnceUnlessRaced'
  BY <1>4 DEF PayInv, Backed, PaidOnceUnlessRaced
<1>13. RowsLive'
  <2>1. \A t \in Sessions : RowsOf(scan'[t]) = RowsOf(scan[t])
    BY <1>8, <1>9, Zenon DEF r
  <2> QED BY <2>1, Zenon DEF PayInv, RowsLive
<1>14. OneHolder'
  BY <1>11, Zenon DEF PayInv, OneHolder
<1>15. EntriesFit'
  BY <1>8, <1>9, Zenon DEF PayInv, EntriesFit
<1>16. RacedIfPaid'
  <2> SUFFICES ASSUME NEW t \in Sessions, NEW p \in payments, LatePayer(scan'[t], p[1])
               PROVE  p[1] \in raced
    BY <1>4, Zenon DEF RacedIfPaid
  <2>1. LatePayer(q, p[1]) => Wrote(scan[s], p[1])
    BY <1>5, <1>8, <1>10 DEF LatePayer
  <2>2. LatePayer(scan[t], p[1])
    BY <1>9, <2>1, Zenon DEF LatePayer
  <2> QED BY <2>2, Zenon DEF PayInv, RacedIfPaid
<1> QED BY <1>12, <1>13, <1>14, <1>15, <1>16 DEF PayInv

(* A row is written only while no other scan holds one of its key, and it  *)
(* is the row the scan has missed.                                         *)
LEMMA StoreStep ==
    ASSUME ScanInv, PayInv, NEW s \in Sessions, Store(s)
    PROVE  PayInv'
<1> DEFINE r == scan[s]
           q == scan'[s]
           x == Turn(s)
           key == r.entry.key
           rowOf(v) == [key |-> key, stance |-> v, live |-> TRUE]
<1>1. Fields \subseteq DOMAIN r /\ r.step = "storing"
  BY DEF ScanInv, Store, GoodScan, Idle, Reviewing, IsReviewing
<1>2. scan = [t \in Sessions |-> scan[t]]
  BY DEF ScanInv
<1>3. PICK v \in Stances : scan' = [scan EXCEPT ![s] = Reviewed(r, x, v)]
  BY Zenon DEF Store
<1> DEFINE row == rowOf(v)
<1>4. row.key = key /\ row.live
  OBVIOUS
<1>5. Moves(s, q) /\ q = [r EXCEPT !.step = "reviewing", !.waiting = @ \ {x}, !.stance[x] = v,
                                   !.entry = Idle, !.wrote = @ \cup {row}]
  <2>1. Moves(s, q) /\ q = Reviewed(r, x, v)
    BY <1>2, <1>3 DEF Moves
  <2> QED BY <2>1 DEF Reviewed
<1> HIDE DEF x, row
<1>6. cache' = cache /\ payments' = payments /\ raced' = raced
  BY DEF Store, history
<1>7. key \in MissedOf(r)
  BY <1>1 DEF PayInv, EntriesFit, EntryFits, MissedOf
<1>8. \A t \in Sessions : t # s => ~Wrote(scan[t], key)
  <2>1. \A t \in Sessions : t # s => ~Holds(t, key)
    BY <1>1 DEF Store, Holders
  <2> HIDE DEF key
  <2> QED BY <2>1, RecordsSuffice, Zenon
<1> HIDE DEF q, r, key
<1>9. q.step = "reviewing" /\ q.wrote = r.wrote \cup {row}
  BY <1>1, <1>5 DEF Fields
<1>10. RowsOf(q) = RowsOf(r) \cup {row} /\ MissedOf(q) = {} /\ EntryFits(q)
  BY <1>1, <1>9 DEF RowsOf, MissedOf, EntryFits, Reviewing
<1>11. ASSUME NEW t \in Sessions
       PROVE  (t = s /\ scan'[t] = q) \/ (t # s /\ scan'[t] = scan[t])
  BY <1>5 DEF Moves
<1>12. \A k : Wrote(q, k) => Wrote(r, k) \/ k = key
  BY <1>4, <1>10, Zenon DEF Wrote
<1>13. Backed' /\ PaidOnceUnlessRaced'
  BY <1>6 DEF PayInv, Backed, PaidOnceUnlessRaced
<1>14. RowsLive'
  <2> SUFFICES ASSUME NEW t \in Sessions, NEW w \in RowsOf(scan'[t])
               PROVE  w.live
    BY Zenon DEF RowsLive
  <2>1. w = row \/ w \in RowsOf(scan[t])
    BY <1>10, <1>11 DEF r
  <2> QED BY <1>4, <2>1, Zenon DEF PayInv, RowsLive
<1>15. OneHolder'
  <2> SUFFICES ASSUME NEW t \in Sessions, NEW u \in Sessions, t # u, NEW k,
                      Wrote(scan'[t], k), Wrote(scan'[u], k)
               PROVE  FALSE
    BY Zenon DEF OneHolder
  <2>1. ~(Wrote(scan[t], k) /\ Wrote(scan[u], k))
    BY Zenon DEF PayInv, OneHolder
  <2>2. CASE t = s
    <3>1. scan'[t] = q /\ scan'[u] = scan[u] /\ u # s
      BY <1>11, <2>2
    <3> QED BY <1>8, <1>12, <2>1, <2>2, <3>1, Zenon DEF r
  <2>3. CASE u = s
    <3>1. scan'[u] = q /\ scan'[t] = scan[t] /\ t # s
      BY <1>11, <2>3
    <3> QED BY <1>8, <1>12, <2>1, <2>3, <3>1, Zenon DEF r
  <2> QED BY <1>11, <2>1, <2>2, <2>3, Zenon
<1>16. EntriesFit'
  BY <1>10, <1>11, Zenon DEF PayInv, EntriesFit
<1>17. RacedIfPaid'
  <2> SUFFICES ASSUME NEW t \in Sessions, NEW p \in payments, LatePayer(scan'[t], p[1])
               PROVE  p[1] \in raced
    BY <1>6, Zenon DEF RacedIfPaid
  <2>1. LatePayer(q, p[1]) => LatePayer(r, p[1])
    BY <1>7, <1>10, <1>12 DEF LatePayer
  <2>2. LatePayer(scan[t], p[1])
    BY <1>11, <2>1, Zenon DEF r
  <2> QED BY <2>2, Zenon DEF PayInv, RacedIfPaid
<1> QED BY <1>13, <1>14, <1>15, <1>16, <1>17 DEF PayInv

(* A commit pays for what it wrote; whoever is about to pay for the same   *)
(* had missed it, for nobody else holds a row of it.                       *)
LEMMA CommitStep ==
    ASSUME ScanInv, PayInv, NEW s \in Sessions, Commit(s)
    PROVE  PayInv'
<1> DEFINE r == scan[s]
           paid == Keys(r.wrote)
           missed == UNION {Missed(t) : t \in Sessions \ {s}}
           number(key) == Cardinality({p \in payments : p[1] = key})
           new == {<<key, number(key)>> : key \in paid}
<1>1. r.step = "gated"
  BY DEF Commit
<1>2. cache' = {row \in cache : row.key \notin paid} \cup r.wrote
  BY DEF Commit, Merged
<1>3. payments' = payments \cup new
  BY DEF Commit
<1>4. raced' = raced \cup (paid \cap missed)
  BY DEF Commit
<1>5. Moves(s, Idle)
  BY DEF Commit, ScanInv, Moves
<1>6. RowsOf(r) = r.wrote
  BY <1>1 DEF RowsOf
<1>7. \A key : key \in paid <=> Wrote(r, key)
  BY <1>6 DEF Keys, Wrote
<1> HIDE DEF number
<1>8. \A p \in new : p[1] \in paid /\ p = <<p[1], number(p[1])>>
  OBVIOUS
<1>9. \A t \in Sessions : t # s => MissedOf(scan[t]) \subseteq missed
  BY RecordsSuffice
<1> HIDE DEF paid, missed, new
<1>10. RowsOf(Idle) = {} /\ MissedOf(Idle) = {} /\ EntryFits(Idle)
  BY DEF RowsOf, MissedOf, EntryFits, Reviewing, Idle
<1>11. ASSUME NEW t \in Sessions
       PROVE  (t = s /\ scan'[t] = Idle) \/ (t # s /\ scan'[t] = scan[t])
  BY <1>5 DEF Moves
<1>12. \A key : ~Wrote(Idle, key) /\ ~LatePayer(Idle, key)
  BY <1>10 DEF Wrote, LatePayer
<1>13. Backed'
  <2> SUFFICES ASSUME NEW p \in payments'
               PROVE  \E row \in cache' : row.key = p[1] /\ row.live
    BY Zenon DEF Backed
  <2>1. CASE p[1] \in paid
    <3>1. PICK row \in RowsOf(r) : row.key = p[1]
      BY <1>7, <2>1, Zenon DEF Wrote
    <3>2. row.live
      BY Zenon DEF PayInv, RowsLive, r
    <3>3. row \in cache'
      BY <1>2, <1>6
    <3> QED BY <3>1, <3>2, <3>3
  <2>2. CASE p[1] \notin paid
    <3>1. p \in payments
      BY <1>3, <1>8, <2>2
    <3>2. PICK row \in cache : row.key = p[1] /\ row.live
      BY <3>1, Zenon DEF PayInv, Backed
    <3>3. row \in cache'
      BY <1>2, <2>2, <3>2
    <3> QED BY <3>2, <3>3
  <2> QED BY <2>1, <2>2
<1>14. RowsLive'
  <2> SUFFICES ASSUME NEW t \in Sessions, NEW row \in RowsOf(scan'[t])
               PROVE  row.live
    BY Zenon DEF RowsLive
  <2>1. scan'[t] = scan[t]
    BY <1>10, <1>11
  <2> QED BY <2>1, Zenon DEF PayInv, RowsLive
<1>15. OneHolder'
  BY <1>11, <1>12, Zenon DEF PayInv, OneHolder
<1>16. EntriesFit'
  BY <1>10, <1>11, Zenon DEF PayInv, EntriesFit
<1>17. \A p \in payments : p[1] \in paid => p[1] \in raced
  BY <1>7, Zenon DEF PayInv, RacedIfPaid, LatePayer, r
<1>18. RacedIfPaid'
  <2> SUFFICES ASSUME NEW t \in Sessions, NEW p \in payments', LatePayer(scan'[t], p[1])
               PROVE  p[1] \in raced'
    BY Zenon DEF RacedIfPaid
  <2>1. t # s /\ LatePayer(scan[t], p[1])
    BY <1>11, <1>12, Zenon
  <2>2. CASE p \in payments
    <3>1. p[1] \in raced
      BY <2>1, <2>2, Zenon DEF PayInv, RacedIfPaid
    <3> QED BY <1>4, <3>1
  <2>3. CASE p \in new
    <3>1. p[1] \in paid /\ Wrote(r, p[1])
      BY <1>7, <1>8, <2>3, Zenon
    <3>2. ~Wrote(scan[t], p[1])
      BY <2>1, <3>1, Zenon DEF PayInv, OneHolder, r
    <3>3. p[1] \in missed
      BY <1>9, <2>1, <3>2 DEF LatePayer
    <3> QED BY <1>4, <3>1, <3>3
  <2> QED BY <1>3, <2>2, <2>3
<1>19. PaidOnceUnlessRaced'
  <2> SUFFICES ASSUME NEW p \in payments', NEW q \in payments', p[1] = q[1], p # q
               PROVE  p[1] \in raced'
    BY Zenon DEF PaidOnceUnlessRaced
  <2>1. CASE p \in payments /\ q \in payments
    <3>1. p[1] \in raced
      BY <2>1, Zenon DEF PayInv, PaidOnceUnlessRaced
    <3> QED BY <1>4, <3>1
  <2>2. CASE p \in payments /\ q \in new
    BY <1>4, <1>8, <1>17, <2>2
  <2>3. CASE p \in new /\ q \in payments
    BY <1>4, <1>8, <1>17, <2>3
  <2>4. CASE p \in new /\ q \in new
    BY <1>8, <2>4, Zenon
  <2> QED BY <1>3, <2>1, <2>2, <2>3, <2>4
<1> QED BY <1>13, <1>14, <1>15, <1>16, <1>18, <1>19 DEF PayInv

(* With an expired row go the payments it stood for.                       *)
LEMMA ExpireStep ==
    ASSUME PayInv, Expire
    PROVE  PayInv'
<1>1. PICK row \in cache :
         /\ row.live
         /\ cache' = (cache \ {row}) \cup {[row EXCEPT !.live = FALSE]}
         /\ payments' = {p \in payments : p[1] # row.key}
         /\ raced' = raced \ {row.key}
  BY Zenon DEF Expire
<1>2. scan' = scan
  BY DEF Expire, world
<1>3. Backed'
  <2> SUFFICES ASSUME NEW p \in payments'
               PROVE  \E w \in cache' : w.key = p[1] /\ w.live
    BY Zenon DEF Backed
  <2>1. p \in payments /\ p[1] # row.key
    BY <1>1
  <2>2. PICK w \in cache : w.key = p[1] /\ w.live
    BY <2>1, Zenon DEF PayInv, Backed
  <2>3. w \in cache'
    BY <1>1, <2>1, <2>2
  <2> QED BY <2>2, <2>3
<1>4. \A p \in payments' : p \in payments /\ (p[1] \in raced => p[1] \in raced')
  BY <1>1
<1>5. RowsLive' /\ OneHolder' /\ EntriesFit'
  BY <1>2, Zenon DEF PayInv, RowsLive, OneHolder, EntriesFit
<1>6. RacedIfPaid' /\ PaidOnceUnlessRaced'
  BY <1>2, <1>4, Zenon DEF PayInv, RacedIfPaid, PaidOnceUnlessRaced
<1> QED BY <1>3, <1>5, <1>6 DEF PayInv

(* Every step keeps the payments backed.                                   *)
LEMMA PayStep ==
    ASSUME ScanInv, PayInv, [Next]_vars
    PROVE  PayInv'
<1>1. CASE UNCHANGED <<scan, cache, payments, raced>>
  BY <1>1 DEF PayInv, Backed, RowsLive, OneHolder, EntriesFit, RacedIfPaid, PaidOnceUnlessRaced
<1>2. CASE UNCHANGED vars \/ Ingest \/ OwnerEdits
  BY <1>1, <1>2 DEF vars, Ingest, OwnerEdits, history
<1>3. CASE Expire
  BY <1>3, ExpireStep
<1>4. ASSUME NEW s \in Sessions, Screen(s) \/ Progress(s)
      PROVE  PayInv'
  <2>1. CASE \/ Screen(s) \/ Gate(s) \/ KeyTaken(s) \/ Deadlocked(s) \/ Fault(s)
             \/ \E useLlm \in BOOLEAN : Analyse(s, useLlm)
    <3>1. UNCHANGED <<cache, payments, raced>>
      BY <2>1 DEF Screen, Analyse, Gate, KeyTaken, Deadlocked, Fault, Abort, history
    <3> QED BY <2>1, <3>1, UnpaidStep DEF KeyTaken, Deadlocked, Fault, Abort
  <2>2. CASE UseCached(s) \/ Unavailable(s)
    BY <2>2, FreeStep
  <2>3. CASE Ask(s)
    BY <2>3, AskStep
  <2>4. CASE Answer(s)
    BY <2>4, AnswerStep
  <2>5. CASE Store(s)
    BY <2>5, StoreStep
  <2>6. CASE Commit(s)
    BY <2>6, CommitStep
  <2> QED BY <1>4, <2>1, <2>2, <2>3, <2>4, <2>5, <2>6 DEF Progress
<1> QED BY <1>2, <1>3, <1>4, Zenon DEF Next

(* A review is paid for twice within its lifetime only when two scans      *)
(* raced: for any number of overlapping scans, keys and failures.          *)
THEOREM PaidOnce == Spec => []PaidOnceUnlessRaced
<1>1. Init => ScanInv /\ PayInv
  <2> SUFFICES ASSUME Init
               PROVE  ScanInv /\ PayInv
    OBVIOUS
  <2>1. scan = [s \in Sessions |-> Idle] /\ payments = {}
    BY DEF Init
  <2>2. RowsOf(Idle) = {} /\ EntryFits(Idle)
    BY DEF RowsOf, EntryFits, Reviewing, Idle
  <2>3. \A s \in Sessions : scan[s] = Idle
    BY <2>1
  <2>4. RowsLive /\ OneHolder /\ EntriesFit
    BY <2>2, <2>3 DEF RowsLive, OneHolder, EntriesFit, Wrote
  <2> QED BY <2>1, <2>4 DEF ScanInv, GoodScan, PayInv, Backed, RacedIfPaid, PaidOnceUnlessRaced
<1>2. ScanInv /\ PayInv /\ [Next]_vars => ScanInv' /\ PayInv'
  BY ScanStep, PayStep
<1>3. PayInv => PaidOnceUnlessRaced
  BY DEF PayInv
<1> QED BY <1>1, <1>2, <1>3, PTL DEF Spec
=============================================================================
