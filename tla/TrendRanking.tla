---------------------------- MODULE TrendRanking ----------------------------
(***************************************************************************)
(* The ranking of the companies exposed to a theme                         *)
(* (sentinel/trends/ranking.py): a quality gate that fails closed, a guard *)
(* against pumped stocks, and seven factors in a composite.                *)
(*                                                                         *)
(* market.facts[x] is what is stored of x: percentages are integers, beta  *)
(* is in hundredths, the volume ratio in tenths, the capitalisation in     *)
(* millions; atr_pct is in basis points; NotKnown is a missing value.      *)
(* Factors, composite and confidence are in ten-thousandths.               *)
(***************************************************************************)
EXTENDS RiskEngine, SequencesExt

Clamp(v, low, high) == Max({low, Min({high, v})})

When(cond, score) == IF cond THEN score ELSE 0

Mean(S, v(_)) == MapThenSumSet(v, S) \div Cardinality(S)

Norm(v, low, high) == Clamp(((v - low) * Whole) \div (high - low), 0, Whole)

\* The same, of a value that may be missing, times a weight in percent.
NormPart(v, low, high, weight) ==
    IF v = NotKnown THEN 0 ELSE (Norm(v, low, high) * weight) \div 100

Excess(own, bench) == IF NotKnown \in {own, bench} THEN NotKnown ELSE own - bench
-----------------------------------------------------------------------------
\* Missing data is not a pass.
QualityGate(f) ==
    /\ f.bars >= 120
    /\ f.price >= 5
    /\ f.adv >= 10000000
    /\ f.cap # NotKnown /\ f.cap >= 500
    /\ f.sector # NotKnown

PumpReasons(f) ==
    {r \in {"spike", "volume", "small", "short", "mentions"} :
        CASE r = "spike"    -> f.r21 # NotKnown /\ f.r21 >= 80
          [] r = "volume"   -> f.volume >= 30
          [] r = "small"    -> f.cap # NotKnown /\ f.cap < 3000
          [] r = "short"    -> f.short # NotKnown /\ f.short >= 20
          [] r = "mentions" -> f.mentions >= 8}

\* A spike and a crowd, and no earnings release or filing to explain it.
Suspicious(f) ==
    /\ ~f.catalyst
    /\ "spike" \in PumpReasons(f)
    /\ {"short", "mentions"} \cap PumpReasons(f) # {}
    /\ Cardinality(PumpReasons(f)) >= 3

Eligible(f) == QualityGate(f) /\ ~Suspicious(f)
-----------------------------------------------------------------------------
(* Where a value stands among those of the theme's members, gated or not.  *)
PeerValue(f, field) ==
    IF f[field] # NotKnown /\ (field = "growth" \/ f[field] > 0) THEN f[field] ELSE NotKnown

Percentile(m, members, x, field) ==
    LET value(y) == PeerValue(m.facts[y], field)
        peers == {y \in members : value(y) # NotKnown}
        below == {y \in peers : value(y) < value(x)}
    IN IF x \notin peers \/ Cardinality(peers) < 3 THEN NotKnown
       ELSE (Cardinality(below) * Whole) \div (Cardinality(peers) - 1)

Inverse01(r) == IF r = NotKnown THEN NotKnown ELSE Whole - r

\* The average of the known ones of a sequence of parts.
Average(parts, otherwise) ==
    LET known == {i \in DOMAIN parts : parts[i] # NotKnown}
    IN IF known = {} THEN otherwise ELSE Mean(known, LAMBDA i : parts[i])

FinancialHealth(f) ==
    Clamp(5000 + (IF f.pe = NotKnown THEN 0 ELSE IF f.pe > 0 THEN 2000 ELSE -2500)
               + (IF f.eps = NotKnown THEN 0 ELSE Clamp(100 * f.eps, -1500, 2000))
               + NormPart(f.cap, 500, 200000, 15)
               - When(f.beta # NotKnown /\ f.beta > 200, 1000), 0, Whole)

RevenueGrowth(m, members, x) ==
    LET growth   == m.facts[x].growth
        relative == Percentile(m, members, x, "growth")
        absolute == Norm(growth, -10, 40)
    IN IF growth = NotKnown THEN 3500
       ELSE (60 * absolute + 40 * (IF relative = NotKnown THEN absolute ELSE relative)) \div 100

Momentum(f, excess) ==
    Clamp(When(f.above20 = TRUE, 1200) + When(f.above50 = TRUE, 1800)
          + When(f.above200 = TRUE, 2500)
          + NormPart(excess, -20, 30, 30)
          + (IF f.rsi \in 45 .. 72 THEN 1500 ELSE IF f.rsi > 82 THEN -1000 ELSE 0), 0, Whole)

InstitutionalInterest(f, accumulating) ==
    Clamp(3000 + Min({3000, 1000 * f.etfs}) + When(accumulating, 2500)
          + (IF f.insiders = NotKnown THEN 0
             ELSE When(f.insiders > 0, 2000) - When(f.insiders < 0, 1000)), 0, Whole)

Multiples(m, members, x) ==
    <<Inverse01(Percentile(m, members, x, "pe")),
      Inverse01(Percentile(m, members, x, "ps"))>>

Valuation(m, members, x) == Average(Multiples(m, members, x), 4000)

CompetitiveAdvantage(m, members, x) ==
    LET excess == Excess(m.facts[x].r63, m.bench.r63)
    IN Average(<<Percentile(m, members, x, "cap"),
                 Percentile(m, members, x, "growth"),
                 IF excess = NotKnown THEN NotKnown ELSE Norm(excess, -25, 35)>>, 4000)

\* from_high is zero or negative: the close against the high of the year.
Risk(f) ==
    Clamp(3000 + NormPart(f.atr_pct, 150, 800, 30) + NormPart(f.beta, 80, 250, 20)
          + (20 * (Whole - Norm(f.cap, 500, 100000))) \div 100
          + NormPart(f.short, 5, 30, 15)
          + When(f.from_high # NotKnown /\ f.from_high > 40, 1000)
          + Min({1500, 400 * Cardinality(PumpReasons(f))}), 0, Whole)

Composite(m, members, grown, x) ==
    LET f == m.facts[x]
        weighted == 20 * FinancialHealth(f)
                    + 18 * RevenueGrowth(m, members, x)
                    + 18 * Momentum(f, Excess(f.r21, m.bench.r21))
                    + 16 * InstitutionalInterest(f, x \in grown)
                    + 14 * Valuation(m, members, x)
                    + 14 * CompetitiveAdvantage(m, members, x)
    IN Clamp(weighted \div 100 - (25 * Risk(f)) \div 100 + 1250, 0, Whole)

Gaps(m, members, x) ==
    LET f == m.facts[x] IN
    {g \in {"earnings", "revenue growth", "moving averages", "etf holdings",
            "insider filings", "valuation multiples"} :
        CASE g = "earnings"            -> f.pe = NotKnown
          [] g = "revenue growth"      -> f.growth = NotKnown
          [] g = "moving averages"     -> NotKnown \in {f.above20, f.above50, f.above200}
          [] g = "etf holdings"        -> f.etfs = 0
          [] g = "insider filings"     -> f.insiders = NotKnown
          [] g = "valuation multiples" -> Range(Multiples(m, members, x)) = {NotKnown}}

\* Confidence falls by 6% with each gap.
Confidence(m, members, grown, x) ==
    (Composite(m, members, grown, x) * (100 - 6 * Cardinality(Gaps(m, members, x)))) \div 100
=============================================================================
