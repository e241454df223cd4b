---------------------------- MODULE TrendScoring ----------------------------
(***************************************************************************)
(* The strength of a theme (sentinel/trends/scoring.py, trends/market.py): *)
(* six components, each between 0 and 100 points and measured or not, a    *)
(* bonus for persistence, and the guard against hype, which only caps.     *)
(*                                                                         *)
(* Points are in hundredths, and so are percentages of returns.            *)
(*                                                                         *)
(*   corpus: [theme: Themes -> [news: [recent, base, tone],                *)
(*                              gov: [recent, base],                       *)
(*                              social: [recent, base, tone],              *)
(*                              named: Symbols -> Nat],                    *)
(*            social: Symbols -> [recent, before, tone],                   *)
(*            other: whether recent documents match no theme]              *)
(*     documents of the last 3 days and of the 18 days before; tones in    *)
(*     percent, 0 where there is no recent document                        *)
(*   market: what TrendRanking needs, and                                  *)
(*           [funds: Funds -> [excess, turnover, above50] or NotKnown,     *)
(*            holdings: set of [fund, symbol, day, weight, shares],        *)
(*            past: Themes -> [days, held]]                                *)
(*     past: the days scored before, and those at 50 or more               *)
(***************************************************************************)
EXTENDS TrendRanking

CONSTANTS Taxonomy,      \* the themes, in the order of the taxonomy
          Funds,         \* the thematic ETFs
          Etfs,          \* Etfs[t]: those of a theme
          Seeds,         \* Seeds[t]: its seed symbols
          PolicyDriven,  \* the themes whose story is mostly policy
          Tradeable      \* the universe of symbols (get_universe)

Themes == Range(Taxonomy)

Hundred == 100 * 100

Points(v) == Clamp(v, 0, Hundred)

Weights(t) ==
    LET shift == When(t \in PolicyDriven, 6)
    IN [news |-> 22, policy |-> 18 + shift, market |-> 25,
        etf |-> 15, social |-> 10 - shift, breadth |-> 10]

Components == {"news", "policy", "market", "etf", "social", "breadth"}

Measured(points) == [score |-> Points(points), covered |-> TRUE]
Silent   == [score |-> 0, covered |-> TRUE]   \* looked for, and nothing found
Unknown  == [score |-> 0, covered |-> FALSE]  \* could not be measured
-----------------------------------------------------------------------------
(* The members of a theme, and what funds hold of them.                    *)
HoldingsOf(m, t) == {h \in m.holdings : h.fund \in Etfs[t]}

Days(m, t) == {h.day : h \in HoldingsOf(m, t)}

HeldOn(m, t, day) == {h \in HoldingsOf(m, t) : h.day = day}

\* The newest snapshot three weeks before the latest one, else the oldest.
EarlierDay(m, t) ==
    LET old == {d \in Days(m, t) : d <= Max(Days(m, t)) - 21}
    IN IF old # {} THEN Max(old) ELSE Min(Days(m, t))

Grew(h, then) ==
    LET before == {b \in then : b.fund = h.fund /\ b.symbol = h.symbol}
        weights(b) == NotKnown \notin {h.weight, b.weight}
        counts(b)  == NotKnown \notin {h.shares, b.shares} /\ h.shares > 0 /\ b.shares > 0
    IN \/ before = {}
       \/ \E b \in before :
            \/ weights(b) /\ h.weight - b.weight >= 25
            \/ weights(b) /\ b.weight > 0 /\ 4 * (h.weight - b.weight) >= b.weight
            \/ counts(b) /\ 100 * (h.shares - b.shares) >= 5 * b.shares

\* etf_accumulation: a comparison needs two snapshots.
Accumulation(m, t) ==
    IF Cardinality(Days(m, t)) < 2 THEN {}
    ELSE LET then == HeldOn(m, t, EarlierDay(m, t))
         IN {h \in HeldOn(m, t, Max(Days(m, t))) : Grew(h, then)}

Grown(m, t) == {h.symbol : h \in Accumulation(m, t)}

\* etf_members: the constituents in the newest snapshot.
EtfMembers(m, t) ==
    IF Days(m, t) = {} THEN {} ELSE {h.symbol : h \in HeldOn(m, t, Max(Days(m, t)))}

\* theme_symbols: one mention is noise, three are a pattern.
ThemeSymbols(m, corpus, t) ==
    LET named == {x \in Symbols : corpus.theme[t].named[x] >= 3}
    IN {x \in Seeds[t] \cup EtfMembers(m, t) \cup named : x \in Tradeable \cup Seeds[t]}

\* score_all loads the bars of seeds and of what any document names.
Loaded(corpus) ==
    {x \in Symbols : \E t \in Themes : x \in Seeds[t] \/ corpus.theme[t].named[x] > 0}
-----------------------------------------------------------------------------
(* market.py: the basket of the members with a month of bars.              *)
Basket(m, corpus, t) ==
    {x \in ThemeSymbols(m, corpus, t) \cap Loaded(corpus) :
        m.facts[x].bars >= 25 /\ m.facts[x].r21 # NotKnown}

MeanReturn(S, r(_)) == IF S = {} THEN NotKnown ELSE Mean(S, LAMBDA x : 100 * r(x))

UpperMedian(S, r(_)) ==
    CHOOSE v \in {r(x) : x \in S} :
        /\ 2 * Cardinality({x \in S : r(x) < v}) <= Cardinality(S)
        /\ 2 * Cardinality({x \in S : r(x) <= v}) > Cardinality(S)

Read(m, corpus, t) ==
    LET S == Basket(m, corpus, t)
        r21(x) == m.facts[x].r21
        r63(x) == m.facts[x].r63
        rising == {x \in S : r21(x) > 0}
        bench(v) == IF v = NotKnown THEN NotKnown ELSE 100 * v
    IN [members       |-> Cardinality(S),
        mean          |-> MeanReturn(S, r21),
        median        |-> IF S = {} THEN NotKnown ELSE UpperMedian(S, r21),
        excess21      |-> Excess(MeanReturn(S, r21), bench(m.bench.r21)),
        excess63      |-> Excess(MeanReturn({x \in S : r63(x) # NotKnown}, r63), bench(m.bench.r63)),
        breadth       |-> IF S = {} THEN NotKnown
                          ELSE (Hundred * Cardinality({x \in S : m.facts[x].above50 = TRUE}))
                                  \div Cardinality(S),
        concentration |-> IF rising = {} THEN NotKnown
                          ELSE (100 * Max({r21(x) : x \in rising})) \div MapThenSumSet(r21, rising),
        funds         |-> {e \in Etfs[t] : m.funds[e] # NotKnown}]

\* Rising on rising turnover, and ahead of the benchmark.
Accumulating(e) == e.excess # NotKnown /\ e.excess > 0 /\ e.turnover > 10 /\ e.above50
-----------------------------------------------------------------------------
(* The six components.                                                     *)
Saturating(v, midpoint) == IF v <= 0 THEN 0 ELSE (Hundred * v) \div (v + midpoint)

\* Bad press is still a trend, but a weaker one.
Toned(score, tone, share, floor) ==
    (score * (IF tone >= 0 THEN 100 ELSE Max({floor, 100 + (share * tone) \div 100}))) \div 100

\* Recent documents per day against the baseline per day: 3 and 18 days.
Growth(recent, base) == IF base = 0 THEN NotKnown ELSE (100 * (6 * recent - base)) \div base

ScoreNews(corpus, t) ==
    LET d      == corpus.theme[t].news
        growth == Growth(d.recent, d.base)
        volume == (60 * Saturating(d.recent, 18)) \div 100
        faster == IF growth # NotKnown THEN Clamp(60 * growth, 0, 4000)
                  ELSE IF d.recent >= 6 THEN 4000 ELSE 2000
        any(u) == LET e == corpus.theme[u] IN e.news.recent + e.gov.recent + e.social.recent > 0
    IN IF d.recent = 0 /\ d.base = 0
       THEN [score |-> 0, covered |-> corpus.other \/ \E u \in Themes : any(u)]
       ELSE Measured(Toned(volume + faster, d.tone, 40, 60))

\* A source has answered if any theme has a document from it.
Answered(corpus, source) ==
    \E t \in Themes : LET d == corpus.theme[t][source] IN d.recent + d.base > 0

ScorePolicy(corpus, t) ==
    LET d == corpus.theme[t].gov IN
    IF Answered(corpus, "gov") THEN Measured(Saturating(4 * d.recent + d.base, 12)) ELSE Unknown

\* A basket up on the mean and flat on the median is one stock.
ScoreMarket(read) ==
    IF read.excess21 = NotKnown THEN Unknown
    ELSE Measured(5000 + (5 * read.excess21) \div 2
                       + (IF read.excess63 = NotKnown THEN 0 ELSE (5 * read.excess63) \div 4)
                       - When(read.mean > 0 /\ read.median <= 0, 1500))

ScoreEtf(m, read, t) ==
    LET known == {e \in read.funds : m.funds[e].excess # NotKnown}
    IN IF read.funds = {} THEN Unknown
       ELSE Measured(5000
              + (IF known = {} THEN 0 ELSE Mean(known, LAMBDA e : 250 * m.funds[e].excess))
              + 60 * Clamp(Mean(read.funds, LAMBDA e : m.funds[e].turnover), -25, 25)
              + 400 * Cardinality({e \in read.funds : Accumulating(m.funds[e])})
              + Min({1000, 100 * Cardinality(Accumulation(m, t))}))

\* How often symbols are mentioned, and in what tone.
SocialGrowth(corpus, S) ==
    LET now == {x \in S : corpus.social[x].recent > 0} IN
    [recent |-> MapThenSumSet(LAMBDA x : corpus.social[x].recent, now),
     base   |-> MapThenSumSet(LAMBDA x : corpus.social[x].before, S),
     tone   |-> IF now = {} THEN 0 ELSE Mean(now, LAMBDA x : corpus.social[x].tone)]

\* Posts about the theme and mentions of its members; growth, not level.
ScoreSocial(m, corpus, t) ==
    LET d       == corpus.theme[t].social
        names   == SocialGrowth(corpus, ThemeSymbols(m, corpus, t))
        tone    == IF d.recent > 0 THEN d.tone ELSE names.tone
        volume  == Saturating(d.recent + names.recent, 24) \div 2
        growing == Average(<<Growth(d.recent, d.base), Growth(names.recent, names.base)>>, 50)
    IN IF ~Answered(corpus, "social") THEN Unknown
       ELSE IF d.recent = 0 /\ names.recent = 0 THEN Silent
       ELSE Measured(Toned(volume + Clamp(50 * growing, 0, 5000), tone, 50, 50))

\* A name that carries the gain, or a basket of three, is not breadth.
ScoreBreadth(read) ==
    IF read.breadth = NotKnown THEN Unknown
    ELSE LET single == read.concentration # NotKnown /\ read.concentration > 50
             all == (read.breadth * (IF single THEN 60 ELSE 100)) \div 100
         IN Measured((all * (IF read.members < 4 THEN 70 ELSE 100)) \div 100)

Parts(m, corpus, t) ==
    LET read == Read(m, corpus, t)
    IN [news |-> ScoreNews(corpus, t), policy |-> ScorePolicy(corpus, t),
        market |-> ScoreMarket(read), etf |-> ScoreEtf(m, read, t),
        social |-> ScoreSocial(m, corpus, t), breadth |-> ScoreBreadth(read)]
-----------------------------------------------------------------------------
(* Talk against action.                                                    *)
Action(parts) == Max({parts[c].score : c \in {"market", "policy", "etf"}})

Confirmations(parts) ==
    Cardinality({c \in {"market", "policy", "etf"} : parts[c].covered /\ parts[c].score >= 5500})

HypeFlags(parts, read) ==
    {f \in {"loud", "unconfirmed", "one stock", "narrow", "too few"} :
        CASE f = "loud"        -> parts.social.score >= 7000 /\ parts.market.score < 5000
          [] f = "unconfirmed" -> Max({parts.social.score, parts.news.score}) >= 6000
                                  /\ Action(parts) < 3500
          [] f = "one stock"   -> read.concentration # NotKnown /\ read.concentration > 65
          [] f = "narrow"      -> parts.breadth.covered /\ parts.breadth.score < 3000
          [] f = "too few"     -> read.members \in 1 .. 3}

Covered(parts) == {c \in Components : parts[c].covered}

\* assess_legitimacy: a label and a ceiling.
Legitimacy(parts, flags, raw) ==
    LET n == Cardinality(flags)
        k == Confirmations(parts)
    IN IF Cardinality(Covered(parts)) < 3 THEN [label |-> "unproven", cap |-> 4500]
       ELSE IF n >= 2 /\ k = 0            THEN [label |-> "hype", cap |-> 3500]
       ELSE IF n >= 1 /\ k <= 1           THEN [label |-> "mixed", cap |-> 6000]
       ELSE IF k >= 2 /\ raw >= 5500      THEN [label |-> "legitimate", cap |-> Hundred]
       ELSE IF k >= 1                     THEN [label |-> "emerging", cap |-> 8500]
       ELSE                                    [label |-> "unproven", cap |-> 5500]

\* What could not be measured is left out of both sides.
Weighted(t, parts) ==
    LET total == MapThenSumSet(LAMBDA c : Weights(t)[c], Covered(parts))
    IN IF total = 0 THEN 0
       ELSE MapThenSumSet(LAMBDA c : Weights(t)[c] * parts[c].score, Covered(parts)) \div total

\* A score that has held up for days earns up to five points.
PersistenceBonus(past) == IF past.days < 3 THEN 0 ELSE Min({500, (500 * past.held) \div past.days})

\* Mutant of Assess: the bonus comes on top of the ceiling.
AssessBonusLast(m, corpus, t) ==
    LET parts == Parts(m, corpus, t)
        raw   == Weighted(t, parts)
        flags == HypeFlags(parts, Read(m, corpus, t))
        legit == Legitimacy(parts, flags, raw)
    IN [score |-> Points(Min({raw, legit.cap}) + PersistenceBonus(m.past[t])),
        label |-> legit.label, flags |-> flags, members |-> ThemeSymbols(m, corpus, t),
        confirmed |-> Confirmations(parts)]

\* score_theme
Assess(m, corpus, t) ==
    LET parts == Parts(m, corpus, t)
        raw   == Points(Weighted(t, parts) + PersistenceBonus(m.past[t]))
        flags == HypeFlags(parts, Read(m, corpus, t))
        legit == Legitimacy(parts, flags, raw)
    IN [score |-> Min({raw, legit.cap}), label |-> legit.label,
        flags |-> flags, members |-> ThemeSymbols(m, corpus, t),
        confirmed |-> Confirmations(parts)]
=============================================================================
