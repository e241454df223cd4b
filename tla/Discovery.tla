------------------------------ MODULE Discovery ------------------------------
(***************************************************************************)
(* One discovery sweep (sentinel/data/discovery.py): deterministic         *)
(* triggers score the symbols from what is stored of them, the scored      *)
(* symbols are ranked, a quality gate drops some, the rest is capped.      *)
(*                                                                         *)
(* What is stored of a symbol is a record of the measures the triggers     *)
(* compare: percentages as integers, ratios and z-scores in tenths, the    *)
(* average dollar volume in millions.  Scores are in thousandths.          *)
(***************************************************************************)
EXTENDS Integers, Sequences, FiniteSets, FiniteSetsExt, Functions

CONSTANTS Alphabet,       \* the symbols in alphabetical order
          Universe,       \* those of the universe, the market symbol left out
          Facts,          \* what may be stored of a symbol
          BenchReturn,    \* the market symbol's return over a quarter
          Failing,        \* the triggers that may raise, and "series", the loading of bars
          MaxCandidates,  \* max_candidates
          FocusLimit      \* focus_set_size

VARIABLES stored,      \* stored[x]: what is stored of x
          broken,      \* what raises an exception in this sweep
          candidates,  \* the list the sweep persists
          focus        \* the technical shortlist of the deep ingest

sweepVars == <<stored, broken, candidates, focus>>

Symbols == Range(Alphabet)

\* Bars and sector are only compared, the rest is measured.
Measures ==
    {"volume", "zscore", "return", "below_high", "surprise", "beats", "headlines",
     "buyers", "off_high", "short", "theme", "price", "adv"}

ASSUME SweepAssumption ==
    /\ Alphabet \in Seq(Symbols) /\ IsInjective(Alphabet)
    /\ \A f \in Facts : \A m \in Measures : f[m] \in Int
    /\ BenchReturn \in Int
    /\ MaxCandidates \in Nat /\ FocusLimit \in Nat

AtMost(cap, n) == Min({cap, n})
When(cond, score) == IF cond THEN score ELSE 0
-----------------------------------------------------------------------------
(* The triggers.  A symbol has enough bars for the technical ones, some,   *)
(* or none ("full", "some", "none"); the sweep loads only the bars of the  *)
(* universe.                                                               *)
Series(x) == IF x \in Universe THEN stored[x].bars ELSE "none"

Rich(x) == Series(x) = "full"

VolumeAndMoves(x) ==
    LET f == stored[x] IN
    When(Rich(x),
         When(f.volume >= 25, AtMost(2500, 50 * f.volume))
         + When(f.zscore >= 25, AtMost(2500, 50 * f.zscore)))

Activity(x, failed) ==
    When(Rich(x) /\ {"series", "volume_and_moves"} \cap failed = {},
         AtMost(100, stored[x].volume) + AtMost(100, stored[x].zscore))

TechnicalSetups(x) ==
    LET f      == stored[x]
        excess == f.return - BenchReturn
    IN When(Rich(x),
            When(f.above50 /\ excess >= 10, AtMost(2500, 1000 + 25 * excess))
            + When(f.below_high <= 2 /\ f.volume >= 13, AtMost(2500, 1200 + 25 * f.volume))
            + When(~f.above20 /\ f.above200 /\ f.below_high \in 5 .. 20,
                   AtMost(2500, 1200 + 50 * f.below_high)))

\* Members of a sector with a known return, and the upper median of those.
Members(sector) ==
    {x \in Universe : Rich(x) /\ stored[x].sector = sector}

Median(sector) ==
    LET n == Cardinality(Members(sector)) IN
    CHOOSE m \in {stored[x].return : x \in Members(sector)} :
        /\ Cardinality({x \in Members(sector) : stored[x].return < m}) <= n \div 2
        /\ Cardinality({x \in Members(sector) : stored[x].return <= m}) > n \div 2

Sectors == {stored[x].sector : x \in {y \in Universe : Series(y) = "full"}}

\* The three strongest sectors, if there is something to lead.
Leading(sector) ==
    /\ Cardinality(Sectors) >= 2
    /\ Cardinality({s \in Sectors : Median(s) > Median(sector)}) < 3
    /\ Median(sector) > 0

SectorLeadership(x) ==
    When(/\ Rich(x)
         /\ Leading(stored[x].sector)
         /\ stored[x].return > Median(stored[x].sector), 1000)

EarningsSurprises(x) ==
    When(stored[x].surprise >= 5, AtMost(3000, 1000 + 50 * stored[x].surprise))

EarningsRevisions(x) ==
    When(stored[x].beats >= 2, AtMost(2500, 1000 + 400 * stored[x].beats))

HighImpactNews(x) ==
    When(stored[x].keyword, 1500) + When(stored[x].headlines >= 5, 1000)

InsiderClusters(x) == When(stored[x].buyers >= 3 /\ stored[x].net_buying, 2000)

FreshFilings(x) == When(stored[x].filing, 1000)

PullbackFromHigh(x) ==
    When(stored[x].bars # "none" /\ stored[x].off_high \in 15 .. 45,
         AtMost(2500, 1000 + (1000 * stored[x].off_high) \div 30))

ElevatedShortInterest(x) ==
    When(stored[x].short >= 15, AtMost(2000, (1000 * stored[x].short) \div 15))

\* The only trigger that names symbols outside the universe.
FinvizScreen(x) == When(stored[x].finviz, 1500)

TrendAlignment(x) ==
    When(stored[x].theme >= 55, AtMost(1800, 600 + 25 * (stored[x].theme - 55)))

Known(x, score) == IF x \in Universe THEN score ELSE 0

\* In the order of the sweep.
Triggers ==
    <<"volume_and_moves", "technical_setups", "sector_leadership", "earnings_surprises",
      "earnings_revisions", "high_impact_news", "insider_clusters", "fresh_filings",
      "pullback_from_high", "elevated_short_interest", "finviz_screen", "trend_alignment">>

Score(x) ==
    [volume_and_moves        |-> VolumeAndMoves(x),
     technical_setups        |-> TechnicalSetups(x),
     sector_leadership       |-> SectorLeadership(x),
     earnings_surprises      |-> Known(x, EarningsSurprises(x)),
     earnings_revisions      |-> Known(x, EarningsRevisions(x)),
     high_impact_news        |-> Known(x, HighImpactNews(x)),
     insider_clusters        |-> Known(x, InsiderClusters(x)),
     fresh_filings           |-> Known(x, FreshFilings(x)),
     pullback_from_high      |-> Known(x, PullbackFromHigh(x)),
     elevated_short_interest |-> Known(x, ElevatedShortInterest(x)),
     finviz_screen           |-> FinvizScreen(x),
     trend_alignment         |-> Known(x, TrendAlignment(x))]

\* Mutant of Sound: a trigger that raises ends the loop.
SoundUpToFirst(t, failed) ==
    \A i, k \in DOMAIN Triggers : Triggers[i] = t /\ k <= i => Triggers[k] \notin failed

\* Each trigger has a try of its own; three of them see the bars that were
\* loaded for all.
Sound(t, failed) ==
    /\ t \notin failed
    /\ "series" \in failed => t \notin {"volume_and_moves", "technical_setups", "sector_leadership"}

\* The events of a symbol, and their sum.
Events(x, failed) ==
    LET score == Score(x) IN [t \in DOMAIN score |-> When(Sound(t, failed), score[t])]

Total(x, failed) == SumFunction(Events(x, failed))
-----------------------------------------------------------------------------
Place(x) == CHOOSE i \in DOMAIN Alphabet : Alphabet[i] = x

\* The totals and activities of all symbols at once.
Totals(failed)     == [x \in Symbols |-> Total(x, failed)]
Activities(failed) == [x \in Symbols |-> Activity(x, failed)]

\* Mutant of Before: ties break on the alphabet.
BeforeByName(total, activity, x, y) ==
    total[x] > total[y] \/ (total[x] = total[y] /\ Place(x) < Place(y))

Before(total, activity, x, y) ==
    \/ total[x] > total[y]
    \/ total[x] = total[y] /\ activity[x] > activity[y]
    \/ total[x] = total[y] /\ activity[x] = activity[y] /\ Place(x) < Place(y)

\* Prices in whole units; a floor of 5, and of 5 million a day.  No bars, no
\* objection.
PassesQualityGate(x, failed) ==
    \/ Series(x) = "none" \/ "series" \in failed
    \/ stored[x].price >= 5 /\ (Rich(x) => stored[x].adv >= 5)

\* The first n of S by an order, a set of pairs: each in the place that the
\* number of those before it gives.
Earlier(order, S, x) == {y \in S : <<y, x>> \in order}

Best(n, S, order) ==
    [k \in 1 .. Min({n, Cardinality(S)}) |->
        CHOOSE x \in S : Cardinality(Earlier(order, S, x)) = k - 1]

\* The symbols with an event, and the order of the ranking.
Scored(failed) == LET total == Totals(failed) IN {x \in Symbols : total[x] > 0}

Ranking(failed) ==
    LET total    == Totals(failed)
        activity == Activities(failed)
    IN  {p \in Symbols \X Symbols : Before(total, activity, p[1], p[2])}

\* Mutant of ListWith: the cap comes before the gate.
ListCappedFirst(failed) ==
    LET top    == Range(Best(MaxCandidates, Scored(failed), Ranking(failed)))
        passed == {x \in top : PassesQualityGate(x, failed)}
    IN  Best(Cardinality(passed), passed, Ranking(failed))

\* The ranking without those the gate drops, and of that the first.
ListWith(failed) ==
    Best(MaxCandidates, {x \in Scored(failed) : PassesQualityGate(x, failed)}, Ranking(failed))

Discover ==
    /\ candidates = <<"unset">>
    /\ candidates' = ListWith(broken)
    /\ UNCHANGED <<stored, broken, focus>>

\* technical_focus_set: relative strength and three moving averages.
Trend(x) ==
    LET vote(above, weight) == IF above THEN weight ELSE -weight IN
    IF Series(x) # "full" THEN 0
    ELSE stored[x].return - BenchReturn + vote(stored[x].above20, 3)
         + vote(stored[x].above50, 5) + vote(stored[x].above200, 8)

Stronger(x, y) == Trend(x) > Trend(y) \/ (Trend(x) = Trend(y) /\ Place(x) < Place(y))

FocusSet ==
    /\ focus = <<"unset">>
    /\ focus' = IF "series" \in broken THEN <<>>
                ELSE Best(FocusLimit,
                          {x \in Universe : Series(x) # "none" /\ PassesQualityGate(x, {})},
                          {p \in Universe \X Universe : Stronger(p[1], p[2])})
    /\ UNCHANGED <<stored, broken, candidates>>

SweepInit ==
    /\ stored \in [Symbols -> Facts]
    /\ broken \in {{}} \cup {{t} : t \in Failing}
    /\ candidates = <<"unset">>
    /\ focus = <<"unset">>

SweepNext == Discover \/ FocusSet

SweepSpec == SweepInit /\ [][SweepNext]_sweepVars
-----------------------------------------------------------------------------
Swept == candidates # <<"unset">>

(* The list is the best of what is tradeable (discovery.py:835-840): a     *)
(* scored name that is left off lost to a full list of names each of which *)
(* scored more, or as much with more activity, or as much with the same    *)
(* activity under an earlier name.  A penny name with a high score takes   *)
(* nobody's place.                                                         *)
CapKeepsBest ==
    Swept => \A x \in Symbols \ Range(candidates) :
        Total(x, broken) > 0 /\ PassesQualityGate(x, broken) =>
            /\ Len(candidates) = MaxCandidates
            /\ \A y \in Range(candidates) :
                  \/ Total(y, broken) > Total(x, broken)
                  \/ Total(y, broken) = Total(x, broken)
                     /\ \/ Activity(y, broken) > Activity(x, broken)
                        \/ /\ Activity(y, broken) = Activity(x, broken)
                           /\ Place(y) < Place(x)

(* A trigger that raises costs its own events only (discovery.py:803-830): *)
(* a name it does not score, and that a healthy sweep lists, is listed.    *)
FailureCostsOnlyItsEvents ==
    Swept /\ {"series", "volume_and_moves"} \cap broken = {} =>
        \A x \in Range(ListWith({})) :
            (\A t \in broken : Score(x)[t] = 0) => x \in Range(candidates)
=============================================================================
