----------------------------- MODULE Evaluation -----------------------------
(***************************************************************************)
(* What becomes of the BUY signals (sentinel/evaluation): every night the  *)
(* stored daily bars are walked from the day of a signal on, until its     *)
(* stop, its target or its horizon; the outcomes make the statistics of    *)
(* the strategies, and those the prior of the next signal's confidence.    *)
(*                                                                         *)
(* The bars are those that the other jobs have stored: of the universe and *)
(* the names discovered in the morning, of the names being scanned before  *)
(* the close, while the day's bar is still moving, of the universe after   *)
(* the close.  Each of these jobs may fail, or succeed and skip a symbol   *)
(* whose bars the provider does not deliver (ingest.py:84-86).             *)
(***************************************************************************)
EXTENDS Integers, Sequences, FiniteSets, FiniteSetsExt, SequencesExt

CONSTANTS Universe,   \* symbols whose bars are ingested every day
          Strangers,  \* symbols that a day's discovery may list
          Levels,     \* [entry, stop, target] of a signal
          DayBars,    \* [low, high, close]: the daily bars there may be
          Budget,     \* trading days of the horizon
          SweepDays,  \* trading days of bars that the morning's ingest asks for
          UpdateDays, \* and the ingests around the close
          Strategy,   \* Strategy[t]: the strategy that signals on t
          Regime,     \* Regime[d]: the market regime of day d
          MinResolved, Blend,  \* of the prior
          MaxDays,    \* bound: trading days
          MaxSignals  \* bound: signals

ASSUME EvaluationAssumption ==
    /\ MinResolved \in Nat /\ Blend \in Nat
    /\ Budget \in Nat \ {0}
    /\ SweepDays \in Nat \ {0} /\ UpdateDays \in Nat \ {0}
    /\ MaxDays \in Nat \ {0}
    /\ IsFiniteSet(DOMAIN Regime) /\ 1 .. MaxDays \subseteq DOMAIN Regime
    /\ "*" \notin Range(Regime)

VARIABLES day, phase,   \* the trading day, from 1, and what comes next in it
          market,       \* market[t]: the bars of the days that are over
          stored,       \* stored[t][d]: the stored bar of day d, or Missing
          listed,       \* the strangers on the day's candidate list
          signals,      \* the BUY signals
          evaluations,  \* [signal, outcome, exit, days]
          stats,        \* stats[g]: resolved and won signals of a group
          lost,         \* history: the last night's job failed
          unsettled,    \* history: <<t, d>> if no ingest has had t's bar of day d
                        \*   since that day was over
          misled        \* history: resolved while a bar of theirs was unsettled

vars == <<day, phase, market, stored, listed, signals, evaluations, stats,
          lost, unsettled, misled>>

Tickers == Universe \cup Strangers
Days    == 1 .. MaxDays
Missing == [low |-> 0, high |-> 0, close |-> 0]

ASSUME BarsAreBars == Missing \notin DayBars

Strategies == Range(Strategy)
Groups     == Strategies \X (Range(Regime) \cup {"*"})
-----------------------------------------------------------------------------
(* The fill model.                                                         *)
Touches(s, bar) == bar.low <= s.stop \/ bar.high >= s.target

\* The days from the signal's on with a stored bar; a day without is not counted.
BarsSince(s, bars) == {d \in s.day .. MaxDays : bars[d] # Missing}

HoldingDays(s, bars, d) == Cardinality({c \in BarsSince(s, bars) : c <= d})

Open == [outcome |-> "open", exit |-> 0, days |-> 0]

\* Mutants of Walk: the target is looked at first; the horizon lasts a day too long.
WalkTargetFirst(s, bars) ==
    LET held(d) == HoldingDays(s, bars, d)
        ends    == {d \in BarsSince(s, bars) : Touches(s, bars[d]) \/ held(d) >= Budget}
        last    == Min(ends)
    IN  IF ends = {} THEN Open
        ELSE IF bars[last].high >= s.target
             THEN [outcome |-> "target_hit", exit |-> s.target, days |-> held(last)]
        ELSE IF bars[last].low <= s.stop
             THEN [outcome |-> "stop_hit", exit |-> s.stop, days |-> held(last)]
        ELSE [outcome |-> "expired", exit |-> bars[last].close, days |-> held(last)]

WalkTooLong(s, bars) ==
    LET held(d) == HoldingDays(s, bars, d)
        ends    == {d \in BarsSince(s, bars) : Touches(s, bars[d]) \/ held(d) > Budget}
        last    == Min(ends)
    IN  IF ends = {} THEN Open
        ELSE IF bars[last].low <= s.stop
             THEN [outcome |-> "stop_hit", exit |-> s.stop, days |-> held(last)]
        ELSE IF bars[last].high >= s.target
             THEN [outcome |-> "target_hit", exit |-> s.target, days |-> held(last)]
        ELSE [outcome |-> "expired", exit |-> bars[last].close, days |-> held(last)]

Walk(s, bars) ==
    LET held(d) == HoldingDays(s, bars, d)
        ends    == {d \in BarsSince(s, bars) : Touches(s, bars[d]) \/ held(d) >= Budget}
        last    == Min(ends)
    IN  IF ends = {} THEN Open
        ELSE IF bars[last].low <= s.stop
             THEN [outcome |-> "stop_hit", exit |-> s.stop, days |-> held(last)]
        ELSE IF bars[last].high >= s.target
             THEN [outcome |-> "target_hit", exit |-> s.target, days |-> held(last)]
        ELSE [outcome |-> "expired", exit |-> bars[last].close, days |-> held(last)]

Resolved(evals) == {e.signal : e \in evals}

\* Mutant of Unresolved: resolved signals are walked again.
UnresolvedAny == signals

Unresolved == signals \ Resolved(evaluations)

Evaluate(s) ==
    LET walk == Walk(s, stored[s.ticker]) IN
    [signal |-> s, outcome |-> walk.outcome, exit |-> walk.exit, days |-> walk.days]

Won(e) == e.exit > e.signal.entry
-----------------------------------------------------------------------------
(* Statistics: a row for each strategy and regime, one for all regimes.    *)
Members(g, evals) ==
    {e \in evals : /\ Strategy[e.signal.ticker] = g[1]
                   /\ g[2] \in {"*", Regime[e.signal.day]}}

Recompute(evals) ==
    [g \in Groups |-> [resolved |-> Cardinality(Members(g, evals)),
                       wins |-> Cardinality({e \in Members(g, evals) : Won(e)})]]

Neutral == [num |-> 1, den |-> 2]

\* A hit rate drawn towards one half by Blend pseudo-observations.
Blended(row) == [num |-> 2 * row.wins + Blend, den |-> 2 * (row.resolved + Blend)]

\* Mutant of HitRate: the rollup's rate for any strategy that has a row.
HitRateUntested(strategy, regime) ==
    LET mature == {g \in {<<strategy, regime>>, <<strategy, "*">>} : stats[g].resolved > 0}
    IN IF <<strategy, regime>> \in mature THEN Blended(stats[<<strategy, regime>>])
       ELSE IF mature # {} THEN Blended(stats[<<strategy, "*">>])
       ELSE Neutral

\* The prior: of the regime, else of all regimes, else neutral.
HitRate(strategy, regime) ==
    LET mature == {g \in {<<strategy, regime>>, <<strategy, "*">>} :
                      stats[g].resolved >= MinResolved}
    IN IF <<strategy, regime>> \in mature THEN Blended(stats[<<strategy, regime>>])
       ELSE IF mature # {} THEN Blended(stats[<<strategy, "*">>])
       ELSE Neutral
-----------------------------------------------------------------------------
Then(next) == phase' = next

\* The bars of t with those of the days from d on that are over, as they are.
Refreshed(bars, closed, d) ==
    [c \in Days |-> IF c \in d .. Len(closed) THEN closed[c] ELSE bars[c]]

\* What is unsettled still once the bars of T from day d on are refreshed.
Settle(pairs, T, d) == {p \in pairs : ~(p[1] \in T /\ p[2] >= d)}

\* The first of the last n days.
Since(n) == day - n + 1

\* The pre-market sweep: a list of what it discovers, and bars of the universe
\* and of the list as far as they are delivered.  A part of it that fails
\* leaves the list as it was, or delivers nothing.
Premarket ==
    /\ phase = "premarket"
    /\ Then("session")
    /\ \E found \in SUBSET Strangers : \E got \in SUBSET (Universe \cup found) :
          /\ listed' = found
          /\ stored' = [t \in Tickers |->
                 IF t \in got THEN Refreshed(stored[t], market[t], Since(SweepDays)) ELSE stored[t]]
          /\ unsettled' = Settle(unsettled, got, Since(SweepDays))
    /\ UNCHANGED <<day, market, signals, evaluations, stats, lost, misled>>

\* A scan of the day buys a name it looks at.
Signal ==
    /\ phase = "session"
    /\ Cardinality(signals) < MaxSignals
    /\ \E t \in Universe \cup listed, l \in Levels :
          signals' = signals \cup {[ticker |-> t, day |-> day, entry |-> l.entry,
                                    stop |-> l.stop, target |-> l.target]}
    /\ UNCHANGED <<day, phase, market, stored, listed, evaluations, stats, lost, unsettled, misled>>

Within(early, late) ==
    early.low >= late.low /\ early.high <= late.high

\* Before the close the day's bar is stored as it stands, for the names being
\* scanned; then the day ends, and the bars of the universe are stored as they
\* are: in both cases as far as they are delivered.
Close ==
    /\ phase = "session"
    /\ Then("night")
    /\ \E ended \in [Tickers -> DayBars], scanned \in SUBSET (Universe \cup listed),
         got \in SUBSET Universe :
       \E early \in [scanned -> DayBars] :
          /\ \A t \in scanned : Within(early[t], ended[t])
          /\ market' = [t \in Tickers |-> Append(market[t], ended[t])]
          /\ LET asOfClose(t) ==
                     IF t \notin scanned THEN stored[t]
                     ELSE [Refreshed(stored[t], market[t], Since(UpdateDays)) EXCEPT ![day] = early[t]]
             IN  stored' = [t \in Tickers |->
                     IF t \in got THEN Refreshed(asOfClose(t), market'[t], Since(UpdateDays))
                     ELSE asOfClose(t)]
          /\ unsettled' = Settle(Settle(unsettled, scanned, Since(UpdateDays)) \cup (Tickers \X {day}),
                                 got, Since(UpdateDays))
    /\ UNCHANGED <<day, listed, signals, evaluations, stats, lost, misled>>

LastDay(s) == s.day + Budget - 1

\* Whether a bar of the signal's horizon is unsettled.
Awaits(s) == \E d \in s.day .. LastDay(s) : <<s.ticker, d>> \in unsettled

\* Mutant of Nightly: the statistics come before the resolutions.
NightlyStatsFirst ==
    /\ phase = "night"
    /\ \/ LET new == {e \in {Evaluate(s) : s \in Unresolved} : e.outcome # "open"} IN
          /\ evaluations' = evaluations \cup new
          /\ stats' = Recompute(evaluations)
          /\ misled' = misled \cup {e.signal : e \in {f \in new : Awaits(f.signal)}}
          /\ lost' = FALSE
       \/ lost' = TRUE /\ UNCHANGED <<evaluations, stats, misled>>
    /\ IF day < MaxDays THEN Then("premarket") /\ day' = day + 1
       ELSE Then("over") /\ UNCHANGED day
    /\ UNCHANGED <<market, stored, listed, signals, unsettled>>

\* run_nightly, in one transaction.
Nightly ==
    /\ phase = "night"
    /\ \/ LET new == {e \in {Evaluate(s) : s \in Unresolved} : e.outcome # "open"} IN
          /\ evaluations' = evaluations \cup new
          /\ stats' = Recompute(evaluations')
          /\ misled' = misled \cup {e.signal : e \in {f \in new : Awaits(f.signal)}}
          /\ lost' = FALSE
       \/ lost' = TRUE /\ UNCHANGED <<evaluations, stats, misled>>
    /\ IF day < MaxDays THEN Then("premarket") /\ day' = day + 1
       ELSE Then("over") /\ UNCHANGED day
    /\ UNCHANGED <<market, stored, listed, signals, unsettled>>

Init ==
    /\ day = 1
    /\ phase = "premarket"
    /\ market = [t \in Tickers |-> <<>>]
    /\ stored = [t \in Tickers |-> [d \in Days |-> Missing]]
    /\ listed = {}
    /\ signals = {}
    /\ evaluations = {}
    /\ stats = Recompute({})
    /\ lost = FALSE
    /\ unsettled = {}
    /\ misled = {}

Next == Premarket \/ Signal \/ Close \/ Nightly

Spec == Init /\ [][Next]_vars
-----------------------------------------------------------------------------
(* A signal resolves exactly once (models.py:274-276), and for good, also  *)
(* when a bar it rested on is corrected later.                             *)
ResolvedOnce ==
    Cardinality(evaluations) = Cardinality(Resolved(evaluations))

(* The first day of the horizon that touches a level decides, the stop if *)
(* it touches both, else the last close (resolve.py:9-13).                 *)
Decided(e) ==
    LET s    == e.signal
        bar  == market[s.ticker]
        over == s.day .. Min({Len(bar), LastDay(s)})
        hits == {d \in over : bar[d].low <= s.stop \/ bar[d].high >= s.target}
    IN  /\ hits # {} =>
              /\ e.days = Min(hits) - s.day + 1
              /\ e.outcome = "stop_hit" <=> bar[Min(hits)].low <= s.stop
        /\ hits = {} => e.outcome = "expired" /\ e.exit = bar[LastDay(s)].close

(* The outcome is what the market did.  Only while a bar of the horizon    *)
(* has not been ingested since its day was over can a night decide         *)
(* otherwise: the night of a stranger's day, or of a day whose bar the     *)
(* provider or the job did not deliver.                                    *)
OutcomeIsTheMarkets ==
    \A e \in evaluations : e.signal \in misled \/ Decided(e)

(* No signal outlives its horizon: a night that runs leaves none without   *)
(* an outcome whose horizon is over and whose bars have all been ingested, *)
(* however many nights and bars were lost before.                          *)
ResolvedInTime ==
    phase \in {"premarket", "over"} /\ ~lost =>
        \A s \in signals :
            Len(market[s.ticker]) >= LastDay(s) /\ ~Awaits(s) => s \in Resolved(evaluations)

(* The statistics are those of the outcomes on record, in every committed  *)
(* state: the row of all regimes is the sum of the others.                 *)
StatsCurrent ==
    \A strategy \in Strategies :
        LET rows == {<<strategy, r>> : r \in Range(Regime)}
            all  == stats[<<strategy, "*">>]
        IN  /\ all.resolved = SumFunction([g \in rows |-> stats[g].resolved])
            /\ all.wins = SumFunction([g \in rows |-> stats[g].wins])
            /\ all.resolved = Cardinality({e \in evaluations :
                                              Strategy[e.signal.ticker] = strategy})

(* "a lucky early streak can't inflate confidence" (priors.py:5-6): a      *)
(* prior other than neutral rests on enough outcomes, and is nearer to one *)
(* half than the rate it stands for.                                       *)
PriorIsEarned ==
    \A strategy \in Strategies, regime \in Range(Regime) :
        LET prior == HitRate(strategy, regime)
            known == {e \in evaluations : Strategy[e.signal.ticker] = strategy}
            lift  == 2 * prior.num - prior.den
        IN  /\ lift # 0 => Cardinality(known) >= MinResolved
            /\ (\A e \in known : ~Won(e)) => lift <= 0
            /\ Cardinality(known) < Blend => 2 * lift < prior.den
=============================================================================
