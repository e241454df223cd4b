-------------------------- MODULE EvaluationProofs --------------------------
(***************************************************************************)
(* Proofs about Evaluation, for any symbols, bars, horizon, strategies,    *)
(* regimes and thresholds, any number of days and signals, and any bars    *)
(* and nights lost.  The night only walks signals without an outcome, and  *)
(* rebuilds the statistics in the transaction that records the outcomes.   *)
(***************************************************************************)
EXTENDS Evaluation, SumTheorems, FunctionTheorems, TLAPS

OneOutcomeEach == \A e, f \in evaluations : e.signal = f.signal => e = f

OnRecord == IsFiniteSet(evaluations) /\ OneOutcomeEach

EvaluationInv ==
    /\ IsFiniteSet(signals)
    /\ OnRecord
    /\ stats = Recompute(evaluations)

-----------------------------------------------------------------------------
(* A walk of finitely many signals has finitely many outcomes. *)
LEMMA OutcomesFinite ==
    ASSUME NEW S, IsFiniteSet(S), NEW P, P \subseteq {Evaluate(s) : s \in S}
    PROVE  IsFiniteSet(P)
<1> DEFINE walked == [s \in S |-> Evaluate(s)]
           T == {Evaluate(s) : s \in S}
<1>1. walked \in Surjection(S, T)
  <2>1. walked \in [S -> T]
    OBVIOUS
  <2>2. \A t \in T : \E s \in S : walked[s] = t
    OBVIOUS
  <2> QED BY <2>1, <2>2 DEF Surjection
<1>2. IsFiniteSet(T)
  BY <1>1, FS_Surjection
<1> QED BY <1>2, FS_Subset

(* An outcome knows its signal. *)
LEMMA EvaluateKeepsSignal ==
    ASSUME NEW s
    PROVE  Evaluate(s).signal = s
BY DEF Evaluate

(* The night adds one outcome to signals that have none. *)
LEMMA NightlyRecordsOnce ==
    ASSUME EvaluationInv, Nightly
    PROVE  /\ OnRecord'
           /\ stats' = Recompute(evaluations')
<1> DEFINE all == {Evaluate(s) : s \in Unresolved}
           new == {e \in all : e.outcome # "open"}
<1>1. CASE evaluations' = evaluations \cup new /\ stats' = Recompute(evaluations')
  <2>1. IsFiniteSet(Unresolved)
    BY FS_Difference DEF EvaluationInv, Unresolved
  <2>2. IsFiniteSet(new)
    BY <2>1, OutcomesFinite
  <2>3. IsFiniteSet(evaluations')
    BY <1>1, <2>2, FS_Union DEF EvaluationInv, OnRecord
  <2>4. \A e \in new : e = Evaluate(e.signal) /\ e.signal \in Unresolved
    BY EvaluateKeepsSignal
  <2>5. \A e \in evaluations : e.signal \notin Unresolved
    BY DEF Unresolved, Resolved
  <2>6. \A e, f \in evaluations \cup new : e.signal = f.signal => e = f
    <3> HIDE DEF new
    <3> QED BY <2>4, <2>5 DEF EvaluationInv, OnRecord, OneOutcomeEach
  <2>7. OneOutcomeEach'
    <3> HIDE DEF new
    <3> QED BY <1>1, <2>6 DEF OneOutcomeEach
  <2> QED BY <1>1, <2>3, <2>7 DEF OnRecord
<1>2. CASE UNCHANGED <<evaluations, stats>>
  BY <1>2 DEF EvaluationInv, OnRecord, OneOutcomeEach, Recompute, Members, Won
<1> QED BY <1>1, <1>2 DEF Nightly

(* The scans add a signal at a time; nothing else adds any. *)
LEMMA SignalsStayFinite ==
    ASSUME EvaluationInv, [Next]_vars
    PROVE  IsFiniteSet(signals)'
<1>1. CASE Signal
  <2>1. PICK s : signals' = signals \cup {s}
    BY <1>1 DEF Signal
  <2> QED BY <2>1, FS_AddElement DEF EvaluationInv
<1>2. CASE UNCHANGED signals
  BY <1>2 DEF EvaluationInv
<1> QED BY <1>1, <1>2 DEF Next, Premarket, Close, Nightly, vars

LEMMA InitEstablishes == Init => EvaluationInv
BY FS_EmptySet DEF Init, EvaluationInv, OnRecord, OneOutcomeEach

LEMMA NextPreserves == EvaluationInv /\ [Next]_vars => EvaluationInv'
<1> SUFFICES ASSUME EvaluationInv, [Next]_vars PROVE EvaluationInv'
  OBVIOUS
<1>1. CASE Nightly
  BY <1>1, NightlyRecordsOnce, SignalsStayFinite
     DEF EvaluationInv, Recompute, Members, Won
<1>2. CASE UNCHANGED <<evaluations, stats>>
  BY <1>2, SignalsStayFinite
     DEF EvaluationInv, OnRecord, OneOutcomeEach, Recompute, Members, Won
<1> QED BY <1>1, <1>2 DEF Next, Premarket, Signal, Close, vars

(* The invariant of the nights. *)
THEOREM EvaluationInvariant == Spec => []EvaluationInv
<1> QED BY InitEstablishes, NextPreserves, PTL DEF Spec

-----------------------------------------------------------------------------
(* As many outcomes as signals that have one. *)
LEMMA OneOutcomePerSignal == EvaluationInv => ResolvedOnce
<1> SUFFICES ASSUME EvaluationInv PROVE ResolvedOnce
  OBVIOUS
<1> DEFINE signalOf == [e \in evaluations |-> e.signal]
<1>1. signalOf \in [evaluations -> Resolved(evaluations)]
  BY DEF Resolved
<1>2. signalOf \in Injection(evaluations, Resolved(evaluations))
  BY <1>1 DEF Injection, IsInjective, EvaluationInv, OnRecord, OneOutcomeEach
<1>3. signalOf \in Surjection(evaluations, Resolved(evaluations))
  BY <1>1 DEF Surjection, Resolved
<1>4. ExistsBijection(evaluations, Resolved(evaluations))
  BY <1>2, <1>3 DEF ExistsBijection, Bijection
<1> QED BY <1>4, FS_Bijection DEF EvaluationInv, OnRecord, ResolvedOnce

(* A signal resolves exactly once (models.py:274-276): a night walks only  *)
(* the signals that have no outcome, whatever the bars have become.        *)
THEOREM OneResolution == Spec => []ResolvedOnce
<1> QED BY EvaluationInvariant, OneOutcomePerSignal, PTL

-----------------------------------------------------------------------------
KnownOf(strategy) == {e \in evaluations : Strategy[e.signal.ticker] = strategy}

(* The row of a regime counts some of the strategy's outcomes, and the row *)
(* of all regimes all of them; no row has more wins than outcomes.         *)
LEMMA RowsCount ==
    ASSUME EvaluationInv, NEW strategy \in Strategies,
           NEW regime \in Range(Regime) \cup {"*"}
    PROVE  LET row == stats[<<strategy, regime>>] IN
           /\ row.resolved \in Nat /\ row.wins \in Nat
           /\ Cardinality(KnownOf(strategy)) \in Nat
           /\ row.wins <= row.resolved
           /\ row.resolved <= Cardinality(KnownOf(strategy))
           /\ (\A e \in KnownOf(strategy) : ~Won(e)) => row.wins = 0
<1> DEFINE g == <<strategy, regime>>
           members == Members(g, evaluations)
           won == {e \in members : Won(e)}
<1>1. g \in Groups
  BY DEF Groups
<1>2. stats[g] = [resolved |-> Cardinality(members), wins |-> Cardinality(won)]
  BY <1>1 DEF EvaluationInv, Recompute
<1>3. stats[g].resolved = Cardinality(members) /\ stats[g].wins = Cardinality(won)
  BY <1>2
<1>4. members \subseteq KnownOf(strategy) /\ won \subseteq members
  BY DEF Members, KnownOf
<1>5. IsFiniteSet(KnownOf(strategy))
  BY FS_Subset DEF KnownOf, EvaluationInv, OnRecord
<1>6. /\ IsFiniteSet(members)
      /\ Cardinality(members) <= Cardinality(KnownOf(strategy))
  BY <1>4, <1>5, FS_Subset
<1>7. IsFiniteSet(won) /\ Cardinality(won) <= Cardinality(members)
  BY <1>4, <1>6, FS_Subset
<1>8. /\ Cardinality(KnownOf(strategy)) \in Nat
      /\ Cardinality(members) \in Nat
      /\ Cardinality(won) \in Nat
  BY <1>5, <1>6, <1>7, FS_CardinalityType
<1>9. (\A e \in KnownOf(strategy) : ~Won(e)) => Cardinality(won) = 0
  <2>1. (\A e \in KnownOf(strategy) : ~Won(e)) => won = {}
    BY <1>4
  <2> QED BY <2>1, FS_EmptySet
<1> HIDE DEF g, members, won
<1> QED BY <1>3, <1>6, <1>7, <1>8, <1>9 DEF g

\* What a prior promises, given how many outcomes of its strategy are known.
Earned(prior, known, noneWon) ==
    LET lift == 2 * prior.num - prior.den
    IN  /\ lift # 0 => known >= MinResolved
        /\ noneWon => lift <= 0
        /\ known < Blend => 2 * lift < prior.den

(* A neutral prior promises nothing; a mature row's is drawn to one half.  *)
LEMMA NeutralIsEarned ==
    ASSUME NEW known \in Nat, NEW noneWon \in BOOLEAN
    PROVE  Earned(Neutral, known, noneWon)
<1>1. Neutral.num = 1 /\ Neutral.den = 2
  BY DEF Neutral
<1> QED BY <1>1 DEF Earned

LEMMA BlendedIsEarned ==
    ASSUME NEW row, row.resolved \in Nat, row.wins \in Nat, row.wins <= row.resolved,
           NEW known \in Nat, row.resolved <= known, MinResolved <= row.resolved,
           NEW noneWon \in BOOLEAN, noneWon => row.wins = 0
    PROVE  Earned(Blended(row), known, noneWon)
<1> DEFINE r == row.resolved
           w == row.wins
<1>1. /\ Blended(row).num = 2 * w + Blend
      /\ Blended(row).den = 2 * (r + Blend)
  BY DEF Blended
<1>2. r \in Nat /\ w \in Nat /\ w <= r /\ r <= known /\ MinResolved <= r
      /\ Blend \in Nat /\ MinResolved \in Nat
  BY EvaluationAssumption
<1>3. noneWon => w = 0
  OBVIOUS
<1> HIDE DEF r, w
<1>4. 2 * (2 * w + Blend) - 2 * (r + Blend) = 4 * w - 2 * r
  BY <1>2
<1>5. 4 * w - 2 * r # 0 => known >= MinResolved
  BY <1>2
<1>6. noneWon => 4 * w - 2 * r <= 0
  BY <1>2, <1>3
<1>7. known < Blend => 2 * (4 * w - 2 * r) < 2 * (r + Blend)
  BY <1>2
<1> QED BY <1>1, <1>4, <1>5, <1>6, <1>7 DEF Earned

(* The statistics on record make priors that are earned. *)
LEMMA PriorsAreEarned == EvaluationInv => PriorIsEarned
<1> SUFFICES ASSUME EvaluationInv, NEW strategy \in Strategies,
                    NEW regime \in Range(Regime)
             PROVE  LET prior == HitRate(strategy, regime)
                        known == {e \in evaluations : Strategy[e.signal.ticker] = strategy}
                        lift  == 2 * prior.num - prior.den
                    IN  /\ lift # 0 => Cardinality(known) >= MinResolved
                        /\ (\A e \in known : ~Won(e)) => lift <= 0
                        /\ Cardinality(known) < Blend => 2 * lift < prior.den
  BY DEF PriorIsEarned
<1> DEFINE known == KnownOf(strategy)
           noneWon == \A e \in known : ~Won(e)
           own == <<strategy, regime>>
           rollup == <<strategy, "*">>
           mature == {g \in {own, rollup} : stats[g].resolved >= MinResolved}
<1>1. noneWon \in BOOLEAN
  OBVIOUS
<1>2. Cardinality(known) \in Nat
  BY RowsCount
<1>3. ASSUME own \in mature
      PROVE  Earned(Blended(stats[own]), Cardinality(known), noneWon)
  <2>1. stats[own].resolved >= MinResolved
    BY <1>3
  <2> QED BY <1>1, <1>2, <2>1, RowsCount, BlendedIsEarned, EvaluationAssumption
<1>4. ASSUME rollup \in mature
      PROVE  Earned(Blended(stats[rollup]), Cardinality(known), noneWon)
  <2>1. stats[rollup].resolved >= MinResolved
    BY <1>4
  <2> QED BY <1>1, <1>2, <2>1, RowsCount, BlendedIsEarned, EvaluationAssumption
<1>5. Earned(HitRate(strategy, regime), Cardinality(known), noneWon)
  <2>1. CASE own \in mature
    BY <1>3, <2>1 DEF HitRate
  <2>2. CASE own \notin mature /\ mature # {}
    <3>1. rollup \in mature
      BY <2>2
    <3> QED BY <1>4, <2>2, <3>1 DEF HitRate
  <2>3. CASE mature = {}
    BY <1>1, <1>2, <2>3, NeutralIsEarned DEF HitRate
  <2> QED BY <2>1, <2>2, <2>3
<1> QED BY <1>5 DEF Earned, KnownOf

(* "a lucky early streak can't inflate confidence" (priors.py:5-6): in     *)
(* every state a prior other than neutral rests on MinResolved outcomes,   *)
(* losses never lift it, and few outcomes lift it little.                  *)
THEOREM PriorsStayEarned == Spec => []PriorIsEarned
<1> QED BY EvaluationInvariant, PriorsAreEarned, PTL

-----------------------------------------------------------------------------
LEMMA RegimesFinite == IsFiniteSet(Range(Regime))
<1>1. IsFiniteSet(DOMAIN Regime)
  BY EvaluationAssumption
<1>2. [d \in DOMAIN Regime |-> Regime[d]] \in Surjection(DOMAIN Regime, Range(Regime))
  BY DEF Surjection, Range
<1> QED BY <1>1, <1>2, FS_Surjection

\* The days that are over.
Closed == IF phase \in {"night", "over"} THEN day ELSE day - 1

EvaluationTypes ==
    /\ day \in Days
    /\ phase \in {"premarket", "session", "night", "over"}
    /\ market = [t \in Tickers |-> market[t]]
    /\ \A t \in Tickers : market[t] \in Seq(DayBars) /\ Len(market[t]) = Closed
    /\ stored = [t \in Tickers |-> stored[t]]
    /\ \A t \in Tickers : stored[t] = [d \in Days |-> stored[t][d]]
    /\ \A t \in Tickers, d \in Days : d > Closed => stored[t][d] = Missing
    /\ listed \subseteq Strangers
    /\ \A s \in signals : s.ticker \in Tickers /\ s.day \in 1 .. day
    /\ \A e \in evaluations : e.signal \in signals

LEMMA TypesStart == Init => EvaluationTypes
<1> SUFFICES ASSUME Init PROVE EvaluationTypes
  OBVIOUS
<1>1. day \in Days /\ Closed = 0
  BY EvaluationAssumption DEF Init, Closed, Days
<1> QED BY <1>1 DEF Init, EvaluationTypes, Days

\* What a refresh makes of each bar.
LEMMA RefreshedBars ==
    ASSUME NEW bars, NEW closed, NEW d, Len(closed) \in Nat, d \in Int
    PROVE  /\ Refreshed(bars, closed, d) = [c \in Days |-> Refreshed(bars, closed, d)[c]]
           /\ \A c \in Days :
                 /\ d <= c /\ c <= Len(closed) => Refreshed(bars, closed, d)[c] = closed[c]
                 /\ ~(d <= c /\ c <= Len(closed)) => Refreshed(bars, closed, d)[c] = bars[c]
<1>1. \A c \in Days : c \in d .. Len(closed) <=> d <= c /\ c <= Len(closed)
  BY EvaluationAssumption DEF Days
<1> QED BY <1>1 DEF Refreshed

LEMMA TypesStep == EvaluationTypes /\ [Next]_vars => EvaluationTypes'
<1> SUFFICES ASSUME EvaluationTypes, [Next]_vars PROVE EvaluationTypes'
  OBVIOUS
<1>1. \A d \in Days : d \in Nat \ {0} /\ d <= MaxDays
  BY EvaluationAssumption DEF Days
<1>2. /\ day \in Nat \ {0} /\ Since(SweepDays) \in Int /\ Since(UpdateDays) \in Int
      /\ Closed \in Nat /\ Closed <= day
      /\ \A t \in Tickers : Len(market[t]) = Closed
  BY <1>1, EvaluationAssumption DEF EvaluationTypes, Since, Closed
<1>3. CASE Premarket
  <2>1. /\ phase = "premarket" /\ phase' = "session"
        /\ UNCHANGED <<day, market, signals, evaluations>>
    BY <1>3 DEF Premarket, Then
  <2>2. Closed' = Closed
    BY <2>1 DEF Closed
  <2>3. listed' \subseteq Strangers
    BY <1>3 DEF Premarket
  <2>4. /\ stored' = [t \in Tickers |-> stored'[t]]
        /\ \A t \in Tickers : \/ stored'[t] = Refreshed(stored[t], market[t], Since(SweepDays))
                              \/ stored'[t] = stored[t]
    BY <1>3 DEF Premarket
  <2>5. ASSUME NEW t \in Tickers
        PROVE  /\ stored'[t] = [d \in Days |-> stored'[t][d]]
               /\ \A d \in Days : d > Closed => stored'[t][d] = Missing
    <3>1. CASE stored'[t] = stored[t]
      BY <3>1 DEF EvaluationTypes
    <3>2. CASE stored'[t] = Refreshed(stored[t], market[t], Since(SweepDays))
      <4>1. \A d \in Days : d > Closed => ~(d <= Len(market[t]))
        BY <1>1, <1>2
      <4>2. Len(market[t]) \in Nat
        BY <1>2
      <4>3. /\ stored'[t] = [d \in Days |-> stored'[t][d]]
            /\ \A d \in Days : ~(d <= Len(market[t])) => stored'[t][d] = stored[t][d]
        BY <1>2, <3>2, <4>2, RefreshedBars
      <4> QED BY <1>2, <4>1, <4>3 DEF EvaluationTypes
    <3> QED BY <2>4, <3>1, <3>2
  <2> QED BY <2>1, <2>2, <2>3, <2>4, <2>5 DEF EvaluationTypes
<1>4. CASE Signal
  <2>1. UNCHANGED <<day, phase, market, stored, listed, evaluations>> /\ Closed' = Closed
    BY <1>4 DEF Signal, Closed
  <2>2. PICK t \in Universe \cup listed, l \in Levels :
            signals' = signals \cup {[ticker |-> t, day |-> day, entry |-> l.entry,
                                      stop |-> l.stop, target |-> l.target]}
    BY <1>4 DEF Signal
  <2>3. t \in Tickers
    BY <2>2 DEF EvaluationTypes, Tickers
  <2>4. \A s \in signals' : s.ticker \in Tickers /\ s.day \in 1 .. day
    BY <1>1, <2>2, <2>3 DEF EvaluationTypes
  <2> QED BY <2>1, <2>2, <2>4 DEF EvaluationTypes
<1>5. CASE Close
  <2>1. /\ phase = "session" /\ phase' = "night"
        /\ UNCHANGED <<day, listed, signals, evaluations>>
    BY <1>5 DEF Close, Then
  <2>2. Closed = day - 1 /\ Closed' = day
    BY <2>1 DEF Closed
  <2>3. PICK ended \in [Tickers -> DayBars] :
            market' = [t \in Tickers |-> Append(market[t], ended[t])]
    BY <1>5 DEF Close
  <2>4. /\ stored' = [t \in Tickers |-> stored'[t]]
        /\ \A t \in Tickers : \E asOfClose :
              /\ \/ asOfClose = stored[t]
                 \/ \E bar : asOfClose =
                       [Refreshed(stored[t], market[t], Since(UpdateDays)) EXCEPT ![day] = bar]
              /\ \/ stored'[t] = asOfClose
                 \/ stored'[t] = Refreshed(asOfClose, market'[t], Since(UpdateDays))
    BY <1>5 DEF Close
  <2>5. ASSUME NEW t \in Tickers
        PROVE  /\ market'[t] \in Seq(DayBars) /\ Len(market'[t]) = day
               /\ stored'[t] = [d \in Days |-> stored'[t][d]]
               /\ \A d \in Days : d > day => stored'[t][d] = Missing
    <3>1. market[t] \in Seq(DayBars) /\ Len(market[t]) = day - 1 /\ ended[t] \in DayBars
      BY <2>2 DEF EvaluationTypes
    <3>2. market'[t] \in Seq(DayBars) /\ Len(market'[t]) = day
      BY <1>2, <2>3, <3>1
    <3>3. PICK asOfClose :
              /\ \/ asOfClose = stored[t]
                 \/ \E bar : asOfClose =
                       [Refreshed(stored[t], market[t], Since(UpdateDays)) EXCEPT ![day] = bar]
              /\ \/ stored'[t] = asOfClose
                 \/ stored'[t] = Refreshed(asOfClose, market'[t], Since(UpdateDays))
      BY <2>4
    <3>4. /\ stored[t] = [d \in Days |-> stored[t][d]]
          /\ \A d \in Days : d > day => stored[t][d] = Missing
      BY <1>1, <1>2, <2>2 DEF EvaluationTypes
    <3>5. \A d \in Days : d > day => /\ d # day /\ ~(d <= Len(market[t])) /\ ~(d <= Len(market'[t]))
      BY <1>1, <1>2, <3>1, <3>2
    <3>6. /\ asOfClose = [d \in Days |-> asOfClose[d]]
          /\ \A d \in Days : d > day => asOfClose[d] = Missing
      <4>1. ASSUME NEW bar, asOfClose =
                       [Refreshed(stored[t], market[t], Since(UpdateDays)) EXCEPT ![day] = bar]
            PROVE  /\ asOfClose = [d \in Days |-> asOfClose[d]]
                   /\ \A d \in Days : d > day => asOfClose[d] = Missing
        <5> DEFINE fresh == Refreshed(stored[t], market[t], Since(UpdateDays))
        <5>1. Len(market[t]) \in Nat
          BY <1>2, <3>1
        <5>2. /\ fresh = [d \in Days |-> fresh[d]]
              /\ \A d \in Days : d > day => fresh[d] = Missing
          <6>1. /\ fresh = [d \in Days |-> fresh[d]]
                /\ \A d \in Days : ~(d <= Len(market[t])) => fresh[d] = stored[t][d]
            BY <1>2, <5>1, RefreshedBars
          <6> HIDE DEF fresh
          <6> QED BY <3>4, <3>5, <6>1
        <5>3. asOfClose = [d \in Days |-> IF d = day THEN bar ELSE fresh[d]]
          <6> HIDE DEF fresh
          <6>1. asOfClose = [fresh EXCEPT ![day] = bar]
            BY <4>1 DEF fresh
          <6> QED BY <5>2, <6>1
        <5> HIDE DEF fresh
        <5> QED BY <3>5, <5>2, <5>3
      <4> QED BY <3>3, <3>4, <4>1
    <3>7. CASE stored'[t] = Refreshed(asOfClose, market'[t], Since(UpdateDays))
      <4>1. Len(market'[t]) \in Nat
        BY <1>2, <3>2
      <4>2. /\ stored'[t] = [d \in Days |-> stored'[t][d]]
            /\ \A d \in Days : ~(d <= Len(market'[t])) => stored'[t][d] = asOfClose[d]
        BY <1>2, <3>7, <4>1, RefreshedBars
      <4> QED BY <3>2, <3>5, <3>6, <4>2
    <3> QED BY <3>2, <3>3, <3>6, <3>7
  <2>6. market' = [t \in Tickers |-> market'[t]]
    BY <2>3
  <2> QED BY <2>1, <2>2, <2>4, <2>5, <2>6 DEF EvaluationTypes
<1>6. CASE Nightly
  <2>1. /\ phase = "night" /\ UNCHANGED <<market, stored, listed, signals>>
        /\ IF day < MaxDays THEN phase' = "premarket" /\ day' = day + 1
           ELSE phase' = "over" /\ day' = day
    BY <1>6 DEF Nightly, Then
  <2>2. Closed' = Closed /\ day' \in Days /\ day <= day'
    <3>1. day \in Nat \ {0} /\ day <= MaxDays /\ MaxDays \in Nat \ {0} /\ Closed = day
      BY <1>1, <2>1, EvaluationAssumption DEF EvaluationTypes, Closed
    <3>2. CASE day < MaxDays
      <4>1. phase' = "premarket" /\ day' = day + 1
        BY <2>1, <3>2
      <4>2. Closed' = day' - 1
        BY <4>1 DEF Closed
      <4> QED BY <3>1, <3>2, <4>1, <4>2 DEF Days
    <3>3. CASE ~(day < MaxDays)
      <4>1. phase' = "over" /\ day' = day
        BY <2>1, <3>3
      <4>2. Closed' = day'
        BY <4>1 DEF Closed
      <4> QED BY <3>1, <4>1, <4>2 DEF EvaluationTypes
    <3> QED BY <3>2, <3>3
  <2>3. \A s \in signals : s.ticker \in Tickers /\ s.day \in 1 .. day'
    BY <1>1, <2>2 DEF EvaluationTypes
  <2>4. \A e \in evaluations' : e.signal \in signals
    <3>1. CASE evaluations' = evaluations
      BY <3>1 DEF EvaluationTypes
    <3>2. CASE evaluations' = evaluations \cup {e \in {Evaluate(s) : s \in Unresolved} : e.outcome # "open"}
      <4>1. \A s \in Unresolved : Evaluate(s).signal \in signals
        BY EvaluateKeepsSignal DEF Unresolved
      <4> QED BY <3>2, <4>1 DEF EvaluationTypes
    <3> QED BY <1>6, <3>1, <3>2 DEF Nightly
  <2> QED BY <2>1, <2>2, <2>3, <2>4 DEF EvaluationTypes
<1>7. CASE UNCHANGED vars
  BY <1>7 DEF vars, EvaluationTypes, Closed
<1> QED BY <1>3, <1>4, <1>5, <1>6, <1>7 DEF Next

RowsOf(strategy) == {<<strategy, r>> : r \in Range(Regime)}

(* The rows of the regimes part the outcomes of a strategy: each outcome   *)
(* is counted in the row of the regime of its signal's day.                *)
LEMMA RowsPartOutcomes ==
    ASSUME EvaluationTypes, NEW strategy \in Strategies, NEW P \in SUBSET KnownOf(strategy)
    PROVE  Splits([g \in RowsOf(strategy) |-> {e \in P : g[2] = Regime[e.signal.day]}],
                 RowsOf(strategy), P)
<1>1. ASSUME NEW e \in P
      PROVE  <<strategy, Regime[e.signal.day]>> \in RowsOf(strategy)
  <2>1. e.signal \in signals
    BY DEF KnownOf, EvaluationTypes
  <2>2. e.signal.day \in 1 .. day /\ day \in Days
    BY <2>1 DEF EvaluationTypes
  <2>3. e.signal.day \in DOMAIN Regime
    BY <2>2, EvaluationAssumption DEF Days
  <2> QED BY <2>3 DEF Range, RowsOf
<1>2. \A g, h \in RowsOf(strategy) : g # h => g[2] # h[2]
  BY DEF RowsOf
<1> QED BY <1>1, <1>2 DEF Splits

LEMMA RowsFinite ==
    ASSUME NEW strategy PROVE IsFiniteSet(RowsOf(strategy))
<1>1. [r \in Range(Regime) |-> <<strategy, r>>]
          \in Surjection(Range(Regime), RowsOf(strategy))
  BY DEF Surjection, RowsOf
<1> QED BY <1>1, RegimesFinite, FS_Surjection

LEMMA StatsAreCurrent == EvaluationInv /\ EvaluationTypes => StatsCurrent
<1> SUFFICES ASSUME EvaluationInv, EvaluationTypes, NEW strategy \in Strategies
             PROVE  LET rows == {<<strategy, r>> : r \in Range(Regime)}
                        all  == stats[<<strategy, "*">>]
                    IN  /\ all.resolved = SumFunction([g \in rows |-> stats[g].resolved])
                        /\ all.wins = SumFunction([g \in rows |-> stats[g].wins])
                        /\ all.resolved = Cardinality({e \in evaluations :
                                             Strategy[e.signal.ticker] = strategy})
  BY DEF StatsCurrent
<1> DEFINE rows == RowsOf(strategy)
           known == KnownOf(strategy)
           won == {e \in known : Won(e)}
<1>1. IsFiniteSet(known) /\ IsFiniteSet(won)
  <2>1. known \subseteq evaluations /\ won \subseteq evaluations
    BY DEF KnownOf
  <2> QED BY <2>1, FS_Subset DEF EvaluationInv, OnRecord
<1>2. /\ stats[<<strategy, "*">>].resolved = Cardinality(known)
      /\ stats[<<strategy, "*">>].wins = Cardinality(won)
  <2>1. <<strategy, "*">> \in Groups
    BY DEF Groups
  <2>2. Members(<<strategy, "*">>, evaluations) = known
    BY DEF Members, KnownOf
  <2> QED BY <2>1, <2>2 DEF EvaluationInv, Recompute
<1>3. ASSUME NEW g \in rows
      PROVE  /\ stats[g].resolved = Cardinality({e \in known : g[2] = Regime[e.signal.day]})
             /\ stats[g].wins = Cardinality({e \in won : g[2] = Regime[e.signal.day]})
  <2>1. g \in Groups /\ g[1] = strategy /\ g[2] # "*"
    BY EvaluationAssumption DEF Groups, RowsOf
  <2>2. Members(g, evaluations) = {e \in known : g[2] = Regime[e.signal.day]}
    BY <2>1 DEF Members, KnownOf
  <2>3. {e \in Members(g, evaluations) : Won(e)} = {e \in won : g[2] = Regime[e.signal.day]}
    BY <2>2
  <2> QED BY <2>1, <2>2, <2>3 DEF EvaluationInv, Recompute
<1>4. SumFunction([g \in rows |-> stats[g].resolved]) = Cardinality(known)
  <2> DEFINE f == [g \in rows |-> stats[g].resolved]
             class == [g \in rows |-> {e \in known : g[2] = Regime[e.signal.day]}]
  <2>1. \A g \in rows : f[g] = Cardinality(class[g])
    BY <1>3
  <2>2. Splits(class, rows, known)
    BY RowsPartOutcomes
  <2>3. DOMAIN f = rows
    OBVIOUS
  <2> HIDE DEF f, class
  <2>4. SumFunction(f) = Cardinality(known)
    BY <1>1, <2>1, <2>2, <2>3, RowsFinite, SumOfCounts DEF SumFunction
  <2> QED BY <2>4 DEF f
<1>5. SumFunction([g \in rows |-> stats[g].wins]) = Cardinality(won)
  <2> DEFINE f == [g \in rows |-> stats[g].wins]
             class == [g \in rows |-> {e \in won : g[2] = Regime[e.signal.day]}]
  <2>1. \A g \in rows : f[g] = Cardinality(class[g])
    BY <1>3
  <2>2. Splits(class, rows, won)
    <3>1. won \in SUBSET KnownOf(strategy)
      OBVIOUS
    <3> HIDE DEF won
    <3> QED BY <3>1, RowsPartOutcomes
  <2>3. DOMAIN f = rows
    OBVIOUS
  <2> HIDE DEF f, class, won
  <2>4. SumFunction(f) = Cardinality(won)
    BY <1>1, <2>1, <2>2, <2>3, RowsFinite, SumOfCounts DEF SumFunction
  <2> QED BY <2>4 DEF f
<1> QED BY <1>2, <1>4, <1>5 DEF KnownOf, RowsOf

(* In every committed state the statistics are those of the outcomes on    *)
(* record, and the row of all regimes is the sum of the others.            *)
THEOREM StatsStayCurrent == Spec => []StatsCurrent
<1>1. Spec => []EvaluationTypes
  BY TypesStart, TypesStep, PTL DEF Spec
<1> QED BY <1>1, EvaluationInvariant, StatsAreCurrent, PTL

-----------------------------------------------------------------------------
\* The day last decides the signal s on these bars.
Decides(s, bars, last) ==
    /\ last <= s.day + Budget - 1
    /\ \A d \in s.day .. last - 1 : ~Touches(s, bars[d])
    /\ Touches(s, bars[last]) \/ last = s.day + Budget - 1

\* What the day that decides makes of it.
Verdict(o, s, bars, last) ==
    /\ o.days = last - s.day + 1
    /\ o.outcome = IF bars[last].low <= s.stop THEN "stop_hit"
                   ELSE IF bars[last].high >= s.target THEN "target_hit"
                   ELSE "expired"
    /\ ~Touches(s, bars[last]) => o.exit = bars[last].close

LEMMA LeastIsMin ==
    ASSUME NEW S \in SUBSET Nat, S # {}
    PROVE  Min(S) \in S /\ \A x \in S : Min(S) <= x
BY LeastNumber DEF Min

(* With a bar for every day from the signal's to day n, holding days are   *)
(* days until then.                                                        *)
LEMMA HoldingIsCounting ==
    ASSUME NEW s, s.day \in Nat \ {0}, NEW n \in Nat, n <= MaxDays,
           NEW bars, \A d \in s.day .. n : bars[d] # Missing
    PROVE  \A d \in s.day .. n :
               d \in BarsSince(s, bars) /\ HoldingDays(s, bars, d) = d - s.day + 1
<1> SUFFICES ASSUME NEW d \in s.day .. n
             PROVE  d \in BarsSince(s, bars) /\ HoldingDays(s, bars, d) = d - s.day + 1
  OBVIOUS
<1>1. s.day .. d \subseteq BarsSince(s, bars)
  <2>1. \A c \in s.day .. d : c \in s.day .. n /\ c \in s.day .. MaxDays
    BY EvaluationAssumption
  <2> QED BY <2>1 DEF BarsSince
<1>2. {c \in BarsSince(s, bars) : c <= d} = s.day .. d
  <2>1. \A c \in BarsSince(s, bars) : c \in s.day .. MaxDays
    BY DEF BarsSince
  <2>2. \A c \in BarsSince(s, bars) : c <= d => c \in s.day .. d
    BY <2>1
  <2> QED BY <1>1, <2>2
<1>3. Cardinality(s.day .. d) = d - s.day + 1
  BY FS_Interval
<1>4. d \in s.day .. d
  OBVIOUS
<1> QED BY <1>1, <1>2, <1>3, <1>4 DEF HoldingDays

(* The walk over such bars finds the day that decides, if n ends the       *)
(* horizon or there are no later bars, and is open only while the horizon  *)
(* is not over.                                                            *)
LEMMA WalkDecides ==
    ASSUME NEW s, s.day \in Nat \ {0}, NEW n \in Nat, s.day <= n, n <= MaxDays,
           NEW bars, \A d \in s.day .. n : bars[d] # Missing,
           n = s.day + Budget - 1 \/ \A d \in n + 1 .. MaxDays : bars[d] = Missing
    PROVE  /\ Walk(s, bars).outcome = "open" => n < s.day + Budget - 1
           /\ Walk(s, bars).outcome # "open" =>
                 \E last \in s.day .. n :
                     Decides(s, bars, last) /\ Verdict(Walk(s, bars), s, bars, last)
<1> DEFINE held(d) == HoldingDays(s, bars, d)
           ends == {d \in BarsSince(s, bars) : Touches(s, bars[d]) \/ held(d) >= Budget}
           last == Min(ends)
<1>1. \A d \in s.day .. n :
          /\ held(d) = d - s.day + 1
          /\ d \in ends <=> Touches(s, bars[d]) \/ d - s.day + 1 >= Budget
  BY HoldingIsCounting
<1>2. Budget \in Nat \ {0}
  BY EvaluationAssumption
<1>3. n = s.day + Budget - 1 => n \in ends
  BY <1>1, <1>2
<1>4. CASE ends = {}
  <2>1. Walk(s, bars).outcome = "open"
    BY <1>4 DEF Walk, Open
  <2>2. n \in s.day .. n /\ n \notin ends
    BY <1>4
  <2>3. ~(n - s.day + 1 >= Budget)
    BY <1>1, <2>2
  <2> QED BY <1>2, <2>1, <2>3
<1>5. CASE ends # {}
  <2>1. ends \in SUBSET Nat
    BY EvaluationAssumption DEF BarsSince
  <2>2. last \in ends /\ \A x \in ends : last <= x
    <3> HIDE DEF ends
    <3> QED BY <1>5, <2>1, LeastIsMin
  <2>3. last \in s.day .. n /\ held(last) = last - s.day + 1
    <3>1. last \in s.day .. MaxDays /\ bars[last] # Missing
      BY <2>2 DEF BarsSince
    <3>2. last <= n
      <4>1. CASE n = s.day + Budget - 1
        BY <1>3, <2>2, <4>1
      <4>2. CASE \A d \in n + 1 .. MaxDays : bars[d] = Missing
        <5>1. last \notin n + 1 .. MaxDays
          BY <3>1, <4>2
        <5> HIDE DEF last
        <5> QED BY <3>1, <5>1, EvaluationAssumption
      <4> QED BY <4>1, <4>2
    <3>3. last \in s.day .. n
      <4> HIDE DEF last
      <4> QED BY <3>1, <3>2
    <3> QED BY <1>1, <3>3
  <2>4. Walk(s, bars) =
            IF bars[last].low <= s.stop
            THEN [outcome |-> "stop_hit", exit |-> s.stop, days |-> held(last)]
            ELSE IF bars[last].high >= s.target
            THEN [outcome |-> "target_hit", exit |-> s.target, days |-> held(last)]
            ELSE [outcome |-> "expired", exit |-> bars[last].close, days |-> held(last)]
    BY <1>5 DEF Walk
  <2>5. Verdict(Walk(s, bars), s, bars, last)
    <3> HIDE DEF last, held
    <3> QED BY <2>3, <2>4 DEF Verdict, Touches
  <2>6. Walk(s, bars).outcome # "open"
    <3> HIDE DEF last, held
    <3> QED BY <2>4
  <2>7. Decides(s, bars, last)
    <3>1. \A d \in s.day .. last - 1 : d \in s.day .. n /\ ~(last <= d)
      <4> HIDE DEF last
      <4> QED BY <2>3
    <3>2. \A d \in s.day .. last - 1 : d \notin ends
      BY <2>2, <3>1
    <3>3. \A d \in s.day .. last - 1 : ~Touches(s, bars[d]) /\ ~(d - s.day + 1 >= Budget)
      BY <1>1, <3>1, <3>2
    <3>4. Touches(s, bars[last]) \/ last - s.day + 1 >= Budget
      BY <1>1, <2>2, <2>3
    <3> HIDE DEF last, ends, held
    <3>5. last <= s.day + Budget - 1
      <4>1. CASE last = s.day
        BY <1>2, <4>1
      <4>2. CASE last # s.day
        <5>1. last - 1 \in s.day .. last - 1
          BY <2>3, <4>2
        <5>2. ~((last - 1) - s.day + 1 >= Budget)
          BY <3>3, <5>1
        <5> QED BY <1>2, <2>3, <5>2
      <4> QED BY <4>1, <4>2
    <3>6. last - s.day + 1 >= Budget => last = s.day + Budget - 1
      BY <1>2, <2>3, <3>5
    <3> QED BY <3>3, <3>4, <3>5, <3>6 DEF Decides
  <2> QED
    <3> HIDE DEF last, ends, held
    <3> QED BY <2>3, <2>5, <2>6, <2>7
<1> QED BY <1>4, <1>5

-----------------------------------------------------------------------------
\* The market decided the signal of e, and e says how.
MarketSays(e) ==
    \E last \in e.signal.day .. Len(market[e.signal.ticker]) :
        /\ Decides(e.signal, market[e.signal.ticker], last)
        /\ Verdict(e, e.signal, market[e.signal.ticker], last)

\* The nights are misled only about bars that are unsettled, and what is
\* settled is stored as it is.
OutcomeInv ==
    /\ \A e \in evaluations : e.signal \in misled \/ MarketSays(e)
    /\ \A t \in Tickers, d \in Days :
          d <= Closed => <<t, d>> \in unsettled \/ stored[t][d] = market[t][d]

(* What one day decides, no later day undoes: bars are only appended. *)
LEMMA DecidedForGood ==
    ASSUME NEW s, s.day \in Nat \ {0}, NEW bars, NEW later, NEW e, NEW last \in Nat,
           s.day <= last, \A d \in s.day .. last : later[d] = bars[d],
           Decides(s, bars, last), Verdict(e, s, bars, last)
    PROVE  Decides(s, later, last) /\ Verdict(e, s, later, last)
<1>1. later[last] = bars[last] /\ \A d \in s.day .. last - 1 : later[d] = bars[d]
  OBVIOUS
<1> QED BY <1>1 DEF Decides, Verdict

(* A night that awaits no bar of a signal walks what the market did. *)
LEMMA NightWalks ==
    ASSUME EvaluationTypes, OutcomeInv, phase = "night", NEW s \in signals, ~Awaits(s)
    PROVE  /\ Evaluate(s).outcome = "open" => day < LastDay(s)
           /\ Evaluate(s).outcome # "open" => MarketSays(Evaluate(s))
<1> DEFINE t == s.ticker
           bars == stored[t]
           n == IF LastDay(s) <= day THEN LastDay(s) ELSE day
<1>1. /\ t \in Tickers /\ s.day \in Nat \ {0} /\ s.day <= day
      /\ day \in Nat /\ day <= MaxDays /\ MaxDays \in Nat /\ Budget \in Nat \ {0}
  BY EvaluationAssumption DEF EvaluationTypes, Days
<1>2. Closed = day /\ market[t] \in Seq(DayBars) /\ Len(market[t]) = day
  BY <1>1 DEF Closed, EvaluationTypes
<1>3. n \in Nat /\ s.day <= n /\ n <= day /\ n <= MaxDays /\ n <= LastDay(s)
  BY <1>1 DEF LastDay
<1>4. \A d \in s.day .. n : bars[d] = market[t][d] /\ bars[d] # Missing
  <2> HIDE DEF n
  <2> TAKE d \in s.day .. n
  <2>1. d \in Days /\ d <= Closed /\ d \in 1 .. Len(market[t]) /\ d \in s.day .. LastDay(s)
    BY <1>1, <1>2, <1>3 DEF Days, LastDay
  <2>2. bars[d] = market[t][d]
    BY <1>1, <2>1 DEF Awaits, OutcomeInv
  <2>3. market[t][d] \in DayBars
    BY <1>2, <2>1
  <2> QED BY <2>2, <2>3, BarsAreBars
<1>5. n = s.day + Budget - 1 \/ \A d \in n + 1 .. MaxDays : bars[d] = Missing
  <2>1. CASE LastDay(s) <= day
    BY <2>1 DEF LastDay
  <2>2. CASE ~(LastDay(s) <= day)
    <3>1. n = day
      BY <2>2
    <3>2. ASSUME NEW d \in day + 1 .. MaxDays PROVE bars[d] = Missing
      <4>1. d \in Days /\ d > Closed
        BY <1>1, <1>2 DEF Days
      <4> QED BY <1>1, <4>1 DEF EvaluationTypes
    <3> HIDE DEF n, bars
    <3> QED BY <3>1, <3>2
  <2> QED BY <2>1, <2>2
<1>6. /\ Evaluate(s).signal = s /\ Evaluate(s).outcome = Walk(s, bars).outcome
      /\ Evaluate(s).exit = Walk(s, bars).exit /\ Evaluate(s).days = Walk(s, bars).days
  BY DEF Evaluate
<1>7. /\ Walk(s, bars).outcome = "open" => n < s.day + Budget - 1
      /\ Walk(s, bars).outcome # "open" =>
            \E last \in s.day .. n :
                Decides(s, bars, last) /\ Verdict(Walk(s, bars), s, bars, last)
  <2>1. \A d \in s.day .. n : bars[d] # Missing
    BY <1>4
  <2> HIDE DEF bars, n
  <2> QED BY <1>1, <1>3, <1>5, <2>1, WalkDecides
<1>8. ASSUME Walk(s, bars).outcome # "open"
      PROVE  MarketSays(Evaluate(s))
  <2>1. PICK last \in s.day .. n :
            Decides(s, bars, last) /\ Verdict(Walk(s, bars), s, bars, last)
    BY <1>7, <1>8
  <2>2. Verdict(Evaluate(s), s, bars, last)
    BY <1>6, <2>1 DEF Verdict
  <2>3. last \in Nat /\ s.day <= last /\ last \in s.day .. Len(market[t])
    <3> HIDE DEF n
    <3> QED BY <1>1, <1>2, <1>3, <2>1
  <2>4. Decides(s, market[t], last) /\ Verdict(Evaluate(s), s, market[t], last)
    <3>1. \A d \in s.day .. last : market[t][d] = bars[d]
      <4> HIDE DEF n
      <4>1. \A d \in s.day .. last : d \in s.day .. n
        BY <1>1, <1>3, <2>1, <2>3
      <4> QED BY <1>4, <4>1
    <3> HIDE DEF bars, t, n
    <3> QED BY <1>1, <2>1, <2>2, <2>3, <3>1, DecidedForGood
  <2> QED BY <1>6, <2>3, <2>4 DEF MarketSays
<1>9. Walk(s, bars).outcome = "open" => day < LastDay(s)
  BY <1>1, <1>7 DEF LastDay
<1> QED BY <1>6, <1>8, <1>9

LEMMA OutcomeStart == Init => OutcomeInv
<1> SUFFICES ASSUME Init PROVE OutcomeInv
  OBVIOUS
<1>1. Closed = 0 /\ \A d \in Days : ~(d <= 0)
  BY EvaluationAssumption DEF Init, Closed, Days
<1> QED BY <1>1 DEF Init, OutcomeInv

\* Outcomes on record stand while the bars they rest on do.
LEMMA RecordStands ==
    ASSUME EvaluationTypes, OutcomeInv, NEW e \in evaluations, e.signal \notin misled,
           \A t \in Tickers : \A d \in 1 .. Len(market[t]) : market'[t][d] = market[t][d],
           \A t \in Tickers : Len(market'[t]) \in Nat /\ Len(market[t]) <= Len(market'[t])
    PROVE  MarketSays(e)'
<1> DEFINE s == e.signal
           t == s.ticker
<1>1. /\ t \in Tickers /\ s.day \in Nat \ {0} /\ Len(market[t]) \in Nat
  BY DEF EvaluationTypes, Closed, Days
<1>2. PICK last \in s.day .. Len(market[t]) :
          Decides(s, market[t], last) /\ Verdict(e, s, market[t], last)
  BY DEF OutcomeInv, MarketSays
<1>3. last \in Nat /\ s.day <= last /\ last \in s.day .. Len(market'[t])
  BY <1>1, <1>2
<1>4. \A d \in s.day .. last : market'[t][d] = market[t][d]
  BY <1>1, <1>2
<1>5. Decides(s, market'[t], last) /\ Verdict(e, s, market'[t], last)
  <2> HIDE DEF s, t
  <2> QED BY <1>1, <1>2, <1>3, <1>4, DecidedForGood
<1> QED BY <1>3, <1>5 DEF MarketSays, Decides, Verdict, Touches

\* Records stand while the days that are over and the outcomes do.
LEMMA SameRecords ==
    ASSUME EvaluationTypes, OutcomeInv, UNCHANGED <<evaluations, misled, market>>
    PROVE  \A e \in evaluations' : e.signal \in misled' \/ MarketSays(e)'
BY DEF OutcomeInv, MarketSays, Decides, Verdict, Touches

LEMMA OutcomeStep ==
    EvaluationTypes /\ EvaluationTypes' /\ OutcomeInv /\ [Next]_vars => OutcomeInv'
<1> SUFFICES ASSUME EvaluationTypes, EvaluationTypes', OutcomeInv, [Next]_vars
             PROVE  OutcomeInv'
  OBVIOUS
<1>1. \A d \in Days : d \in Nat \ {0}
  BY EvaluationAssumption DEF Days
<1>2. /\ day \in Nat \ {0} /\ Since(SweepDays) \in Int /\ Since(UpdateDays) \in Int
      /\ Closed \in Nat /\ \A t \in Tickers : Len(market[t]) = Closed
  BY <1>1, EvaluationAssumption DEF EvaluationTypes, Since, Closed
<1>3. CASE Premarket
  <2>1. UNCHANGED <<evaluations, misled, market>> /\ Closed' = Closed
    BY <1>3 DEF Premarket, Then, Closed
  <2>2. PICK got :
            /\ stored' = [t \in Tickers |->
                   IF t \in got THEN Refreshed(stored[t], market[t], Since(SweepDays)) ELSE stored[t]]
            /\ unsettled' = Settle(unsettled, got, Since(SweepDays))
    BY <1>3 DEF Premarket
  <2>3. ASSUME NEW t \in Tickers, NEW d \in Days, d <= Closed, <<t, d>> \notin unsettled'
        PROVE  stored'[t][d] = market[t][d]
    <3>1. CASE t \in got /\ Since(SweepDays) <= d
      <4>1. stored'[t] = Refreshed(stored[t], market[t], Since(SweepDays)) /\ d <= Len(market[t])
        BY <1>2, <2>2, <2>3, <3>1
      <4>2. Len(market[t]) \in Nat
        BY <1>2
      <4>3. Refreshed(stored[t], market[t], Since(SweepDays))[d] = market[t][d]
        BY <1>2, <3>1, <4>1, <4>2, RefreshedBars
      <4> QED BY <4>1, <4>3
    <3>2. CASE ~(t \in got /\ Since(SweepDays) <= d)
      <4>1. <<t, d>> \notin unsettled
        BY <1>1, <1>2, <2>2, <2>3, <3>2 DEF Settle
      <4>2. stored[t][d] = market[t][d]
        BY <2>3, <4>1 DEF OutcomeInv
      <4>3. stored'[t][d] = stored[t][d]
        <5>1. Len(market[t]) \in Nat
          BY <1>2
        <5>2. ~(Since(SweepDays) <= d)
                  => Refreshed(stored[t], market[t], Since(SweepDays))[d] = stored[t][d]
          BY <1>2, <5>1, RefreshedBars
        <5> QED BY <2>2, <3>2, <5>2
      <4> QED BY <4>2, <4>3
    <3> QED BY <3>1, <3>2
  <2> QED BY <2>1, <2>3, SameRecords DEF OutcomeInv
<1>4. CASE Signal
  BY <1>4, SameRecords DEF Signal, OutcomeInv, Closed
<1>5. CASE Close
  <2>1. /\ phase = "session" /\ phase' = "night" /\ UNCHANGED <<day, evaluations, misled>>
    BY <1>5 DEF Close, Then
  <2>2. Closed = day - 1 /\ Closed' = day
    BY <2>1 DEF Closed
  <2> DEFINE Closes(ended, scanned, got, early) ==
            /\ market' = [t \in Tickers |-> Append(market[t], ended[t])]
            /\ LET asOfClose(t) ==
                       IF t \notin scanned THEN stored[t]
                       ELSE [Refreshed(stored[t], market[t], Since(UpdateDays)) EXCEPT ![day] = early[t]]
               IN  stored' = [t \in Tickers |->
                       IF t \in got THEN Refreshed(asOfClose(t), market'[t], Since(UpdateDays))
                       ELSE asOfClose(t)]
            /\ unsettled' = Settle(Settle(unsettled, scanned, Since(UpdateDays)) \cup (Tickers \X {day}),
                                   got, Since(UpdateDays))
  <2>a. PICK ended \in [Tickers -> DayBars], scanned \in SUBSET (Universe \cup listed),
             got \in SUBSET Universe : \E early \in [scanned -> DayBars] :
            Closes(ended, scanned, got, early)
    BY <1>5 DEF Close
  <2>3. PICK early \in [scanned -> DayBars] : Closes(ended, scanned, got, early)
    BY <2>a
  <2>4. ASSUME NEW t \in Tickers
        PROVE  /\ Len(market'[t]) = day /\ Len(market[t]) = day - 1 /\ day - 1 \in Nat
               /\ market'[t][day] = ended[t]
               /\ \A d \in Days : d < day => market'[t][d] = market[t][d]
    <3>1. market[t] \in Seq(DayBars) /\ Len(market[t]) = day - 1
      BY <2>2 DEF EvaluationTypes
    <3>2. market'[t] = Append(market[t], ended[t]) /\ ended[t] \in DayBars
      BY <2>3
    <3> QED BY <1>1, <1>2, <3>1, <3>2
  <2>5. ASSUME NEW e \in evaluations, e.signal \notin misled PROVE MarketSays(e)'
    <3>1. \A u \in Tickers : Len(market'[u]) \in Nat /\ Len(market[u]) <= Len(market'[u])
      BY <1>2, <2>4
    <3>2. ASSUME NEW u \in Tickers, NEW d \in 1 .. Len(market[u])
          PROVE  market'[u][d] = market[u][d]
      <4>1. market[u] \in Seq(DayBars) /\ market'[u] = Append(market[u], ended[u]) /\ ended[u] \in DayBars
        BY <2>3 DEF EvaluationTypes
      <4> QED BY <4>1
    <3> QED BY <2>5, <3>1, <3>2, RecordStands
  <2>6. ASSUME NEW t \in Tickers, NEW d \in Days, d <= day, <<t, d>> \notin unsettled'
        PROVE  stored'[t][d] = market'[t][d]
    <3> DEFINE fresh == Refreshed(stored[t], market[t], Since(UpdateDays))
               asOfClose == IF t \notin scanned THEN stored[t] ELSE [fresh EXCEPT ![day] = early[t]]
    <3>1. stored'[t] = IF t \in got THEN Refreshed(asOfClose, market'[t], Since(UpdateDays))
                       ELSE asOfClose
      BY <2>3
    <3>2. CASE t \in got /\ Since(UpdateDays) <= d
      <4>1. d <= Len(market'[t]) /\ Len(market'[t]) \in Nat
        BY <1>2, <2>4, <2>6
      <4> HIDE DEF asOfClose
      <4>2. Refreshed(asOfClose, market'[t], Since(UpdateDays))[d] = market'[t][d]
        BY <1>2, <3>2, <4>1, RefreshedBars
      <4> QED BY <3>1, <3>2, <4>2
    <3>3. CASE ~(t \in got /\ Since(UpdateDays) <= d)
      <4>1. <<t, d>> \notin Settle(unsettled, scanned, Since(UpdateDays)) /\ d # day
        BY <1>1, <1>2, <2>3, <2>6, <3>3 DEF Settle
      <4>2. d < day /\ d <= Closed /\ d <= Len(market[t])
        BY <1>1, <1>2, <2>2, <2>4, <2>6, <4>1
      <4>3. stored'[t][d] = asOfClose[d]
        <5>1. Len(market'[t]) \in Nat
          BY <1>2, <2>4
        <5> HIDE DEF asOfClose
        <5> QED BY <1>2, <3>1, <3>3, <5>1, RefreshedBars
      <4>4. fresh = [c \in Days |-> fresh[c]] /\ fresh[d] \in {market[t][d], stored[t][d]}
            /\ (Since(UpdateDays) <= d => fresh[d] = market[t][d])
        <5>1. Len(market[t]) \in Nat
          BY <1>2
        <5>2. /\ Since(UpdateDays) <= d => fresh[d] = market[t][d]
              /\ ~(Since(UpdateDays) <= d) => fresh[d] = stored[t][d]
              /\ fresh = [c \in Days |-> fresh[c]]
          BY <1>2, <4>2, <5>1, RefreshedBars
        <5> HIDE DEF fresh
        <5> QED BY <5>2
      <4>5. t \in scanned => asOfClose[d] = fresh[d]
        <5> HIDE DEF fresh
        <5> QED BY <4>1, <4>4
      <4>6. CASE t \in scanned /\ Since(UpdateDays) <= d
        BY <2>4, <4>2, <4>3, <4>4, <4>5, <4>6
      <4>7. CASE ~(t \in scanned /\ Since(UpdateDays) <= d)
        <5>1. <<t, d>> \notin unsettled
          BY <1>1, <1>2, <4>1, <4>7 DEF Settle
        <5>2. stored[t][d] = market[t][d]
          BY <4>2, <5>1 DEF OutcomeInv
        <5>3. asOfClose[d] = market[t][d]
          BY <4>4, <4>5, <5>2
        <5> QED BY <2>4, <4>2, <4>3, <5>3
      <4> QED BY <4>6, <4>7
    <3> QED BY <3>2, <3>3
  <2> QED BY <2>1, <2>2, <2>5, <2>6 DEF OutcomeInv
<1>6. CASE Nightly
  <2> DEFINE new == {e \in {Evaluate(s) : s \in Unresolved} : e.outcome # "open"}
  <2>1. /\ phase = "night" /\ UNCHANGED <<market, stored, unsettled, signals>>
    BY <1>6 DEF Nightly
  <2>2. Closed' = Closed
    <3>1. \/ day < MaxDays /\ phase' = "premarket" /\ day' = day + 1
          \/ phase' = "over" /\ day' = day
      BY <1>6 DEF Nightly, Then
    <3> QED BY <1>2, <2>1, <3>1 DEF Closed
  <2>3. \A t \in Tickers, d \in Days :
            d <= Closed' => <<t, d>> \in unsettled' \/ stored'[t][d] = market'[t][d]
    BY <2>1, <2>2 DEF OutcomeInv
  <2>4. CASE UNCHANGED <<evaluations, misled>>
    BY <2>1, <2>3, <2>4, SameRecords DEF OutcomeInv
  <2>5. CASE /\ evaluations' = evaluations \cup new
             /\ misled' = misled \cup {e.signal : e \in {f \in new : Awaits(f.signal)}}
    <3>1. \A e \in new : e = Evaluate(e.signal) /\ e.signal \in signals
      BY EvaluateKeepsSignal DEF Unresolved
    <3>2. \A e : MarketSays(e)' <=> MarketSays(e)
      BY <2>1 DEF MarketSays, Decides, Verdict, Touches
    <3>3. ASSUME NEW e \in new, e.signal \notin misled' PROVE MarketSays(e)
      <4>1. ~Awaits(e.signal)
        BY <2>5, <3>3
      <4>2. Evaluate(e.signal).outcome # "open"
        BY <3>1
      <4> HIDE DEF new
      <4> QED BY <2>1, <3>1, <4>1, <4>2, NightWalks
    <3>4. \A e \in evaluations' : e.signal \in misled' \/ MarketSays(e)'
      <4> HIDE DEF new
      <4>1. misled \subseteq misled'
        BY <2>5
      <4> QED BY <2>5, <3>2, <3>3, <4>1 DEF OutcomeInv
    <3> QED BY <2>3, <3>4 DEF OutcomeInv
  <2> QED BY <1>6, <2>4, <2>5 DEF Nightly
<1>7. CASE UNCHANGED vars
  BY <1>7, SameRecords DEF vars, OutcomeInv, Closed
<1> QED BY <1>3, <1>4, <1>5, <1>6, <1>7 DEF Next

(* The day that decides is the first of the horizon that touches a level,  *)
(* or the last of the horizon.                                             *)
LEMMA DecidedIsTheMarkets ==
    ASSUME NEW e, NEW s, s = e.signal, s.day \in Nat \ {0},
           NEW bar, Len(bar) \in Nat, NEW last \in s.day .. Len(bar),
           Decides(s, bar, last), Verdict(e, s, bar, last)
    PROVE  LET over == s.day .. Min({Len(bar), s.day + Budget - 1})
               hits == {d \in over : bar[d].low <= s.stop \/ bar[d].high >= s.target}
           IN  /\ hits # {} =>
                     /\ e.days = Min(hits) - s.day + 1
                     /\ e.outcome = "stop_hit" <=> bar[Min(hits)].low <= s.stop
               /\ hits = {} => e.outcome = "expired" /\ e.exit = bar[s.day + Budget - 1].close
<1> DEFINE ends == {Len(bar), s.day + Budget - 1}
           over == s.day .. Min(ends)
           hits == {d \in over : bar[d].low <= s.stop \/ bar[d].high >= s.target}
<1>1. Budget \in Nat \ {0}
  BY EvaluationAssumption
<1>2. \A d : Touches(s, bar[d]) <=> bar[d].low <= s.stop \/ bar[d].high >= s.target
  BY DEF Touches
<1>3. /\ Min(ends) \in Nat /\ Min(ends) <= Len(bar) /\ Min(ends) <= s.day + Budget - 1
      /\ Min(ends) = Len(bar) \/ Min(ends) = s.day + Budget - 1
  <2>1. ends \in SUBSET Nat /\ ends # {}
    BY <1>1
  <2>2. Min(ends) \in ends /\ \A x \in ends : Min(ends) <= x
    <3> HIDE DEF ends
    <3> QED BY <2>1, LeastIsMin
  <2>3. Min(ends) \in Nat /\ Min(ends) <= Len(bar) /\ Min(ends) <= s.day + Budget - 1
    BY <2>1, <2>2
  <2> QED BY <2>2, <2>3
<1>4. /\ last \in over /\ \A d \in s.day .. last - 1 : ~Touches(s, bar[d])
      /\ last <= s.day + Budget - 1
      /\ Touches(s, bar[last]) \/ last = s.day + Budget - 1
  <2>1. last <= s.day + Budget - 1
    BY DEF Decides
  <2>2. last \in over
    <3> HIDE DEF ends
    <3> QED BY <1>1, <1>3, <2>1
  <2> QED BY <2>1, <2>2 DEF Decides
<1>5. CASE Touches(s, bar[last])
  <2>1. last \in hits
    BY <1>2, <1>4, <1>5
  <2>2. hits \in SUBSET Nat
    <3> HIDE DEF ends
    <3> QED BY <1>3
  <2>3. \A d \in hits : d \in over /\ Touches(s, bar[d])
    BY <1>2
  <2>4. \A d \in hits : last <= d
    <3> SUFFICES ASSUME NEW d \in hits, d < last PROVE FALSE
      BY <2>2
    <3>1. d \in s.day .. last - 1
      <4> HIDE DEF hits, ends
      <4> QED BY <1>3, <2>2, <2>3
    <3> QED BY <1>4, <2>3, <3>1
  <2>5. Min(hits) = last
    <3>1. Min(hits) \in hits /\ \A x \in hits : Min(hits) <= x
      <4> HIDE DEF hits
      <4> QED BY <2>1, <2>2, LeastIsMin
    <3>2. Min(hits) <= last /\ last <= Min(hits) /\ Min(hits) \in Nat
      <4> HIDE DEF hits
      <4> QED BY <2>1, <2>2, <2>4, <3>1
    <3> QED BY <3>2
  <2>6. e.days = last - s.day + 1 /\ (e.outcome = "stop_hit" <=> bar[last].low <= s.stop)
    BY DEF Verdict
  <2> HIDE DEF hits
  <2>7. /\ hits # {}
        /\ e.days = Min(hits) - s.day + 1
        /\ e.outcome = "stop_hit" <=> bar[Min(hits)].low <= s.stop
    BY <2>1, <2>5, <2>6
  <2> QED BY <2>7 DEF hits
<1>6. CASE ~Touches(s, bar[last])
  <2>1. last = s.day + Budget - 1
    BY <1>4, <1>6
  <2>2. e.outcome = "expired" /\ e.exit = bar[s.day + Budget - 1].close
    BY <1>2, <1>6, <2>1 DEF Verdict
  <2>3. ASSUME NEW d \in over PROVE ~Touches(s, bar[d])
    <3> HIDE DEF ends
    <3>1. d = last \/ d \in s.day .. last - 1
      BY <1>3, <2>1, <1>1
    <3> QED BY <1>4, <1>6, <3>1
  <2>4. hits = {}
    BY <1>2, <2>3
  <2> QED BY <2>2, <2>4
<1> QED BY <1>5, <1>6

LEMMA OutcomesAreTheMarkets == EvaluationTypes /\ OutcomeInv => OutcomeIsTheMarkets
<1> SUFFICES ASSUME EvaluationTypes, OutcomeInv, NEW e \in evaluations, MarketSays(e)
             PROVE  Decided(e)
  BY DEF OutcomeIsTheMarkets, OutcomeInv
<1> DEFINE s == e.signal
           bar == market[s.ticker]
<1>1. s.day \in Nat \ {0} /\ Len(bar) \in Nat
  BY DEF EvaluationTypes, Closed, Days
<1>2. PICK last \in s.day .. Len(bar) : Decides(s, bar, last) /\ Verdict(e, s, bar, last)
  BY DEF MarketSays
<1> QED BY <1>1, <1>2, DecidedIsTheMarkets DEF Decided, LastDay

(* The types of the days, and what the nights have made of the signals. *)
LEMMA DaysAndOutcomes == Spec => [](EvaluationTypes /\ OutcomeInv)
<1>1. Init => EvaluationTypes /\ OutcomeInv
  BY TypesStart, OutcomeStart
<1>2. EvaluationTypes /\ OutcomeInv /\ [Next]_vars => (EvaluationTypes /\ OutcomeInv)'
  BY TypesStep, OutcomeStep
<1> QED BY <1>1, <1>2, PTL DEF Spec

(* The first day of the horizon that touches a level decides, the stop if  *)
(* it touches both (resolve.py:9-13), by the market's own bars, unless a   *)
(* bar of the horizon had not been ingested since its day was over.        *)
THEOREM MarketDecides == Spec => []OutcomeIsTheMarkets
<1> QED BY DaysAndOutcomes, OutcomesAreTheMarkets, PTL

-----------------------------------------------------------------------------
(* A night resolves every signal whose horizon is over and settled. *)
LEMMA NightResolves ==
    ASSUME EvaluationTypes, OutcomeInv, Nightly, ~lost'
    PROVE  ResolvedInTime'
<1>1. phase = "night" /\ UNCHANGED <<market, stored, signals, unsettled>>
  BY DEF Nightly
<1>2. evaluations' = evaluations
                     \cup {e \in {Evaluate(s) : s \in Unresolved} : e.outcome # "open"}
  BY DEF Nightly
<1>3. SUFFICES ASSUME NEW s \in signals, Len(market[s.ticker]) >= LastDay(s), ~Awaits(s),
                      s \notin Resolved(evaluations)
               PROVE  s \in Resolved(evaluations')
  BY <1>1, <1>2 DEF ResolvedInTime, Resolved, Awaits, LastDay
<1>4. Len(market[s.ticker]) = day /\ day \in Nat /\ LastDay(s) \in Int
  <2>1. Closed = day
    BY <1>1 DEF Closed
  <2> QED BY <2>1, EvaluationAssumption DEF EvaluationTypes, Days, LastDay
<1>5. Evaluate(s).outcome # "open"
  BY <1>1, <1>3, <1>4, NightWalks
<1>6. Evaluate(s) \in evaluations' /\ Evaluate(s).signal = s
  BY <1>2, <1>3, <1>5, EvaluateKeepsSignal DEF Unresolved
<1> QED BY <1>6 DEF Resolved

LEMMA ResolvedStep ==
    EvaluationTypes /\ OutcomeInv /\ ResolvedInTime /\ [Next]_vars => ResolvedInTime'
<1> SUFFICES ASSUME EvaluationTypes, OutcomeInv, ResolvedInTime, [Next]_vars
             PROVE  ResolvedInTime'
  OBVIOUS
<1>1. CASE Nightly
  <2>1. CASE ~lost'
    BY <1>1, <2>1, NightResolves
  <2>2. CASE lost'
    BY <2>2 DEF ResolvedInTime
  <2> QED BY <2>1, <2>2
<1>2. CASE Premarket \/ Close
  BY <1>2 DEF Premarket, Close, Then, ResolvedInTime
<1>3. CASE Signal
  BY <1>3 DEF Signal, ResolvedInTime
<1>4. CASE UNCHANGED vars
  BY <1>4 DEF vars, ResolvedInTime, Resolved, Awaits, LastDay
<1> QED BY <1>1, <1>2, <1>3, <1>4 DEF Next

(* However many bars and nights were lost before, after a night that has   *)
(* run no signal whose horizon is over is without an outcome, once all the *)
(* bars of that horizon have been ingested.                                *)
THEOREM HorizonsEnd == Spec => []ResolvedInTime
<1>1. Init => ResolvedInTime
  BY DEF Init, ResolvedInTime
<1>2. Spec => []EvaluationTypes /\ []OutcomeInv
  BY DaysAndOutcomes, PTL
<1> QED BY <1>1, <1>2, ResolvedStep, PTL DEF Spec
=============================================================================
