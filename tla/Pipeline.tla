------------------------------ MODULE Pipeline ------------------------------
(***************************************************************************)
(* One run of the agent pipeline (sentinel/pipeline/graph.py) next to the  *)
(* owner, who meanwhile records trades and edits the risk profile through  *)
(* the api (sentinel/risk/store.py).  Every node of the graph reads the    *)
(* portfolio and the active profile anew from the database, so what a node *)
(* decides may rest on another portfolio and another profile than the node *)
(* before saw.                                                             *)
(*                                                                         *)
(* The price history, close and sector of a candidate are read once, by    *)
(* load_context.  The stages up to select_strategy are pure functions of   *)
(* them (Screening, Strategies) and one action; so is the choice of the    *)
(* finalists (ReviewPolicy).  The marks and sectors of the open positions  *)
(* and the correlations are read anew by every node                        *)
(* (sentinel/portfolio/state.py), and an ingest may commit in between.     *)
(***************************************************************************)
EXTENDS PositionReview, ReviewPolicy, Sequences, SequencesExt

CONSTANTS FirstProfile,  \* the first version of the risk profile
          Edits,         \* partial updates the owner may make of it
          Editors,       \* requests that may be editing it at once
          Price,         \* Price[x]: the close of x that load_context reads
          Cost,          \* Cost[x]: the cost basis of a position held in x
          Facts,         \* Facts[x]: sector and capitalisation of x
          Adv,           \* Adv[x]: its average daily dollar volume
          Markets,       \* what quotes, bars and fundamentals may say meanwhile:
                         \*   [mark, sector: of x; corr[x][y]: a correlation in bp]
          Earnings,      \* Earnings[x]: trading days to its earnings, or NotKnown
          Events,        \* Events[x]: the discovery events on x
          Rank,          \* Rank[x]: the place of x in the alphabet
          Charts,        \* Charts[x]: price histories x may have
          Tapes,         \* states of the benchmark
          Aggregates,    \* what the analysts' interpretation may add up to
          Start,         \* [shares, cash] at the start of the run
          PriorClose,    \* the last equity snapshot, also the high-water mark
          Lots,          \* shares the owner may buy (or sell, as a negative)
          Modes,         \* operating modes a run may have
          MaxEdits       \* bound: trades and profile edits during the run

Limits == DOMAIN FirstProfile

\* The bounds of the profile's fields (profile.py), as far as they matter.
Limited == {limits \in [Limits -> Int] : limits.atr_stop_multiple > 0}

ASSUME ProfileAssumption ==
    /\ {"atr_stop_multiple", "risk_per_trade_pct", "max_position_pct", "max_open_positions"}
           \subseteq Limits
    /\ FirstProfile \in Limited
    /\ \A change \in Edits :
          /\ DOMAIN change \subseteq Limits
          /\ \A f \in DOMAIN change :
                change[f] \in Int /\ (f = "atr_stop_multiple" => change[f] > 0)

\* Positions are long and prices positive, as the api enforces.
ASSUME MarketAssumption ==
    /\ Price \in [Symbols -> Nat \ {0}]
    /\ \A m \in Markets : m.mark \in [Symbols -> Nat \ {0}]
    /\ Start.shares \in [Symbols -> Nat] /\ Start.cash \in Int
    /\ PriorClose \in Int
    /\ Lots \subseteq Int
    /\ \A x \in Symbols : \A c \in Charts[x] : "atr" \in DOMAIN c /\ c.atr \in Nat

VARIABLES stage,      \* the node to run next
          shares,     \* shares[x]: the committed position in x
          cash,
          market,     \* what is stored of marks, sectors and correlations
          versions,   \* the versions of the risk profile: [limits, named, base]
          edit,       \* edit[e]: where a request to edit the profile is
          edits,      \* trades and profile edits so far
          chart,      \* chart[x]: the price history of x
          tape,
          mode, onDemand,  \* the mode, and whether the owner asked for the run
          candidate,  \* candidate[x]: what the run knows of x
          advice,     \* advice[x]: the position review of x
          finalists,  \* candidates whose review is still to be requested
          signal,     \* signal[x]: the signal on x
          first,      \* history: first[x]: the strategy's action before the model's vote
          undisturbed, \* history: the owner edited nothing since the sizing
          ingested    \* history: an ingest committed since the sizing

vars == <<stage, shares, cash, market, versions, edit, edits, chart, tape, mode, onDemand,
          candidate, advice, finalists, signal, first, undisturbed, ingested>>

stored == <<market, ingested>>
owner  == <<shares, cash, versions, edit, edits, undisturbed>>
inputs == <<chart, tape, mode, onDemand>>
run    == <<inputs, candidate, advice, finalists, signal, first>>

-----------------------------------------------------------------------------
\* get_active_profile: the newest version.
profile == Last(versions).limits

regime == Regime(tape)

depth == RunDepth(mode, onDemand, TRUE)

Snap(x) == Technicals([chart[x] EXCEPT !.close = Price[x], !.adv = Adv[x]])

SectorOf(x) == Facts[x].sector

\* build_portfolio_state: each mark and sector as it is stored by now.
EquityOf(held, money) == money + SumFunction([x \in Symbols |-> held[x] * market.mark[x]])

Equity == EquityOf(shares, cash)

Snapshot ==
    [equity |-> Equity, highWater |-> Max({PriorClose, Equity}),
     dayPnl |-> Equity - PriorClose,
     shares |-> shares, price |-> market.mark, sector |-> market.sector]

\* _candidate_order: prefilter and gate make it of the same context, but
\* compute the correlations anew.
CandidateOrder(x, action, n, price) ==
    [symbol |-> x, action |-> action, shares |-> n, price |-> price,
     sector |-> SectorOf(x),
     adv |-> IF Snap(x) = NotKnown THEN NotKnown ELSE Snap(x).adv,
     atr |-> IF Snap(x) = NotKnown THEN NotKnown ELSE (Whole * Snap(x).atr) \div Price[x],
     earnings |-> Earnings[x], corr |-> [y \in Open(Snapshot) |-> market.corr[x][y]]]

\* Mutant of EntryOrder: the prefilter prices the order at the close.
EntryOrderAtClose(x) == CandidateOrder(x, "BUY", candidate[x].shares, Price[x])

EntryOrder(x) == CandidateOrder(x, "BUY", candidate[x].shares, MaxEntry(Price[x]))

Passes(order) == Approved(order, Snapshot, profile)

NoStrategy ==
    [action |-> "none", conviction |-> 0, shares |-> 0, pre |-> "none",
     priority |-> NoTrigger, stance |-> "none"]
NoSignal   == [action |-> "none", shares |-> 0, price |-> 0, approved |-> FALSE]
NoReview   == [action |-> "NO_ACTION", delta |-> 0, mark |-> 0]

Actionable(s) == s.action \in {"BUY", "SELL"} /\ s.approved

NoEdit == [step |-> "idle"]

Init ==
    /\ stage = "select"
    /\ shares = Start.shares
    /\ cash = Start.cash
    /\ market \in Markets
    /\ versions = <<[limits |-> FirstProfile, named |-> {}, base |-> 0]>>
    /\ edit = [e \in Editors |-> NoEdit]
    /\ edits = 0
    /\ chart \in {c \in [Symbols -> UNION {Charts[x] : x \in Symbols}] :
                     \A x \in Symbols : c[x] \in Charts[x]}
    /\ tape \in Tapes
    /\ mode \in Modes
    /\ onDemand \in BOOLEAN
    /\ candidate = [x \in Symbols |-> NoStrategy]
    /\ advice = [x \in Symbols |-> NoReview]
    /\ finalists = {}
    /\ signal = [x \in Symbols |-> NoSignal]
    /\ first = [x \in Symbols |-> "none"]
    /\ undisturbed = TRUE
    /\ ingested = FALSE

Eligible(x) == PassesScreen(Snap(x), Facts[x], CoreScreen)

\* The candidate the screen, the analysts and the strategies make of x.
Selected(x) ==
    LET aggregate == Aggregate(Snap(x), Facts[x], chart[x].news > 0, tape.vix # NotKnown)
        fits == CoreFits(Snap(x), regime, aggregate)
    IN  IF ~Eligible(x) THEN NoStrategy
        ELSE [NoStrategy EXCEPT !.action = StrategyAction(Select(fits)),
                                !.conviction = Conviction(aggregate, fits[Select(fits)])]

\* load_context, regime, screen, analysts, select_strategy.
SelectStrategies ==
    /\ stage = "select"
    /\ stage' = "size"
    /\ candidate' = [x \in Symbols |-> Selected(x)]
    /\ first' = [x \in Symbols |-> candidate'[x].action]
    /\ UNCHANGED <<owner, stored, inputs, advice, finalists, signal>>

Sized(x) == SizePosition(Equity, Price[x], Snap(x).atr, profile)

SizeCandidates ==
    /\ stage = "size"
    /\ stage' = "prefilter"
    /\ candidate' = [x \in Symbols |->
          IF candidate[x].action = "BUY" THEN [candidate[x] EXCEPT !.shares = Sized(x)]
          ELSE candidate[x]]
    /\ undisturbed' = TRUE
    /\ ingested' = FALSE
    /\ UNCHANGED <<shares, cash, market, versions, edit, edits, inputs, advice, finalists, signal, first>>

Prefilter ==
    /\ stage = "prefilter"
    /\ stage' = "positions"
    /\ candidate' = [x \in Symbols |->
          IF candidate[x].action # "BUY" \/ candidate[x].shares = 0 THEN candidate[x]
          ELSE [candidate[x] EXCEPT !.pre = IF Passes(EntryOrder(x)) THEN "approved" ELSE "vetoed"]]
    /\ UNCHANGED <<owner, stored, inputs, advice, finalists, signal, first>>

Holding(x) ==
    [symbol |-> x, shares |-> shares[x], cost |-> Cost[x], mark |-> market.mark[x],
     sector |-> market.sector[x], adv |-> Adv[x],
     corr |-> [y \in Open(Snapshot) \ {x} |-> market.corr[x][y]],
     chart |-> Snap(x), calm |-> regime # "high-volatility", earnings |-> Earnings[x]]

\* The review keeps the mark it was made at.
Review(x) ==
    LET verdict == ReviewPosition(Holding(x), Snapshot, profile)
    IN  [action |-> verdict.action, delta |-> verdict.delta, mark |-> market.mark[x]]

ReviewPositions ==
    /\ stage = "positions"
    /\ stage' = "pick"
    /\ advice' = [x \in Symbols |->
          IF x \in Open(Snapshot) THEN Review(x)
          ELSE NoReview]
    /\ UNCHANGED <<owner, stored, inputs, candidate, finalists, signal, first>>

\* What the prefilter approved and an event, the position or its conviction
\* speaks for.
Priority(x) ==
    IF candidate[x].action \in {"BUY", "SELL"} /\ candidate[x].pre = "approved"
    THEN Trigger(candidate[x].conviction, Events[x], Snap(x), shares[x] # 0, onDemand,
                 Policy(mode).floor)
    ELSE NoTrigger

\* llm_stage, up to the first review.
PickFinalists ==
    LET priority == [x \in Symbols |-> Priority(x)] IN
    /\ stage = "pick"
    /\ stage' = "llm"
    /\ IF depth = "none"
       THEN UNCHANGED <<candidate, finalists>>
       ELSE /\ finalists' = Finalists(priority, Rank, Policy(mode).cap)
            /\ candidate' = [x \in Symbols |-> [candidate[x] EXCEPT !.priority = priority[x]]]
    /\ UNCHANGED <<owner, stored, inputs, advice, signal, first>>

\* _deep_analysis: the model's reading of the analysts' facts changes the
\* aggregate, its vote chooses among the tied strategies, and a BUY is sized
\* again; risk_pre stays as it was.
Refined(x) ==
    LET voted == UNION {{StrategyAction(name) : name \in Tied(CoreFits(Snap(x), regime, aggregate))} :
                           aggregate \in Aggregates}
    IN  {[candidate[x] EXCEPT !.action = action,
                              !.shares = IF action = "BUY" THEN Sized(x) ELSE @] : action \in voted}

\* Whether x is the finalist whose turn it is.
IsTurn(x) ==
    \A y \in finalists \ {x} : Precedes(x, y, [z \in finalists |-> candidate[z].priority], Rank)

ReviewFinalist ==
    /\ stage = "llm"
    /\ \E x \in finalists :
          /\ IsTurn(x)
          /\ finalists' = finalists \ {x}
          /\ \E c \in IF depth = "full" THEN Refined(x) ELSE {candidate[x]}, stance \in Stances :
                candidate' = [candidate EXCEPT ![x] = [c EXCEPT !.stance = stance]]
    /\ UNCHANGED <<owner, stored, stage, inputs, advice, signal, first>>

StrategySignal(x) ==
    LET action == Standing(candidate[x]) IN
    IF action = "BUY"
    THEN [action |-> "BUY", shares |-> candidate[x].shares, price |-> MaxEntry(Price[x]),
          approved |-> FALSE]
    ELSE [NoSignal EXCEPT !.action = action]

\* _position_sell_signal
SellSignal(x) ==
    [action |-> "SELL", shares |-> -advice[x].delta, price |-> advice[x].mark, approved |-> FALSE]

\* A symbol with a strategy is covered: its position review makes no signal.
Covered(x) == candidate[x].action # "none"

Synthesize ==
    /\ stage = "llm"
    /\ finalists = {}
    /\ stage' = "gate"
    /\ signal' = [x \in Symbols |->
          IF Covered(x) THEN StrategySignal(x)
          ELSE IF IsSell(advice[x]) THEN SellSignal(x) ELSE NoSignal]
    /\ UNCHANGED <<owner, stored, inputs, candidate, advice, finalists, first>>

\* risk_gate: every signal against the same portfolio and profile.
RiskGate ==
    /\ stage = "gate"
    /\ stage' = "done"
    /\ signal' = [x \in Symbols |->
          IF signal[x] = NoSignal THEN NoSignal
          ELSE [signal[x] EXCEPT !.approved =
                  Passes(CandidateOrder(x, signal[x].action, signal[x].shares, signal[x].price))]]
    /\ UNCHANGED <<owner, stored, inputs, candidate, advice, finalists, first>>

-----------------------------------------------------------------------------
\* An ingest of another job commits: new quotes, closes or company profiles.
Ingest ==
    /\ stage # "done"
    /\ market' \in Markets \ {market}
    /\ ingested' = TRUE
    /\ UNCHANGED <<stage, owner, run>>

Edited == stage # "done" /\ edits < MaxEdits /\ edits' = edits + 1

\* A trade of the owner commits, at the mark (portfolio.py: no short sales).
RecordTrade(x, n) ==
    /\ Edited
    /\ shares[x] + n >= 0
    /\ shares' = [shares EXCEPT ![x] = @ + n]
    /\ cash' = cash - n * market.mark[x]
    /\ undisturbed' = FALSE
    /\ UNCHANGED <<stage, stored, versions, edit, run>>

\* Mutant of Updated: a partial update resets the other limits.
UpdatedFromDefaults(current, change) ==
    [f \in DOMAIN current |-> IF f \in DOMAIN change THEN change[f] ELSE FirstProfile[f]]

\* A partial update: the limits it does not name stay.
Updated(current, change) ==
    [f \in DOMAIN current |-> IF f \in DOMAIN change THEN change[f] ELSE current[f]]

\* update_profile reads the active profile and makes the new one.
ReadProfile(e, change) ==
    /\ Edited
    /\ edit[e] = NoEdit
    /\ edit' = [edit EXCEPT ![e] = [step |-> "read", limits |-> Updated(profile, change),
                                    named |-> DOMAIN change, base |-> Len(versions)]]
    /\ UNCHANGED <<stage, stored, shares, cash, versions, undisturbed, run>>

\* save_profile: the next version number, which is the primary key.
NumberVersion(e) ==
    /\ edit[e].step = "read"
    /\ edit' = [edit EXCEPT ![e] = [step |-> "numbered", limits |-> @.limits, named |-> @.named,
                                    base |-> @.base, version |-> Len(versions) + 1]]
    /\ UNCHANGED <<stage, stored, shares, cash, versions, edits, undisturbed, run>>

\* The request commits, unless another has taken its number.
CommitVersion(e) ==
    /\ edit[e].step = "numbered"
    /\ edit' = [edit EXCEPT ![e] = NoEdit]
    /\ IF edit[e].version = Len(versions) + 1
       THEN /\ versions' = Append(versions, [limits |-> edit[e].limits, named |-> edit[e].named,
                                             base |-> edit[e].base])
            /\ undisturbed' = FALSE
       ELSE UNCHANGED <<versions, undisturbed>>
    /\ UNCHANGED <<stage, stored, shares, cash, edits, run>>

Next ==
    \/ SelectStrategies \/ SizeCandidates \/ Prefilter \/ ReviewPositions \/ PickFinalists
    \/ ReviewFinalist \/ Synthesize \/ RiskGate
    \/ Ingest
    \/ \E x \in Symbols, n \in Lots : RecordTrade(x, n)
    \/ \E e \in Editors :
          \/ \E change \in Edits : ReadProfile(e, change)
          \/ NumberVersion(e)
          \/ CommitVersion(e)

Spec == Init /\ [][Next]_vars
-----------------------------------------------------------------------------
(* The model never creates a trade (synthesizer.py:10-14, review.py): an   *)
(* actionable BUY had a deterministic BUY strategy before the tie-break    *)
(* vote, and no review that rejected it, whatever the owner edits in       *)
(* between.                                                                *)
ModelNeverCreatesTrade ==
    \A x \in Symbols : Actionable(signal[x]) /\ signal[x].action = "BUY" =>
        first[x] = "BUY" /\ candidate[x].stance # "reject"

\* The prefilter and the gate gave the same verdict on every BUY.
SameVerdicts ==
    \A x \in Symbols : signal[x].action = "BUY" =>
        (signal[x].approved <=> candidate[x].pre = "approved")

(* While the owner edits nothing and no ingest commits after the sizing,   *)
(* the prefilter and the gate give the same verdict on every BUY that      *)
(* reaches the gate (graph.py:19-24), with deep analysis sizing it a       *)
(* second time in between.                                                 *)
GateConfirmsPrefilter ==
    stage = "done" /\ undisturbed /\ ~ingested => SameVerdicts

\* The portfolio after the owner fills the BUYs of X at their limit price.
Filled(X) ==
    [Snapshot EXCEPT
        !.shares = [x \in Symbols |-> IF x \in X THEN shares[x] + signal[x].shares ELSE shares[x]]]

\* The limits of a profile on a portfolio, a filled share counted at its
\* limit price.
FillPrice(X, x) == IF x \in X THEN MaxEntry(Price[x]) ELSE market.mark[x]
PositionWorth(X, x) ==
    shares[x] * market.mark[x] + (Filled(X).shares[x] - shares[x]) * FillPrice(X, x)
WorthOf(X, Y) == SumFunction([x \in Y |-> PositionWorth(X, x)])

\* The positions the engine counts with an order for x (engine.py:171-177).
Peers(x) == {y \in Symbols : market.sector[y] = SectorOf(x) \/ y = x}

WithinLimits(X) ==
    /\ Cardinality(Open(Filled(X))) <= profile.max_open_positions
    /\ \A x \in X :
          /\ Within(PositionWorth(X, x), profile.max_position_pct, Snapshot)
          /\ Within(WorthOf(X, Peers(x)), profile.max_sector_pct, Snapshot)
    /\ Within(WorthOf(X, Symbols), profile.max_portfolio_exposure_pct, Snapshot)

ActionableBuys == {x \in Symbols : Actionable(signal[x]) /\ signal[x].action = "BUY"}

(* Any one actionable BUY, filled at its limit price in the portfolio the  *)
(* gate saw, leaves position, sector, exposure and open positions within   *)
(* the profile the gate saw (engine.py:89-312).                            *)
EachFillWithinLimits ==
    [][RiskGate => \A x \in ActionableBuys' : WithinLimits({x})']_vars

(* The gate is no obstacle on the way out: in a run the owner leaves       *)
(* undisturbed, every SELL a position review makes passes it, whatever the *)
(* losses, halts and limits are that stop BUYs (engine.py:105-312).        *)
ReductionsPassGate ==
    stage = "done" /\ undisturbed =>
        \A x \in Symbols : signal[x].action = "SELL" => signal[x].approved

(* "Limits change ONLY via explicit user edits" (profile.py:3): a version  *)
(* differs from the one before in limits its edit names only, unless       *)
(* another edit committed after that edit had read the profile.            *)
LimitsAsEdited ==
    \A i \in 2 .. Len(versions) : versions[i].base = i - 1 =>
        \A f \in DOMAIN FirstProfile :
            versions[i].limits[f] # versions[i - 1].limits[f] => f \in versions[i].named

(* A claim the code does not keep (see the README).                        *)
(* "Recommendations that REDUCE exposure are always allowed to surface"    *)
(* (manager.py:21): a review that sells becomes a signal.                  *)
ReductionsSurface ==
    stage \in {"gate", "done"} => \A x \in Symbols : IsSell(advice[x]) => signal[x].action = "SELL"
=============================================================================
