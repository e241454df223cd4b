---------------------------- MODULE ReviewPolicy ----------------------------
(***************************************************************************)
(* What earns a candidate a paid review: the operating mode's policy       *)
(* (sentinel/modes.py), the triggers and their ranking                     *)
(* (pipeline/triggers.py), and the fingerprint of the facts under which a  *)
(* review is kept (agents/review.py).  Priorities are in hundredths, as    *)
(* scores are; an event is [kind, score].                                  *)
(***************************************************************************)
EXTENDS Strategies

Policies ==
    [free     |-> [scan |-> "none",   onDemand |-> "none", cap |-> 0, floor |-> 10000],
     smart    |-> [scan |-> "review", onDemand |-> "full", cap |-> 3, floor |-> 4000],
     research |-> [scan |-> "full",   onDemand |-> "full", cap |-> 5, floor |-> 3000]]

\* policy_for: an unknown mode is the default one.
Policy(mode) == IF mode \in DOMAIN Policies THEN Policies[mode] ELSE Policies.smart

\* depth_for, and a run that is told to do without the model.
RunDepth(mode, onDemand, useLlm) ==
    IF ~useLlm THEN "none" ELSE IF onDemand THEN Policy(mode).onDemand ELSE Policy(mode).scan

-----------------------------------------------------------------------------
\* _EVENT_TRIGGERS: a kind without a weight triggers nothing.
EventWeight ==
    [earnings_surprise |-> 300, high_impact_news |-> 250, fresh_filing |-> 150,
     unusual_volume |-> 150, macro_move |-> 150, insider_cluster |-> 200,
     pullback_from_high |-> 200, uptrend_pullback |-> 250, breakout |-> 250,
     relative_strength |-> 150, sector_leadership |-> 100, earnings_revision |-> 200,
     elevated_short_interest |-> 100, finviz_screen |-> 100]

HighConviction == 6200

\* What speaks for a review; only an owner's request does without the rest.
Grounds(conviction, events, s, held) ==
    {EventWeight[e.kind] + e.score : e \in {e \in events : e.kind \in DOMAIN EventWeight}}
    \cup (IF s.off >= -15 THEN {250} ELSE {})
    \cup (IF AtLeast(s.rvol, 200) THEN {150} ELSE {})
    \cup (IF held THEN {200} ELSE {})
    \cup (IF conviction >= HighConviction THEN {100 + conviction \div 100} ELSE {})

NoTrigger == 0

\* evaluate_trigger: the priority of the best ground above the mode's floor.
Trigger(conviction, events, s, held, requested, floor) ==
    LET grounds == Grounds(conviction, events, s, held)
    IN  IF requested THEN 1000
        ELSE IF grounds # {} /\ conviction >= floor THEN Max(grounds) ELSE NoTrigger

\* rank_and_cap: the highest priority first, then by the alphabet.
Precedes(x, y, priority, rank) ==
    priority[x] > priority[y] \/ (priority[x] = priority[y] /\ rank[x] < rank[y])

Finalists(priority, rank, cap) ==
    LET triggered == {x \in DOMAIN priority : priority[x] # NoTrigger}
    IN  {x \in triggered : Cardinality({y \in triggered : Precedes(y, x, priority, rank)}) < cap}

-----------------------------------------------------------------------------
\* Python's round: to the nearest, a half to the even side.
Rounded(n, d) ==
    LET down == n \div d
        rest == n % d
    IN  IF 2 * rest > d \/ (2 * rest = d /\ down % 2 = 1) THEN down + 1 ELSE down

\* facts_fingerprint: indicators in buckets, headlines by their text, and no
\* price, size or score.
Fingerprint(x, s, regime, strategy, news, earnings) ==
    [symbol |-> x, strategy |-> strategy, regime |-> regime,
     rsi |-> IF s.rsi = NotKnown THEN NotKnown ELSE Rounded(s.rsi, 5),
     trend |-> <<s.sma20, s.sma50, s.sma200>>,
     macd |-> IF s.macd = NotKnown THEN NotKnown ELSE s.macd > 0,
     off |-> Rounded(s.off, 50),
     rvol |-> IF s.rvol = NotKnown THEN NotKnown ELSE Rounded(s.rvol, 10),
     news |-> news, earnings |-> earnings]

\* The model's stances; a caution stands as a confirmation does, with a lower
\* conviction.  Without a review a candidate has none.
Stances == {"confirm", "reject"}

\* Mutant of Standing: the model's reject is not heard.
StandingDespiteReject(c) == IF c.action = "BUY" /\ c.shares = 0 THEN "NO_TRADE" ELSE c.action

\* synthesize_signal: a BUY without a size and a rejected trade stand down.
Standing(c) ==
    IF (c.action = "BUY" /\ c.shares = 0)
       \/ (c.action \in {"BUY", "SELL"} /\ c.stance = "reject")
    THEN "NO_TRADE" ELSE c.action
=============================================================================
