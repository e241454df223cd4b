---------------------------- MODULE PipelineProofs ----------------------------
(***************************************************************************)
(* Proofs about Pipeline, for any symbols, markets, modes and edits of the *)
(* owner.  The model creates no trade because only candidates that had the *)
(* prefilter's approval become finalists; gate and prefilter agree because *)
(* both judge the order that the size of an undisturbed run makes, at the  *)
(* marks and correlations of the sizing while no ingest commits; limits    *)
(* change by name only because an edit holds the version it read.          *)
(***************************************************************************)
EXTENDS Pipeline, SumTheorems, TLAPS

\* The records of a run have their fields, whatever is in them.
IsCandidate(c) ==
    c = [action |-> c.action, conviction |-> c.conviction, shares |-> c.shares,
         pre |-> c.pre, priority |-> c.priority, stance |-> c.stance]

IsSignal(s) ==
    s = [action |-> s.action, shares |-> s.shares, price |-> s.price, approved |-> s.approved]

Shapes ==
    /\ candidate = [x \in Symbols |-> candidate[x]]
    /\ signal = [x \in Symbols |-> signal[x]]
    /\ \A x \in Symbols : IsCandidate(candidate[x]) /\ IsSignal(signal[x])

\* Whoever is a BUY, or passed the prefilter as one, was one before the vote.
BuysWereBuys ==
    \A x \in Symbols :
        candidate[x].action = "BUY" \/ candidate[x].pre = "approved" => first[x] = "BUY"

FinalistsPassed == \A x \in finalists : x \in Symbols /\ candidate[x].pre = "approved"

\* A signal to buy repeats its candidate, which nothing changes any more.
SignalsStand ==
    \A x \in Symbols : signal[x].action = "BUY" =>
        /\ stage \in {"gate", "done"}
        /\ candidate[x].action = "BUY" /\ candidate[x].stance # "reject"
        /\ signal[x].shares = candidate[x].shares /\ candidate[x].shares # 0
        /\ signal[x].price = MaxEntry(Price[x])

Unfiltered ==
    stage \in {"select", "size", "prefilter"} =>
        finalists = {} /\ \A x \in Symbols : candidate[x].pre = "none"

VoteInv == Shapes /\ BuysWereBuys /\ FinalistsPassed /\ SignalsStand /\ Unfiltered

\* The verdict on the order that sizing x makes of the present state.
EntryVerdict(x) == Passes(CandidateOrder(x, "BUY", Sized(x), MaxEntry(Price[x])))

Filtered == {"positions", "pick", "llm", "gate", "done"}

\* Neither the owner nor an ingest has committed anything since the sizing.
Untouched == undisturbed /\ ~ingested

\* What an untouched run knows is still so.
SizesCurrent ==
    Untouched /\ stage \in Filtered \cup {"prefilter"} =>
        \A x \in Symbols : candidate[x].action = "BUY" => candidate[x].shares = Sized(x)

VerdictsCurrent ==
    Untouched /\ stage \in Filtered =>
        \A x \in Symbols :
            /\ candidate[x].pre = "approved" => EntryVerdict(x)
            /\ candidate[x].action = "BUY" /\ candidate[x].shares # 0 /\ EntryVerdict(x) =>
                   candidate[x].pre = "approved"

AgreeInv == SizesCurrent /\ VerdictsCurrent /\ GateConfirmsPrefilter

-----------------------------------------------------------------------------
(* An order and its verdict depend on the owner's and the market's state   *)
(* only.                                                                   *)
LEMMA VerdictStays ==
    ASSUME UNCHANGED <<shares, cash, market, versions, chart>>, NEW x
    PROVE  /\ Sized(x)' = Sized(x)
           /\ EntryVerdict(x)' = EntryVerdict(x)
<1>1. Snapshot' = Snapshot
  BY DEF Snapshot, Equity, EquityOf
<1>2. profile' = profile /\ Snap(x)' = Snap(x)
  BY DEF profile, Snap
<1>3. Sized(x)' = Sized(x)
  BY <1>2 DEF Sized, Equity, EquityOf
<1>4. ASSUME NEW action, NEW n, NEW price
      PROVE  CandidateOrder(x, action, n, price)' = CandidateOrder(x, action, n, price)
  BY <1>1, <1>2 DEF CandidateOrder, SectorOf
<1>5. EntryVerdict(x)' = EntryVerdict(x)
  BY <1>1, <1>2, <1>3, <1>4 DEF EntryVerdict, Passes
<1> QED BY <1>3, <1>5

(* A review changes action, size and stance of a finalist, and sizes a BUY *)
(* anew.                                                                   *)
LEMMA RefinedCandidate ==
    ASSUME NEW x \in Symbols, IsCandidate(candidate[x]), NEW c \in Refined(x), NEW stance
    PROVE  LET d == [c EXCEPT !.stance = stance] IN
              /\ IsCandidate(d) /\ d.pre = candidate[x].pre
              /\ d.action = "BUY" => d.shares = Sized(x)
<1>1. PICK action : c = [candidate[x] EXCEPT !.action = action,
                              !.shares = IF action = "BUY" THEN Sized(x) ELSE @]
  BY DEF Refined
<1>2. /\ IsCandidate(c) /\ c.pre = candidate[x].pre /\ c.action = action
      /\ action = "BUY" => c.shares = Sized(x)
  BY <1>1 DEF IsCandidate
<1> QED BY <1>2 DEF IsCandidate

(* Only what has a priority becomes a finalist. *)
LEMMA FinalistsTriggered ==
    ASSUME NEW priority, NEW cap, NEW x \in Finalists(priority, Rank, cap)
    PROVE  x \in DOMAIN priority /\ priority[x] # NoTrigger
BY DEF Finalists

-----------------------------------------------------------------------------
(* What the owner and an ingest do leaves the run alone, and an untouched  *)
(* run has seen nothing of it.                                             *)
LEMMA OwnerKeepsRun ==
    ASSUME VoteInv, AgreeInv, UNCHANGED <<stage, run>>,
           Untouched' => Untouched /\ UNCHANGED <<shares, cash, market, versions>>
    PROVE  VoteInv' /\ AgreeInv'
<1>1. VoteInv'
  BY DEF run, VoteInv, Shapes, BuysWereBuys, FinalistsPassed, SignalsStand, Unfiltered
<1>2. AgreeInv'
  <2>1. CASE ~Untouched'
    BY <2>1 DEF AgreeInv, Untouched, SizesCurrent, VerdictsCurrent, GateConfirmsPrefilter
  <2>2. CASE Untouched'
    <3>1. \A x \in Symbols : Sized(x)' = Sized(x) /\ EntryVerdict(x)' = EntryVerdict(x)
      BY <2>2, VerdictStays DEF run, inputs
    <3>2. GateConfirmsPrefilter'
      BY <2>2 DEF run, AgreeInv, Untouched, GateConfirmsPrefilter, SameVerdicts
    <3> QED BY <2>2, <3>1, <3>2 DEF run, AgreeInv, SizesCurrent, VerdictsCurrent
  <2> QED BY <2>1, <2>2
<1> QED BY <1>1, <1>2

LEMMA OwnerSteps ==
    ASSUME VoteInv, AgreeInv,
           \/ Ingest
           \/ \E x \in Symbols, n \in Lots : RecordTrade(x, n)
           \/ \E e \in Editors, change \in Edits : ReadProfile(e, change)
           \/ \E e \in Editors : NumberVersion(e) \/ CommitVersion(e)
    PROVE  VoteInv' /\ AgreeInv'
<1>1. /\ UNCHANGED <<stage, run>>
      /\ Untouched' => Untouched /\ UNCHANGED <<shares, cash, market, versions>>
  <2>1. CASE Ingest
    BY <2>1 DEF Ingest, Untouched
  <2>2. CASE \E x \in Symbols, n \in Lots : RecordTrade(x, n)
    BY <2>2 DEF RecordTrade, Untouched
  <2>3. CASE \E e \in Editors, change \in Edits : ReadProfile(e, change)
    BY <2>3 DEF ReadProfile, Untouched, stored
  <2>4. CASE \E e \in Editors : NumberVersion(e) \/ CommitVersion(e)
    BY <2>4 DEF NumberVersion, CommitVersion, Untouched, stored
  <2> QED BY <2>1, <2>2, <2>3, <2>4
<1> QED BY <1>1, OwnerKeepsRun

(* Up to the prefilter there is nothing to agree on but the sizes.         *)
LEMMA SelectSteps ==
    ASSUME VoteInv, AgreeInv, SelectStrategies
    PROVE  VoteInv' /\ AgreeInv'
<1>1. \A x \in Symbols : /\ IsCandidate(Selected(x)) /\ Selected(x).pre = "none"
                         /\ candidate'[x] = Selected(x) /\ first'[x] = Selected(x).action
  BY DEF SelectStrategies, Selected, NoStrategy, IsCandidate
<1>2. /\ stage = "select" /\ stage' = "size" /\ finalists' = finalists /\ signal' = signal
      /\ candidate' = [x \in Symbols |-> candidate'[x]]
  BY DEF SelectStrategies
<1>3. VoteInv'
  BY <1>1, <1>2 DEF VoteInv, Shapes, BuysWereBuys, FinalistsPassed, SignalsStand, Unfiltered
<1>4. AgreeInv'
  BY <1>2 DEF AgreeInv, SizesCurrent, VerdictsCurrent, GateConfirmsPrefilter, Filtered
<1> QED BY <1>3, <1>4

LEMMA SizeSteps ==
    ASSUME VoteInv, AgreeInv, SizeCandidates
    PROVE  VoteInv' /\ AgreeInv'
<1>1. UNCHANGED <<shares, cash, market, versions, inputs, finalists, signal, first>>
  BY DEF SizeCandidates
<1>2. stage = "size" /\ stage' = "prefilter"
  BY DEF SizeCandidates
<1>3. /\ candidate' = [x \in Symbols |-> candidate'[x]]
      /\ \A x \in Symbols :
            /\ IsCandidate(candidate'[x]) /\ candidate'[x].action = candidate[x].action
            /\ candidate'[x].pre = candidate[x].pre
            /\ candidate[x].action = "BUY" => candidate'[x].shares = Sized(x)
  <2>1. candidate' = [x \in Symbols |->
            IF candidate[x].action = "BUY" THEN [candidate[x] EXCEPT !.shares = Sized(x)]
            ELSE candidate[x]]
    BY DEF SizeCandidates
  <2>2. \A x \in Symbols : IsCandidate(candidate[x])
    BY DEF VoteInv, Shapes
  <2>3. ASSUME NEW x \in Symbols, candidate[x].action = "BUY"
        PROVE  candidate'[x] = [candidate[x] EXCEPT !.shares = Sized(x)]
    BY <2>1, <2>3
  <2>4. ASSUME NEW x \in Symbols, candidate[x].action # "BUY"
        PROVE  candidate'[x] = candidate[x]
    BY <2>1, <2>4
  <2>5. ASSUME NEW x \in Symbols
        PROVE  /\ IsCandidate(candidate'[x]) /\ candidate'[x].action = candidate[x].action
               /\ candidate'[x].pre = candidate[x].pre
               /\ candidate[x].action = "BUY" => candidate'[x].shares = Sized(x)
    BY <2>2, <2>3, <2>4 DEF IsCandidate
  <2> QED BY <2>1, <2>5
<1>4. VoteInv'
  BY <1>1, <1>2, <1>3
     DEF VoteInv, Shapes, BuysWereBuys, FinalistsPassed, SignalsStand, Unfiltered
<1>5. \A x \in Symbols : Sized(x)' = Sized(x)
  BY <1>1, VerdictStays DEF inputs
<1>6. AgreeInv'
  BY <1>2, <1>3, <1>5 DEF AgreeInv, SizesCurrent, VerdictsCurrent, GateConfirmsPrefilter, Filtered
<1> QED BY <1>4, <1>6

LEMMA PrefilterSteps ==
    ASSUME VoteInv, AgreeInv, Prefilter
    PROVE  VoteInv' /\ AgreeInv'
<1>1. UNCHANGED <<shares, cash, market, versions, inputs, finalists, signal, first, undisturbed, ingested>>
  BY DEF Prefilter, owner, stored
<1>2. stage = "prefilter" /\ stage' = "positions"
  BY DEF Prefilter
<1>3. /\ candidate' = [x \in Symbols |-> candidate'[x]]
      /\ \A x \in Symbols :
            /\ IsCandidate(candidate'[x]) /\ candidate'[x].action = candidate[x].action
            /\ candidate'[x].shares = candidate[x].shares
            /\ candidate'[x].pre = "approved" <=>
                   /\ candidate[x].action = "BUY" /\ candidate[x].shares # 0
                   /\ Passes(EntryOrder(x))
  <2>1. candidate' = [x \in Symbols |->
            IF candidate[x].action # "BUY" \/ candidate[x].shares = 0 THEN candidate[x]
            ELSE [candidate[x] EXCEPT !.pre = IF Passes(EntryOrder(x)) THEN "approved" ELSE "vetoed"]]
    BY DEF Prefilter
  <2>2. \A x \in Symbols : IsCandidate(candidate[x]) /\ candidate[x].pre = "none"
    BY <1>2 DEF VoteInv, Shapes, Unfiltered
  <2>3. ASSUME NEW x \in Symbols, candidate[x].action # "BUY" \/ candidate[x].shares = 0
        PROVE  candidate'[x] = candidate[x]
    BY <2>1, <2>3
  <2>4. ASSUME NEW x \in Symbols, ~(candidate[x].action # "BUY" \/ candidate[x].shares = 0)
        PROVE  candidate'[x] = [candidate[x] EXCEPT !.pre = IF Passes(EntryOrder(x)) THEN "approved" ELSE "vetoed"]
    BY <2>1, <2>4
  <2>5. ASSUME NEW x \in Symbols
        PROVE  /\ IsCandidate(candidate'[x]) /\ candidate'[x].action = candidate[x].action
               /\ candidate'[x].shares = candidate[x].shares
               /\ candidate'[x].pre = "approved" <=>
                      /\ candidate[x].action = "BUY" /\ candidate[x].shares # 0
                      /\ Passes(EntryOrder(x))
    BY <2>2, <2>3, <2>4 DEF IsCandidate
  <2> QED BY <2>1, <2>5
<1>4. VoteInv'
  <2>1. finalists = {}
    BY <1>2 DEF VoteInv, Unfiltered
  <2> QED BY <1>1, <1>2, <1>3, <2>1
     DEF VoteInv, Shapes, BuysWereBuys, FinalistsPassed, SignalsStand, Unfiltered
<1>5. \A x \in Symbols : Sized(x)' = Sized(x) /\ EntryVerdict(x)' = EntryVerdict(x)
  BY <1>1, VerdictStays DEF inputs
<1>6. SizesCurrent'
  BY <1>1, <1>2, <1>3, <1>5 DEF Untouched, AgreeInv, SizesCurrent, Filtered
<1>7. ASSUME Untouched, NEW x \in Symbols, candidate[x].action = "BUY"
      PROVE  Passes(EntryOrder(x)) <=> EntryVerdict(x)
  BY <1>2, <1>7 DEF AgreeInv, SizesCurrent, EntryOrder, EntryVerdict
<1>8. VerdictsCurrent'
  BY <1>1, <1>3, <1>5, <1>7 DEF Untouched, VerdictsCurrent
<1>9. GateConfirmsPrefilter'
  BY <1>2 DEF GateConfirmsPrefilter
<1> QED BY <1>4, <1>6, <1>8, <1>9 DEF AgreeInv

(* Reviewing positions, choosing finalists and reviewing them.             *)
LEMMA PositionSteps ==
    ASSUME VoteInv, AgreeInv, ReviewPositions
    PROVE  VoteInv' /\ AgreeInv'
<1>1. UNCHANGED <<shares, cash, market, versions, inputs, candidate, finalists, signal, first, undisturbed, ingested>>
  BY DEF ReviewPositions, owner, stored
<1>2. stage = "positions" /\ stage' = "pick"
  BY DEF ReviewPositions
<1>3. VoteInv'
  BY <1>1, <1>2 DEF VoteInv, Shapes, BuysWereBuys, FinalistsPassed, SignalsStand, Unfiltered
<1>4. \A x \in Symbols : Sized(x)' = Sized(x) /\ EntryVerdict(x)' = EntryVerdict(x)
  BY <1>1, VerdictStays DEF inputs
<1>5. AgreeInv'
  BY <1>1, <1>2, <1>4 DEF Untouched, AgreeInv, SizesCurrent, VerdictsCurrent, GateConfirmsPrefilter, Filtered
<1> QED BY <1>3, <1>5

LEMMA PickSteps ==
    ASSUME VoteInv, AgreeInv, PickFinalists
    PROVE  VoteInv' /\ AgreeInv'
<1>1. UNCHANGED <<shares, cash, market, versions, inputs, signal, first, undisturbed, ingested>>
  BY DEF PickFinalists, owner, stored
<1>2. stage = "pick" /\ stage' = "llm"
  BY DEF PickFinalists
<1>3. /\ candidate' = [x \in Symbols |-> candidate'[x]]
      /\ \A x \in Symbols :
            /\ IsCandidate(candidate'[x]) /\ candidate'[x].action = candidate[x].action
            /\ candidate'[x].shares = candidate[x].shares /\ candidate'[x].pre = candidate[x].pre
            /\ candidate'[x].stance = candidate[x].stance
  <2>1. CASE depth = "none"
    BY <2>1 DEF PickFinalists, VoteInv, Shapes
  <2>2. CASE depth # "none"
    <3>1. PICK priority : candidate' = [x \in Symbols |-> [candidate[x] EXCEPT !.priority = priority[x]]]
      BY <2>2 DEF PickFinalists
    <3>2. \A x \in Symbols : IsCandidate(candidate[x])
      BY DEF VoteInv, Shapes
    <3>3. ASSUME NEW x \in Symbols
          PROVE  /\ IsCandidate(candidate'[x]) /\ candidate'[x].action = candidate[x].action
                 /\ candidate'[x].shares = candidate[x].shares /\ candidate'[x].pre = candidate[x].pre
                 /\ candidate'[x].stance = candidate[x].stance
      <4>1. candidate'[x] = [candidate[x] EXCEPT !.priority = priority[x]]
        BY <3>1
      <4> QED BY <3>2, <4>1 DEF IsCandidate
    <3> QED BY <3>1, <3>3
  <2> QED BY <2>1, <2>2
<1>4. \A x \in finalists' : x \in Symbols /\ candidate[x].pre = "approved"
  <2>1. CASE depth = "none"
    BY <2>1 DEF PickFinalists, VoteInv, FinalistsPassed
  <2>2. CASE depth # "none"
    <3> DEFINE priority == [x \in Symbols |-> Priority(x)]
    <3>1. finalists' = Finalists(priority, Rank, Policy(mode).cap)
      BY <2>2 DEF PickFinalists
    <3>2. \A x \in Symbols : Priority(x) # NoTrigger => candidate[x].pre = "approved"
      BY DEF Priority
    <3>3. \A x \in finalists' : x \in Symbols /\ priority[x] # NoTrigger
      BY <3>1, FinalistsTriggered
    <3> QED BY <3>2, <3>3
  <2> QED BY <2>1, <2>2
<1>5. VoteInv'
  BY <1>1, <1>2, <1>3, <1>4
     DEF VoteInv, Shapes, BuysWereBuys, FinalistsPassed, SignalsStand, Unfiltered
<1>6. \A x \in Symbols : Sized(x)' = Sized(x) /\ EntryVerdict(x)' = EntryVerdict(x)
  BY <1>1, VerdictStays DEF inputs
<1>7. AgreeInv'
  BY <1>1, <1>2, <1>3, <1>6
     DEF Untouched, AgreeInv, SizesCurrent, VerdictsCurrent, GateConfirmsPrefilter, Filtered
<1> QED BY <1>5, <1>7

LEMMA ReviewSteps ==
    ASSUME VoteInv, AgreeInv, ReviewFinalist
    PROVE  VoteInv' /\ AgreeInv'
<1>1. UNCHANGED <<shares, cash, market, versions, inputs, signal, first, undisturbed, ingested, stage>> /\ stage = "llm"
  BY DEF ReviewFinalist, owner, stored
<1>2. PICK x \in finalists :
          /\ finalists' = finalists \ {x}
          /\ \E c \in IF depth = "full" THEN Refined(x) ELSE {candidate[x]}, stance \in Stances :
                candidate' = [candidate EXCEPT ![x] = [c EXCEPT !.stance = stance]]
  BY DEF ReviewFinalist
<1>3. x \in Symbols /\ candidate[x].pre = "approved" /\ first[x] = "BUY" /\ IsCandidate(candidate[x])
  BY <1>2 DEF VoteInv, FinalistsPassed, BuysWereBuys, Shapes
<1>4. PICK c \in (IF depth = "full" THEN Refined(x) ELSE {candidate[x]}), stance \in Stances :
          candidate' = [candidate EXCEPT ![x] = [c EXCEPT !.stance = stance]]
  BY <1>2
<1>5. \A y \in Symbols \ {x} : candidate'[y] = candidate[y]
  BY <1>4 DEF VoteInv, Shapes
<1>6. candidate' = [y \in Symbols |-> candidate'[y]] /\ candidate'[x] = [c EXCEPT !.stance = stance]
  BY <1>3, <1>4 DEF VoteInv, Shapes
<1>7. /\ IsCandidate(candidate'[x]) /\ candidate'[x].pre = "approved"
      /\ candidate'[x].action = "BUY" =>
            candidate'[x].shares = Sized(x)
                \/ (candidate'[x].action = candidate[x].action /\ candidate'[x].shares = candidate[x].shares)
  <2>1. CASE c \in Refined(x)
    BY <1>3, <1>6, <2>1, RefinedCandidate
  <2>2. CASE c = candidate[x]
    BY <1>3, <1>6, <2>2 DEF IsCandidate
  <2> QED BY <1>4, <2>1, <2>2
<1>8. VoteInv'
  <2>1. Shapes'
    BY <1>1, <1>5, <1>6, <1>7 DEF VoteInv, Shapes
  <2>2. BuysWereBuys'
    BY <1>1, <1>3, <1>5 DEF VoteInv, BuysWereBuys
  <2>3. FinalistsPassed'
    BY <1>2, <1>5 DEF VoteInv, FinalistsPassed
  <2>4. SignalsStand'
    BY <1>1 DEF VoteInv, SignalsStand
  <2>5. Unfiltered'
    BY <1>1 DEF Unfiltered
  <2> QED BY <2>1, <2>2, <2>3, <2>4, <2>5 DEF VoteInv
<1>9. \A y \in Symbols : Sized(y)' = Sized(y) /\ EntryVerdict(y)' = EntryVerdict(y)
  BY <1>1, VerdictStays DEF inputs
<1>10. SizesCurrent'
  BY <1>1, <1>3, <1>5, <1>7, <1>9 DEF Untouched, AgreeInv, SizesCurrent, Filtered
<1>11. VerdictsCurrent'
  BY <1>1, <1>3, <1>5, <1>7, <1>9 DEF Untouched, AgreeInv, VerdictsCurrent, Filtered
<1>12. GateConfirmsPrefilter'
  BY <1>1 DEF GateConfirmsPrefilter
<1> QED BY <1>8, <1>10, <1>11, <1>12 DEF AgreeInv

(* A signal to buy is what the candidate stands for.                       *)
LEMMA SynthesizeSteps ==
    ASSUME VoteInv, AgreeInv, Synthesize
    PROVE  VoteInv' /\ AgreeInv'
<1>1. UNCHANGED <<shares, cash, market, versions, inputs, candidate, finalists, first, undisturbed, ingested>>
  BY DEF Synthesize, owner, stored
<1>2. stage = "llm" /\ stage' = "gate"
  BY DEF Synthesize
<1>3. /\ signal' = [x \in Symbols |-> signal'[x]]
      /\ \A x \in Symbols :
            /\ IsSignal(signal'[x])
            /\ signal'[x].action = "BUY" =>
                  /\ Standing(candidate[x]) = "BUY"
                  /\ signal'[x].shares = candidate[x].shares
                  /\ signal'[x].price = MaxEntry(Price[x])
  BY DEF Synthesize, StrategySignal, SellSignal, NoSignal, IsSignal
<1>4. \A x \in Symbols : Standing(candidate[x]) = "BUY" =>
          candidate[x].action = "BUY" /\ candidate[x].stance # "reject" /\ candidate[x].shares # 0
  BY DEF Standing
<1>5. VoteInv'
  BY <1>1, <1>2, <1>3, <1>4
     DEF VoteInv, Shapes, BuysWereBuys, FinalistsPassed, SignalsStand, Unfiltered
<1>6. \A x \in Symbols : Sized(x)' = Sized(x) /\ EntryVerdict(x)' = EntryVerdict(x)
  BY <1>1, VerdictStays DEF inputs
<1>7. AgreeInv'
  BY <1>1, <1>2, <1>6
     DEF Untouched, AgreeInv, SizesCurrent, VerdictsCurrent, GateConfirmsPrefilter, Filtered
<1> QED BY <1>5, <1>7

LEMMA GateSteps ==
    ASSUME VoteInv, AgreeInv, RiskGate
    PROVE  VoteInv' /\ AgreeInv'
<1>1. UNCHANGED <<shares, cash, market, versions, inputs, candidate, finalists, first, undisturbed, ingested>>
  BY DEF RiskGate, owner, stored
<1>2. stage = "gate" /\ stage' = "done"
  BY DEF RiskGate
<1> DEFINE verdict(x) == Passes(CandidateOrder(x, signal[x].action, signal[x].shares, signal[x].price))
<1>3. /\ signal' = [x \in Symbols |-> signal'[x]]
      /\ \A x \in Symbols :
            /\ IsSignal(signal'[x]) /\ signal'[x].action = signal[x].action
            /\ signal'[x].shares = signal[x].shares /\ signal'[x].price = signal[x].price
            /\ signal[x].action = "BUY" => signal'[x].approved = verdict(x)
  <2>1. signal' = [x \in Symbols |->
            IF signal[x] = NoSignal THEN NoSignal ELSE [signal[x] EXCEPT !.approved = verdict(x)]]
    BY DEF RiskGate
  <2> HIDE DEF verdict
  <2>2. \A x \in Symbols : IsSignal(signal[x])
    BY DEF VoteInv, Shapes
  <2>3. ASSUME NEW x \in Symbols, signal[x] = NoSignal
        PROVE  signal'[x] = signal[x] /\ signal[x].action # "BUY"
    BY <2>1, <2>3 DEF NoSignal
  <2>4. ASSUME NEW x \in Symbols, signal[x] # NoSignal
        PROVE  signal'[x] = [signal[x] EXCEPT !.approved = verdict(x)]
    BY <2>1, <2>4
  <2>5. ASSUME NEW x \in Symbols
        PROVE  /\ IsSignal(signal'[x]) /\ signal'[x].action = signal[x].action
               /\ signal'[x].shares = signal[x].shares /\ signal'[x].price = signal[x].price
               /\ signal[x].action = "BUY" => signal'[x].approved = verdict(x)
    BY <2>2, <2>3, <2>4 DEF IsSignal
  <2> QED BY <2>1, <2>5
<1>4. VoteInv'
  BY <1>1, <1>2, <1>3
     DEF VoteInv, Shapes, BuysWereBuys, FinalistsPassed, SignalsStand, Unfiltered
<1>5. \A x \in Symbols : Sized(x)' = Sized(x) /\ EntryVerdict(x)' = EntryVerdict(x)
  BY <1>1, VerdictStays DEF inputs
<1>6. SizesCurrent' /\ VerdictsCurrent'
  BY <1>1, <1>2, <1>5 DEF Untouched, AgreeInv, SizesCurrent, VerdictsCurrent, Filtered
<1>7. GateConfirmsPrefilter'
  <2> SUFFICES ASSUME Untouched, NEW x \in Symbols, signal[x].action = "BUY"
               PROVE  signal'[x].approved <=> candidate[x].pre = "approved"
    BY <1>1, <1>3 DEF GateConfirmsPrefilter, SameVerdicts, Untouched
  <2>1. /\ candidate[x].action = "BUY" /\ candidate[x].shares # 0
        /\ signal[x].shares = candidate[x].shares /\ signal[x].price = MaxEntry(Price[x])
    BY DEF VoteInv, SignalsStand
  <2>2. candidate[x].shares = Sized(x)
    BY <1>2, <2>1 DEF AgreeInv, SizesCurrent, Filtered
  <2>3. verdict(x) = EntryVerdict(x)
    BY <2>1, <2>2 DEF EntryVerdict
  <2>4. EntryVerdict(x) <=> candidate[x].pre = "approved"
    BY <1>2, <2>1 DEF AgreeInv, VerdictsCurrent, Filtered
  <2> QED BY <1>3, <2>3, <2>4
<1> QED BY <1>4, <1>6, <1>7 DEF AgreeInv

-----------------------------------------------------------------------------
LEMMA RunInvariant == Spec => [](VoteInv /\ AgreeInv)
<1>1. Init => VoteInv /\ AgreeInv
  BY DEF Init, VoteInv, Shapes, BuysWereBuys, FinalistsPassed, SignalsStand, Unfiltered,
         AgreeInv, SizesCurrent, VerdictsCurrent, GateConfirmsPrefilter, Filtered,
         NoStrategy, NoSignal, IsCandidate, IsSignal
<1>2. VoteInv /\ AgreeInv /\ [Next]_vars => VoteInv' /\ AgreeInv'
  <2> SUFFICES ASSUME VoteInv, AgreeInv, [Next]_vars
               PROVE  VoteInv' /\ AgreeInv'
    OBVIOUS
  <2>1. CASE UNCHANGED vars
    <3>1. UNCHANGED <<stage, run>> /\ UNCHANGED <<undisturbed, ingested, shares, cash, market, versions>>
      BY <2>1 DEF vars, run, inputs
    <3> QED BY <3>1, OwnerKeepsRun DEF Untouched
  <2>2. CASE Next
    BY <2>2, SelectSteps, SizeSteps, PrefilterSteps, PositionSteps, PickSteps, ReviewSteps,
       SynthesizeSteps, GateSteps, OwnerSteps DEF Next
  <2> QED BY <2>1, <2>2
<1> QED BY <1>1, <1>2, PTL DEF Spec

(* The model never creates a trade, whatever it votes and says and whatever*)
(* the owner edits meanwhile.                                              *)
THEOREM ModelCreatesNothing == Spec => []ModelNeverCreatesTrade
<1>1. VoteInv => ModelNeverCreatesTrade
  BY DEF VoteInv, BuysWereBuys, SignalsStand, ModelNeverCreatesTrade
<1> QED BY <1>1, RunInvariant, PTL

(* In a run that neither an edit of the owner nor an ingest disturbs after *)
(* the sizing, the gate confirms the prefilter on every BUY, a second      *)
(* sizing in between or not.                                               *)
THEOREM GateConfirms == Spec => []GateConfirmsPrefilter
<1>1. AgreeInv => GateConfirmsPrefilter
  BY DEF AgreeInv
<1> QED BY <1>1, RunInvariant, PTL

-----------------------------------------------------------------------------
Version == [limits : Limited, named : SUBSET Limits, base : Nat]

Reading   == [step : {"read"}, limits : Limited, named : SUBSET Limits, base : Nat]
Numbering == [step : {"numbered"}, limits : Limited, named : SUBSET Limits, base : Nat,
              version : Nat]

ProfileTypes ==
    /\ versions \in Seq(Version) /\ versions # <<>>
    /\ edit \in [Editors -> {NoEdit} \cup Reading \cup Numbering]

\* An edit changes what it names in the version it has read.
EditsTheirBase ==
    \A e \in Editors : edit[e] # NoEdit =>
        /\ edit[e].base \in 1 .. Len(versions)
        /\ \A f \in Limits :
              edit[e].limits[f] # versions[edit[e].base].limits[f] => f \in edit[e].named

ProfileInv == ProfileTypes /\ EditsTheirBase /\ LimitsAsEdited

(* A partial update is a profile, and differs where it says. *)
LEMMA PartialUpdate ==
    ASSUME NEW current \in Limited, NEW change \in Edits
    PROVE  /\ Updated(current, change) \in Limited
           /\ DOMAIN change \subseteq Limits
           /\ \A f \in Limits : Updated(current, change)[f] # current[f] => f \in DOMAIN change
BY ProfileAssumption DEF Updated, Limited

LEMMA ProfileKept ==
    ASSUME ProfileInv, [Next]_vars
    PROVE  ProfileInv'
<1> USE DEF ProfileInv
<1>1. ASSUME UNCHANGED <<versions, edit>>
      PROVE  ProfileInv'
  BY <1>1 DEF ProfileTypes, EditsTheirBase, LimitsAsEdited
<1>2. ASSUME NEW e \in Editors, NEW change \in Edits, ReadProfile(e, change)
      PROVE  ProfileInv'
  <2>1. versions' = versions
    BY <1>2 DEF ReadProfile
  <2>2. /\ Len(versions) \in Nat \ {0} /\ profile = versions[Len(versions)].limits
        /\ profile \in Limited
    <3>1. Len(versions) \in Nat \ {0} /\ versions[Len(versions)] \in Version
      BY DEF ProfileTypes
    <3>2. profile = versions[Len(versions)].limits
      BY DEF profile, Last
    <3> QED BY <3>1, <3>2 DEF Version
  <2> DEFINE new == [step |-> "read", limits |-> Updated(profile, change),
                     named |-> DOMAIN change, base |-> Len(versions)]
  <2>3. edit' = [edit EXCEPT ![e] = new]
    BY <1>2 DEF ReadProfile
  <2>4. new \in Reading
    BY <2>2, PartialUpdate DEF Reading
  <2>5. ProfileTypes'
    BY <2>1, <2>3, <2>4 DEF ProfileTypes
  <2>6. EditsTheirBase'
    <3> SUFFICES ASSUME NEW d \in Editors, edit'[d] # NoEdit
                 PROVE  /\ edit'[d].base \in 1 .. Len(versions)
                        /\ \A f \in Limits :
                              edit'[d].limits[f] # versions[edit'[d].base].limits[f] => f \in edit'[d].named
      BY <2>1 DEF EditsTheirBase
    <3>1. CASE d = e
      <4>1. edit'[d] = new
        BY <2>3, <3>1 DEF ProfileTypes
      <4> QED BY <2>2, <4>1, PartialUpdate
    <3>2. CASE d # e
      BY <2>3, <3>2 DEF ProfileTypes, EditsTheirBase
    <3> QED BY <3>1, <3>2
  <2> QED BY <2>1, <2>5, <2>6 DEF LimitsAsEdited
<1>3. ASSUME NEW e \in Editors, NumberVersion(e)
      PROVE  ProfileInv'
  <2>1. versions' = versions /\ edit[e] \in Reading
    BY <1>3 DEF NumberVersion, ProfileTypes, NoEdit, Numbering
  <2> DEFINE new == [step |-> "numbered", limits |-> edit[e].limits, named |-> edit[e].named,
                     base |-> edit[e].base, version |-> Len(versions) + 1]
  <2>2. edit' = [edit EXCEPT ![e] = new]
    BY <1>3 DEF NumberVersion
  <2>3. new \in Numbering
    BY <2>1 DEF Reading, Numbering, ProfileTypes
  <2>4. ProfileTypes'
    BY <2>1, <2>2, <2>3 DEF ProfileTypes
  <2>5. edit[e] # NoEdit
    BY <2>1 DEF Reading, NoEdit
  <2>6. EditsTheirBase'
    <3> SUFFICES ASSUME NEW d \in Editors, edit'[d] # NoEdit
                 PROVE  /\ edit'[d].base \in 1 .. Len(versions)
                        /\ \A f \in Limits :
                              edit'[d].limits[f] # versions[edit'[d].base].limits[f] => f \in edit'[d].named
      BY <2>1 DEF EditsTheirBase
    <3>1. CASE d = e
      <4>1. edit'[d] = new
        BY <2>2, <3>1 DEF ProfileTypes
      <4> QED BY <2>5, <3>1, <4>1 DEF EditsTheirBase
    <3>2. CASE d # e
      BY <2>2, <3>2 DEF ProfileTypes, EditsTheirBase
    <3> QED BY <3>1, <3>2
  <2> QED BY <2>1, <2>4, <2>6 DEF LimitsAsEdited
<1>4. ASSUME NEW e \in Editors, CommitVersion(e)
      PROVE  ProfileInv'
  <2>1. edit' = [edit EXCEPT ![e] = NoEdit] /\ edit[e] \in Numbering /\ edit[e] # NoEdit
    BY <1>4 DEF CommitVersion, ProfileTypes, NoEdit, Reading, Numbering
  <2>2. CASE versions' = versions
    <3>1. ProfileTypes'
      BY <2>1, <2>2 DEF ProfileTypes
    <3>2. EditsTheirBase'
      BY <2>1, <2>2 DEF ProfileTypes, EditsTheirBase
    <3> QED BY <2>2, <3>1, <3>2 DEF LimitsAsEdited
  <2>3. CASE versions' # versions
    <3> DEFINE new == [limits |-> edit[e].limits, named |-> edit[e].named, base |-> edit[e].base]
               n == Len(versions)
    <3>1. versions' = Append(versions, new)
      BY <1>4, <2>3 DEF CommitVersion
    <3>2. new \in Version
      BY <2>1 DEF Numbering, Version
    <3>3. /\ versions' \in Seq(Version) /\ versions' # <<>> /\ Len(versions') = n + 1 /\ n \in Nat
          /\ versions'[n + 1] = new /\ \A i \in 1 .. n : versions'[i] = versions[i]
      BY <3>1, <3>2 DEF ProfileTypes
    <3>4. ProfileTypes'
      BY <2>1, <3>3 DEF ProfileTypes
    <3>5. EditsTheirBase'
      <4> SUFFICES ASSUME NEW d \in Editors, edit'[d] # NoEdit
                   PROVE  /\ edit'[d].base \in 1 .. n + 1
                          /\ \A f \in Limits :
                                edit'[d].limits[f] # versions'[edit'[d].base].limits[f] => f \in edit'[d].named
        BY <3>3 DEF EditsTheirBase
      <4>1. edit'[d] = edit[d]
        BY <2>1 DEF ProfileTypes
      <4> QED BY <3>3, <4>1 DEF EditsTheirBase
    <3>6. LimitsAsEdited'
      <4> SUFFICES ASSUME NEW i \in 2 .. n + 1, versions'[i].base = i - 1, NEW f \in Limits,
                          versions'[i].limits[f] # versions'[i - 1].limits[f]
                   PROVE  f \in versions'[i].named
        BY <3>3 DEF LimitsAsEdited, Limits
      <4>1. CASE i \in 2 .. n
        <5>1. versions'[i] = versions[i] /\ versions'[i - 1] = versions[i - 1]
          BY <3>3, <4>1
        <5> QED BY <4>1, <5>1 DEF LimitsAsEdited, Limits
      <4>2. CASE i = n + 1
        <5>1. edit[e].base = n /\ versions'[i - 1] = versions[n] /\ versions'[i] = new
          BY <2>1, <3>3, <4>2 DEF EditsTheirBase
        <5> QED BY <2>1, <5>1 DEF EditsTheirBase
      <4> QED BY <3>3, <4>1, <4>2
    <3> QED BY <3>4, <3>5, <3>6
  <2> QED BY <2>2, <2>3
<1>5. \/ UNCHANGED <<versions, edit>>
      \/ \E e \in Editors, change \in Edits : ReadProfile(e, change)
      \/ \E e \in Editors : NumberVersion(e) \/ CommitVersion(e)
  BY DEF Next, vars, SelectStrategies, SizeCandidates, Prefilter, ReviewPositions, PickFinalists,
         ReviewFinalist, Synthesize, RiskGate, Ingest, RecordTrade, owner
<1> QED BY <1>1, <1>2, <1>3, <1>4, <1>5

(* Limits change only where an edit names them, except that an edit may    *)
(* overwrite one that committed after it had read the profile.             *)
THEOREM LimitsChangeByName == Spec => []LimitsAsEdited
<1>1. Init => ProfileInv
  BY ProfileAssumption DEF Init, ProfileInv, ProfileTypes, EditsTheirBase, LimitsAsEdited, Version
<1>2. ProfileInv /\ [Next]_vars => ProfileInv'
  BY ProfileKept
<1>3. ProfileInv => LimitsAsEdited
  BY DEF ProfileInv
<1> QED BY <1>1, <1>2, <1>3, PTL DEF Spec

-----------------------------------------------------------------------------
MoneyTypes == shares \in [Symbols -> Nat] /\ cash \in Int /\ market \in Markets

NoSellCandidate == \A x \in Symbols : candidate[x].action # "SELL"

\* What an undisturbed run sells, it still holds.
SellsFit ==
    undisturbed =>
        /\ stage \in {"pick", "llm"} =>
              \A x \in Symbols : IsSell(advice[x]) =>
                  -advice[x].delta \in 1 .. shares[x] /\ advice[x].mark \in Nat \ {0}
        /\ stage = "gate" =>
              \A x \in Symbols : signal[x].action = "SELL" =>
                  signal[x].shares \in 1 .. shares[x] /\ signal[x].price \in Nat \ {0}

SellInv == MoneyTypes /\ NoSellCandidate /\ SellsFit /\ ReductionsPassGate

LEMMA LesserOf ==
    ASSUME NEW a \in Int, NEW b \in Int
    PROVE  Min({a, b}) = IF a <= b THEN a ELSE b
<1>1. \E m \in {a, b} : \A y \in {a, b} : m <= y
  OBVIOUS
<1> QED BY <1>1 DEF Min

LEMMA GreaterOf ==
    ASSUME NEW a \in Int, NEW b \in Int
    PROVE  Max({a, b}) = IF a >= b THEN a ELSE b
<1>1. \E m \in {a, b} : \A y \in {a, b} : m >= y
  OBVIOUS
<1> QED BY <1>1 DEF Max

(* A trim sells a part of the position, or all of it.                      *)
LEMMA TrimFits ==
    ASSUME NEW h, h.shares \in Nat \ {0}, h.mark \in Nat \ {0},
           NEW p, p.equity \in Int, NEW r, r.max_position_pct \in Int
    PROVE  Trim(h, p, r) \in 1 .. h.shares
<1> DEFINE allowed == (p.equity * r.max_position_pct) \div (Whole * h.mark)
           kept == Max({0, allowed})
           sold == Max({1, h.shares - kept})
<1>1. allowed \in Int
  <2>1. p.equity * r.max_position_pct \in Int /\ Whole * h.mark \in Int /\ Whole * h.mark > 0
    BY DEF Whole
  <2> QED BY <2>1
<1>2. kept \in Nat
  <2> HIDE DEF allowed
  <2> QED BY <1>1, GreaterOf
<1>3. sold \in Nat /\ sold >= 1
  <2> HIDE DEF kept
  <2> QED BY <1>2, GreaterOf
<1>4. Trim(h, p, r) = Min({h.shares, sold})
  BY DEF Trim
<1> HIDE DEF sold
<1>5. Min({h.shares, sold}) = IF h.shares <= sold THEN h.shares ELSE sold
  BY <1>3, LesserOf
<1> QED BY <1>3, <1>4, <1>5

(* A review that sells, sells what is held.                                *)
LEMMA ReviewSellsHeld ==
    ASSUME NEW h, h.shares \in Nat \ {0}, h.mark \in Nat,
           NEW p, p.equity \in Int, NEW r, r.max_position_pct \in Int,
           IsSell(ReviewPosition(h, p, r))
    PROVE  -ReviewPosition(h, p, r).delta \in 1 .. h.shares
<1> DEFINE advised == ReviewPosition(h, p, r)
<1>1. advised.action \in {"EXIT", "REDUCE", "TAKE_PARTIAL_PROFITS"}
  BY DEF IsSell, Selling
<1>2. \/ advised = Advice("EXIT", -h.shares)
      \/ Outgrown(h, p, r) /\ advised = Advice("REDUCE", -Trim(h, p, r))
      \/ h.shares >= 2 /\ advised = Advice("TAKE_PARTIAL_PROFITS", -(h.shares \div 2))
  BY <1>1 DEF ReviewPosition, Advice
<1> HIDE DEF advised
<1>3. CASE advised = Advice("EXIT", -h.shares)
  <2>1. advised.delta = -h.shares
    BY <1>3 DEF Advice
  <2>2. -advised.delta = h.shares
    BY <2>1
  <2> QED BY <2>2 DEF advised
<1>4. CASE Outgrown(h, p, r) /\ advised = Advice("REDUCE", -Trim(h, p, r))
  <2>1. h.mark \in Nat \ {0}
    BY <1>4 DEF Outgrown
  <2>2. Trim(h, p, r) \in 1 .. h.shares
    BY <2>1, TrimFits
  <2>3. advised.delta = -Trim(h, p, r)
    BY <1>4 DEF Advice
  <2>4. -advised.delta = Trim(h, p, r)
    BY <2>2, <2>3
  <2> QED BY <2>2, <2>4 DEF advised
<1>5. CASE h.shares >= 2 /\ advised = Advice("TAKE_PARTIAL_PROFITS", -(h.shares \div 2))
  <2>1. advised.delta = -(h.shares \div 2)
    BY <1>5 DEF Advice
  <2>2. h.shares \div 2 \in 1 .. h.shares
    BY <1>5
  <2>3. -advised.delta \in 1 .. h.shares
    BY <2>1, <2>2
  <2> QED BY <2>3 DEF advised
<1> QED BY <1>2, <1>3, <1>4, <1>5

(* The portfolio a node reads, when the owner's account has its types.     *)
LEMMA SnapshotTypes ==
    ASSUME MoneyTypes, ProfileTypes
    PROVE  /\ Snapshot.equity \in Int /\ profile.max_position_pct \in Int
           /\ Snapshot.shares = shares /\ Snapshot.price = market.mark
           /\ Open(Snapshot) = {x \in Symbols : shares[x] # 0}
<1>1. Equity \in Int
  <2> DEFINE worth == [x \in Symbols |-> shares[x] * market.mark[x]]
  <2>1. \A x \in Symbols : worth[x] \in Int
    BY MarketAssumption DEF MoneyTypes
  <2>2. SumFunctionOnSet(worth, Symbols) \in Int
    <3> HIDE DEF worth
    <3> QED BY <2>1, SymbolsFinite, SumRecursion
  <2>3. DOMAIN worth = Symbols
    OBVIOUS
  <2>4. Equity = cash + SumFunctionOnSet(worth, Symbols)
    BY <2>3 DEF Equity, EquityOf, SumFunction
  <2> HIDE DEF worth
  <2> QED BY <2>2, <2>4 DEF MoneyTypes
<1>2. profile \in Limited
  <2>1. Len(versions) \in Nat \ {0} /\ versions[Len(versions)] \in Version
    BY DEF ProfileTypes
  <2>2. profile = versions[Len(versions)].limits
    BY DEF profile, Last
  <2> QED BY <2>1, <2>2 DEF Version
<1>3. profile.max_position_pct \in Int
  BY <1>2, ProfileAssumption DEF Limited
<1> QED BY <1>1, <1>3 DEF Snapshot, Open

(* The owner may change what is held; then the run is disturbed.           *)
LEMMA MoneyKept == ASSUME MoneyTypes, [Next]_vars PROVE MoneyTypes'
<1>1. CASE UNCHANGED <<shares, cash>> /\ (UNCHANGED market \/ Ingest)
  BY <1>1 DEF MoneyTypes, Ingest
<1>2. ASSUME NEW x \in Symbols, NEW lot \in Lots, RecordTrade(x, lot)
      PROVE  MoneyTypes'
  <2>1. lot \in Int /\ shares[x] \in Nat /\ market.mark[x] \in Int
    BY MarketAssumption DEF MoneyTypes
  <2>2. /\ shares[x] + lot >= 0 /\ shares' = [shares EXCEPT ![x] = @ + lot] /\ market' = market
        /\ cash' = cash - lot * market.mark[x]
    BY <1>2 DEF RecordTrade, stored
  <2>3. shares[x] + lot \in Nat /\ cash - lot * market.mark[x] \in Int
    BY <2>1, <2>2 DEF MoneyTypes
  <2> QED BY <2>2, <2>3 DEF MoneyTypes
<1>3. \/ UNCHANGED <<shares, cash>> /\ (UNCHANGED market \/ Ingest)
      \/ \E x \in Symbols, lot \in Lots : RecordTrade(x, lot)
  BY DEF Next, vars, SelectStrategies, SizeCandidates, Prefilter, ReviewPositions, PickFinalists,
         ReviewFinalist, Synthesize, RiskGate, Ingest, ReadProfile, NumberVersion, CommitVersion, owner, stored
<1> QED BY <1>1, <1>2, <1>3

LEMMA NoSellKept ==
    ASSUME VoteInv, NoSellCandidate, [Next]_vars PROVE NoSellCandidate'
<1>1. \A name : StrategyAction(name) # "SELL"
  BY DEF StrategyAction
<1>2. CASE UNCHANGED candidate
  BY <1>2 DEF NoSellCandidate
<1>3. CASE SelectStrategies
  <2>1. \A x \in Symbols : candidate'[x] = Selected(x)
    BY <1>3 DEF SelectStrategies
  <2>2. \A x \in Symbols : Selected(x).action # "SELL"
    BY <1>1 DEF Selected, NoStrategy
  <2> QED BY <2>1, <2>2 DEF NoSellCandidate
<1>4. CASE SizeCandidates \/ Prefilter \/ PickFinalists
  <2> SUFFICES ASSUME NEW x \in Symbols PROVE candidate'[x].action = candidate[x].action
    BY DEF NoSellCandidate
  <2>1. IsCandidate(candidate[x])
    BY DEF VoteInv, Shapes
  <2>2. CASE SizeCandidates
    BY <2>1, <2>2 DEF SizeCandidates, IsCandidate
  <2>3. CASE Prefilter
    BY <2>1, <2>3 DEF Prefilter, IsCandidate
  <2>4. CASE PickFinalists
    BY <2>1, <2>4 DEF PickFinalists, IsCandidate
  <2> QED BY <1>4, <2>2, <2>3, <2>4
<1>5. CASE ReviewFinalist
  <2>1. PICK x \in finalists :
            \E c \in IF depth = "full" THEN Refined(x) ELSE {candidate[x]}, stance \in Stances :
                candidate' = [candidate EXCEPT ![x] = [c EXCEPT !.stance = stance]]
    BY <1>5 DEF ReviewFinalist
  <2>2. PICK c \in IF depth = "full" THEN Refined(x) ELSE {candidate[x]}, stance \in Stances :
            candidate' = [candidate EXCEPT ![x] = [c EXCEPT !.stance = stance]]
    BY <2>1
  <2>3. x \in Symbols /\ IsCandidate(candidate[x]) /\ candidate = [y \in Symbols |-> candidate[y]]
    BY <2>1 DEF VoteInv, Shapes, FinalistsPassed
  <2>4. [c EXCEPT !.stance = stance].action # "SELL"
    <3>1. CASE c = candidate[x]
      BY <2>3, <3>1 DEF IsCandidate, NoSellCandidate
    <3>2. CASE c \in Refined(x)
      <4> DEFINE voted == UNION {{StrategyAction(name) :
                                     name \in Tied(CoreFits(Snap(x), regime, aggregate))} :
                                 aggregate \in Aggregates}
      <4>2. \A action \in voted : action # "SELL"
        BY <1>1
      <4>3. c \in {[candidate[x] EXCEPT !.action = action,
                                        !.shares = IF action = "BUY" THEN Sized(x) ELSE @] :
                      action \in voted}
        BY <3>2 DEF Refined
      <4> HIDE DEF voted
      <4>1. PICK action : /\ action # "SELL"
                          /\ c = [candidate[x] EXCEPT !.action = action,
                                      !.shares = IF action = "BUY" THEN Sized(x) ELSE @]
        BY <4>2, <4>3
      <4> QED BY <2>3, <4>1 DEF IsCandidate
    <3> QED BY <2>2, <3>1, <3>2
  <2> QED BY <2>2, <2>3, <2>4 DEF NoSellCandidate
<1>6. \/ UNCHANGED candidate \/ SelectStrategies \/ SizeCandidates \/ Prefilter
      \/ PickFinalists \/ ReviewFinalist
  BY DEF Next, vars, ReviewPositions, Synthesize, RiskGate, Ingest, RecordTrade, ReadProfile,
         NumberVersion, CommitVersion, run
<1> QED BY <1>2, <1>3, <1>4, <1>5, <1>6

(* Only position reviews make SELLs, for shares that are held.             *)
LEMMA SellsKept ==
    ASSUME VoteInv, ProfileInv, SellInv, [Next]_vars
    PROVE  SellsFit' /\ ReductionsPassGate'
<1> USE DEF SellInv
<1>1. ASSUME UNCHANGED <<stage, advice, signal>>,
             undisturbed' => undisturbed /\ UNCHANGED shares
      PROVE  SellsFit' /\ ReductionsPassGate'
  BY <1>1 DEF SellsFit, ReductionsPassGate
<1>2. CASE SelectStrategies \/ SizeCandidates \/ Prefilter
  <2>1. stage' \in {"size", "prefilter", "positions"}
    BY <1>2 DEF SelectStrategies, SizeCandidates, Prefilter
  <2> QED BY <2>1 DEF SellsFit, ReductionsPassGate
<1>3. CASE ReviewPositions
  <2>1. stage' = "pick" /\ UNCHANGED shares
    BY <1>3 DEF ReviewPositions, owner, stored
  <2>2. advice' = [x \in Symbols |->
            IF x \in Open(Snapshot) THEN Review(x) ELSE NoReview]
    BY <1>3 DEF ReviewPositions
  <2>3. ASSUME NEW x \in Symbols, IsSell(advice'[x])
        PROVE  -advice'[x].delta \in 1 .. shares[x] /\ advice'[x].mark \in Nat \ {0}
    <3>1. CASE x \in Open(Snapshot)
      <4> DEFINE verdict == ReviewPosition(Holding(x), Snapshot, profile)
      <4>1. /\ advice'[x].action = verdict.action /\ advice'[x].delta = verdict.delta
            /\ advice'[x].mark = market.mark[x]
        BY <2>2, <3>1 DEF Review
      <4>2. /\ Holding(x).shares = shares[x] /\ Holding(x).mark = market.mark[x]
            /\ shares[x] \in Nat \ {0} /\ market.mark[x] \in Nat \ {0}
        BY <3>1, SnapshotTypes, MarketAssumption DEF ProfileInv, MoneyTypes, Holding
      <4>3. Snapshot.equity \in Int /\ profile.max_position_pct \in Int
        BY SnapshotTypes DEF ProfileInv
      <4>4. IsSell(verdict)
        BY <2>3, <4>1 DEF IsSell
      <4> QED BY <4>1, <4>2, <4>3, <4>4, ReviewSellsHeld
    <3>2. CASE x \notin Open(Snapshot)
      BY <2>2, <2>3, <3>2 DEF IsSell, NoReview, Selling
    <3> QED BY <3>1, <3>2
  <2> QED BY <2>1, <2>3 DEF SellsFit, ReductionsPassGate
<1>4. CASE PickFinalists
  <2>1. stage = "pick" /\ stage' = "llm" /\ UNCHANGED <<shares, advice, undisturbed>>
    BY <1>4 DEF PickFinalists, owner
  <2> QED BY <2>1 DEF SellsFit, ReductionsPassGate
<1>5. CASE ReviewFinalist
  BY <1>1, <1>5 DEF ReviewFinalist, owner
<1>6. CASE Synthesize
  <2>1. stage = "llm" /\ stage' = "gate" /\ UNCHANGED <<shares, undisturbed>>
    BY <1>6 DEF Synthesize, owner
  <2>2. ASSUME undisturbed, NEW x \in Symbols, signal'[x].action = "SELL"
        PROVE  signal'[x].shares \in 1 .. shares[x] /\ signal'[x].price \in Nat \ {0}
    <3>1. signal'[x] = IF Covered(x) THEN StrategySignal(x)
                       ELSE IF IsSell(advice[x]) THEN SellSignal(x) ELSE NoSignal
      BY <1>6 DEF Synthesize
    <3>2. StrategySignal(x).action # "SELL" /\ NoSignal.action # "SELL"
      BY DEF StrategySignal, Standing, NoSignal, NoSellCandidate
    <3>3. IsSell(advice[x]) /\ signal'[x] = SellSignal(x)
      BY <2>2, <3>1, <3>2
    <3>4. -advice[x].delta \in 1 .. shares[x] /\ advice[x].mark \in Nat \ {0}
      BY <2>1, <2>2, <3>3 DEF SellsFit
    <3> QED BY <3>3, <3>4 DEF SellSignal
  <2> QED BY <2>1, <2>2 DEF SellsFit, ReductionsPassGate
<1>7. CASE RiskGate
  <2>1. stage = "gate" /\ stage' = "done" /\ UNCHANGED <<shares, undisturbed>>
    BY <1>7 DEF RiskGate, owner
  <2> DEFINE order(x) == CandidateOrder(x, signal[x].action, signal[x].shares, signal[x].price)
  <2>2. ASSUME undisturbed, NEW x \in Symbols, signal'[x].action = "SELL"
        PROVE  signal'[x].approved
    <3>1. signal[x].action = "SELL" /\ signal'[x].approved = Passes(order(x))
      <4>1. IsSignal(signal[x])
        BY DEF VoteInv, Shapes
      <4>2. signal'[x] = IF signal[x] = NoSignal THEN NoSignal
                         ELSE [signal[x] EXCEPT !.approved = Passes(order(x))]
        BY <1>7 DEF RiskGate
      <4> HIDE DEF order
      <4>3. signal[x] # NoSignal
        BY <2>2, <4>2 DEF NoSignal
      <4> QED BY <2>2, <4>1, <4>2, <4>3 DEF IsSignal
    <3>2. signal[x].shares \in 1 .. shares[x] /\ signal[x].price \in Nat \ {0}
      BY <2>1, <2>2, <3>1 DEF SellsFit
    <3>3. shares[x] \in Nat /\ x \in Open(Snapshot) /\ Snapshot.shares[x] = shares[x]
      <4>1. shares[x] \in Nat
        BY DEF MoneyTypes
      <4>2. shares[x] # 0
        BY <3>2, <4>1
      <4> QED BY <4>1, <4>2, SnapshotTypes DEF ProfileInv
    <3>4. /\ order(x).action = "SELL" /\ order(x).symbol = x
          /\ order(x).shares = signal[x].shares /\ order(x).price = signal[x].price
      BY <3>1, <3>2 DEF CandidateOrder
    <3> HIDE DEF order
    <3>5. OrderSanity(order(x), Snapshot)
      BY <3>2, <3>3, <3>4 DEF OrderSanity
    <3>6. Passes(order(x))
      BY <3>4, <3>5 DEF Passes, Approved
    <3> QED BY <3>1, <3>6
  <2> QED BY <2>1, <2>2 DEF SellsFit, ReductionsPassGate
<1>8. CASE UNCHANGED vars
  BY <1>1, <1>8 DEF vars
<1>9. ASSUME \/ Ingest
             \/ \E x \in Symbols, lot \in Lots : RecordTrade(x, lot)
             \/ \E e \in Editors, change \in Edits : ReadProfile(e, change)
             \/ \E e \in Editors : NumberVersion(e) \/ CommitVersion(e)
      PROVE  SellsFit' /\ ReductionsPassGate'
  <2>1. UNCHANGED <<stage, run>> /\ (undisturbed' => undisturbed /\ UNCHANGED shares)
    BY <1>9 DEF Ingest, RecordTrade, ReadProfile, NumberVersion, CommitVersion, owner
  <2> QED BY <1>1, <2>1 DEF run
<1> QED BY <1>2, <1>3, <1>4, <1>5, <1>6, <1>7, <1>8, <1>9 DEF Next

LEMMA ProfileInvariant == Spec => []ProfileInv
<1>1. Init => ProfileInv
  BY ProfileAssumption DEF Init, ProfileInv, ProfileTypes, EditsTheirBase, LimitsAsEdited, Version
<1> QED BY <1>1, ProfileKept, PTL DEF Spec

-----------------------------------------------------------------------------
\* A size is a number: it rests on an indicator that the screen has seen.
SizesKnown ==
    /\ \A x \in Symbols : "atr" \in DOMAIN chart[x] /\ chart[x].atr \in Nat
    /\ \A x \in Symbols : first[x] = "BUY" => Snap(x) # NotKnown
    /\ \A x \in Symbols : candidate[x].shares \in Int

LEMMA EquityIsInt == ASSUME MoneyTypes, ProfileTypes PROVE Equity \in Int
<1>1. Snapshot.equity \in Int
  BY SnapshotTypes
<1> QED BY <1>1 DEF Snapshot

LEMMA ProfileIsLimited == ASSUME ProfileTypes PROVE profile \in Limited
<1>1. Len(versions) \in Nat \ {0} /\ versions[Len(versions)] \in Version
  BY DEF ProfileTypes
<1>2. profile = versions[Len(versions)].limits
  BY DEF profile, Last
<1> QED BY <1>1, <1>2 DEF Version

(* size_position returns whole shares. *)
LEMMA PositionIsInt ==
    ASSUME NEW equity \in Int, NEW entry \in Nat, NEW atr \in Nat, NEW r \in Limited
    PROVE  SizePosition(equity, entry, atr, r) \in Int
<1> DEFINE stop == StopDistance(atr, r)
           risk == equity * r.risk_per_trade_pct
           cap == equity * r.max_position_pct
           byRisk == risk \div (Whole * stop)
           byCap == cap \div (Whole * entry)
<1>1. /\ r.risk_per_trade_pct \in Int /\ r.max_position_pct \in Int
      /\ r.atr_stop_multiple \in Int /\ r.atr_stop_multiple > 0
  BY ProfileAssumption DEF Limited
<1>2. CASE equity > 0 /\ entry > 0 /\ atr > 0 /\ stop < entry
  <2>1. stop \in Int /\ stop > 0
    BY <1>1, <1>2 DEF StopDistance
  <2>2. risk \in Int /\ cap \in Int
    BY <1>1
  <2>3. Whole * stop \in Int /\ Whole * stop > 0 /\ Whole * entry \in Int /\ Whole * entry > 0
    <3> HIDE DEF stop
    <3> QED BY <1>2, <2>1 DEF Whole
  <2>4. byRisk \in Int /\ byCap \in Int
    <3> HIDE DEF stop, risk, cap
    <3> QED BY <2>2, <2>3
  <2>5. SizePosition(equity, entry, atr, r) = Min({byRisk, byCap})
    BY <1>2 DEF SizePosition
  <2> HIDE DEF byRisk, byCap
  <2>6. Min({byRisk, byCap}) \in Int
    BY <2>4, LesserOf
  <2> QED BY <2>5, <2>6
<1>3. CASE ~(equity > 0 /\ entry > 0 /\ atr > 0 /\ stop < entry)
  BY <1>3 DEF SizePosition
<1> QED BY <1>2, <1>3

LEMMA SizedIsInt ==
    ASSUME MoneyTypes, ProfileTypes, SizesKnown, NEW x \in Symbols, first[x] = "BUY"
    PROVE  Sized(x) \in Int
<1>1. Snap(x).atr \in Nat
  <2>1. /\ "atr" \in DOMAIN chart[x] /\ chart[x].atr \in Nat
        /\ Technicals([chart[x] EXCEPT !.close = Price[x], !.adv = Adv[x]]) # NotKnown
    BY DEF SizesKnown, Snap
  <2> DEFINE history == [chart[x] EXCEPT !.close = Price[x], !.adv = Adv[x]]
  <2>2. "atr" \in DOMAIN history /\ history.atr = chart[x].atr
    BY <2>1
  <2> HIDE DEF history
  <2>3. Technicals(history) # NotKnown => Technicals(history).atr = history.atr
    BY <2>2 DEF Technicals
  <2> QED BY <2>1, <2>2, <2>3 DEF history, Snap
<1>2. Equity \in Int /\ profile \in Limited /\ Price[x] \in Nat
  BY EquityIsInt, ProfileIsLimited, MarketAssumption
<1> QED BY <1>1, <1>2, PositionIsInt DEF Sized

LEMMA SizesKept ==
    ASSUME VoteInv, MoneyTypes, ProfileTypes, SizesKnown, [Next]_vars
    PROVE  SizesKnown'
<1>1. UNCHANGED chart
  BY DEF Next, vars, SelectStrategies, SizeCandidates, Prefilter, ReviewPositions, PickFinalists,
         ReviewFinalist, Synthesize, RiskGate, Ingest, RecordTrade, ReadProfile, NumberVersion,
         CommitVersion, inputs, run
<1>2. \A x \in Symbols : Snap(x)' = Snap(x)
  BY <1>1 DEF Snap
<1>3. ASSUME UNCHANGED first, \A x \in Symbols : candidate'[x].shares \in Int
      PROVE  SizesKnown'
  BY <1>1, <1>2, <1>3 DEF SizesKnown
<1>4. CASE SelectStrategies
  <2>1. ASSUME NEW x \in Symbols
        PROVE  /\ candidate'[x].shares \in Int
               /\ first'[x] = "BUY" => Snap(x) # NotKnown
    <3>1. candidate'[x] = Selected(x) /\ first'[x] = candidate'[x].action
      BY <1>4 DEF SelectStrategies
    <3>2. Selected(x).shares \in Int /\ (Selected(x).action = "BUY" => Eligible(x))
      BY DEF Selected, NoStrategy
    <3> QED BY <3>1, <3>2 DEF Eligible, PassesScreen
  <2> QED BY <1>1, <1>2, <2>1 DEF SizesKnown
<1>5. CASE SizeCandidates
  <2>1. ASSUME NEW x \in Symbols PROVE candidate'[x].shares \in Int
    <3>1. IsCandidate(candidate[x]) /\ candidate[x].shares \in Int
      BY DEF VoteInv, Shapes, SizesKnown
    <3>2. candidate[x].action = "BUY" => Sized(x) \in Int
      BY SizedIsInt DEF VoteInv, BuysWereBuys
    <3>3. candidate'[x] = IF candidate[x].action = "BUY" THEN [candidate[x] EXCEPT !.shares = Sized(x)]
                          ELSE candidate[x]
      BY <1>5 DEF SizeCandidates
    <3> QED BY <3>1, <3>2, <3>3 DEF IsCandidate
  <2>2. UNCHANGED first
    BY <1>5 DEF SizeCandidates
  <2> QED BY <1>3, <2>1, <2>2
<1>6. CASE Prefilter \/ PickFinalists
  <2>1. ASSUME NEW x \in Symbols PROVE candidate'[x].shares \in Int
    <3>1. IsCandidate(candidate[x]) /\ candidate[x].shares \in Int
      BY DEF VoteInv, Shapes, SizesKnown
    <3>2. CASE Prefilter
      BY <3>1, <3>2 DEF Prefilter, IsCandidate
    <3>3. CASE PickFinalists
      BY <3>1, <3>3 DEF PickFinalists, IsCandidate
    <3> QED BY <1>6, <3>2, <3>3
  <2>2. UNCHANGED first
    BY <1>6 DEF Prefilter, PickFinalists
  <2> QED BY <1>3, <2>1, <2>2
<1>7. CASE ReviewFinalist
  <2>1. PICK x \in finalists :
            \E c \in IF depth = "full" THEN Refined(x) ELSE {candidate[x]}, stance \in Stances :
                candidate' = [candidate EXCEPT ![x] = [c EXCEPT !.stance = stance]]
    BY <1>7 DEF ReviewFinalist
  <2>2. PICK c \in IF depth = "full" THEN Refined(x) ELSE {candidate[x]}, stance \in Stances :
            candidate' = [candidate EXCEPT ![x] = [c EXCEPT !.stance = stance]]
    BY <2>1
  <2>3. /\ x \in Symbols /\ IsCandidate(candidate[x]) /\ candidate = [y \in Symbols |-> candidate[y]]
        /\ first[x] = "BUY" /\ candidate[x].shares \in Int
    BY <2>1 DEF VoteInv, Shapes, FinalistsPassed, BuysWereBuys, SizesKnown
  <2>4. Sized(x) \in Int
    BY <2>3, SizedIsInt
  <2>5. [c EXCEPT !.stance = stance].shares \in Int
    <3>1. CASE c = candidate[x]
      BY <2>3, <3>1 DEF IsCandidate
    <3>2. CASE c \in Refined(x)
      <4>1. PICK action : c = [candidate[x] EXCEPT !.action = action,
                                      !.shares = IF action = "BUY" THEN Sized(x) ELSE @]
        BY <3>2 DEF Refined
      <4> QED BY <2>3, <2>4, <4>1 DEF IsCandidate
    <3> QED BY <2>2, <3>1, <3>2
  <2>6. \A y \in Symbols : candidate'[y].shares \in Int
    BY <2>2, <2>3, <2>5 DEF SizesKnown
  <2>7. UNCHANGED first
    BY <1>7 DEF ReviewFinalist
  <2> QED BY <1>3, <2>6, <2>7
<1>8. CASE UNCHANGED <<candidate, first>>
  BY <1>3, <1>8 DEF SizesKnown
<1>9. \/ UNCHANGED <<candidate, first>> \/ SelectStrategies \/ SizeCandidates \/ Prefilter
      \/ PickFinalists \/ ReviewFinalist
  BY DEF Next, vars, ReviewPositions, Synthesize, RiskGate, Ingest, RecordTrade, ReadProfile,
         NumberVersion, CommitVersion, run
<1> QED BY <1>4, <1>5, <1>6, <1>7, <1>8, <1>9

(* A position grows by what is filled, at the limit price; the others stay *)
(* as they are.                                                            *)
LEMMA FilledPosition ==
    ASSUME MoneyTypes, NEW x \in Symbols, NEW size \in Int, signal[x].shares = size,
           NEW y \in Symbols
    PROVE  /\ PositionWorth({x}, y) = Value(Snapshot, y)
                                      + (IF y = x THEN size * MaxEntry(Price[x]) ELSE 0)
           /\ Value(Snapshot, y) \in Int /\ PositionWorth({x}, y) \in Int
           /\ MaxEntry(Price[x]) \in Int
<1>1. /\ shares[y] \in Nat /\ market.mark[y] \in Nat /\ Price[x] \in Nat
      /\ Value(Snapshot, y) = shares[y] * market.mark[y]
  BY MarketAssumption DEF MoneyTypes, Value, Snapshot
<1>2. MaxEntry(Price[x]) \in Int
  BY <1>1 DEF MaxEntry, Whole
<1>3. shares[y] * market.mark[y] \in Int /\ size * MaxEntry(Price[x]) \in Int
  BY <1>1, <1>2
<1>4. Filled({x}).shares[y] = IF y = x THEN shares[x] + size ELSE shares[y]
  BY DEF Filled, Snapshot
<1>5. CASE y = x
  <2>1. Filled({x}).shares[y] - shares[y] = size
    BY <1>1, <1>4, <1>5
  <2>2. PositionWorth({x}, y) = shares[y] * market.mark[y] + size * MaxEntry(Price[x])
    BY <1>5, <2>1 DEF PositionWorth, FillPrice
  <2> QED BY <1>1, <1>2, <1>3, <1>5, <2>2
<1>6. CASE y # x
  <2>1. Filled({x}).shares[y] - shares[y] = 0
    BY <1>1, <1>4, <1>6
  <2>2. PositionWorth({x}, y) = shares[y] * market.mark[y] + 0 * market.mark[y]
    BY <1>6, <2>1 DEF PositionWorth, FillPrice
  <2> QED BY <1>1, <1>2, <1>3, <1>6, <2>2
<1> QED BY <1>5, <1>6

(* So the worth of a set of symbols grows by the fill of one of them; what *)
(* is not held adds nothing to it.                                         *)
LEMMA FilledWorth ==
    ASSUME MoneyTypes, NEW x \in Symbols, NEW size \in Int, signal[x].shares = size,
           NEW Y \in SUBSET Symbols, x \in Y,
           NEW held \in SUBSET Y, \A y \in Y \ held : shares[y] = 0
    PROVE  WorthOf({x}, Y) = Total(Snapshot, held) + size * MaxEntry(Price[x])
<1> DEFINE after == [y \in Y |-> PositionWorth({x}, y)]
           before == [y \in Y |-> Value(Snapshot, y)]
           known == [y \in held |-> Value(Snapshot, y)]
<1>1. IsFiniteSet(Y) /\ IsFiniteSet(held)
  BY SymbolsFinite, FS_Subset
<1>2. \A y \in Y : before[y] \in Int /\ after[y] \in Int
  BY FilledPosition
<1>3. \A y \in Y \ {x} : before[y] = after[y]
  <2> TAKE y \in Y \ {x}
  <2>1. PositionWorth({x}, y) = Value(Snapshot, y) + 0 /\ Value(Snapshot, y) \in Int
    BY FilledPosition
  <2> QED BY <2>1
<1>4. after[x] = before[x] + size * MaxEntry(Price[x]) /\ size * MaxEntry(Price[x]) \in Int
  <2>1. PositionWorth({x}, x) = Value(Snapshot, x) + size * MaxEntry(Price[x])
    BY FilledPosition
  <2>2. MaxEntry(Price[x]) \in Int
    BY FilledPosition
  <2> QED BY <2>1, <2>2
<1>5. \A y \in Y \ held : before[y] = 0
  <2> TAKE y \in Y \ held
  <2>1. Value(Snapshot, y) = shares[y] * market.mark[y] /\ shares[y] = 0 /\ market.mark[y] \in Nat
    BY MarketAssumption DEF MoneyTypes, Value, Snapshot
  <2> QED BY <2>1
<1>6. \A y \in held : before[y] = known[y]
  OBVIOUS
<1>7. /\ WorthOf({x}, Y) = SumFunctionOnSet(after, Y)
      /\ Total(Snapshot, held) = SumFunctionOnSet(known, held)
  <2>1. DOMAIN after = Y /\ DOMAIN known = held
    OBVIOUS
  <2> QED BY <2>1 DEF WorthOf, Total, SumFunction
<1> HIDE DEF after, before, known
<1>8. SumFunctionOnSet(after, Y) = SumFunctionOnSet(before, Y) + after[x] - before[x]
  <2>1. IsFiniteSet(Y) /\ x \in Y
    BY <1>1
  <2>2. \A y \in Y : before[y] \in Int /\ after[y] \in Int
    BY <1>2
  <2>3. \A y \in Y \ {x} : before[y] = after[y]
    BY <1>3
  <2> QED BY <2>1, <2>2, <2>3, SumUpdate
<1>9. SumFunctionOnSet(before, Y) = SumFunctionOnSet(before, held)
  BY <1>1, <1>2, <1>5, SumSupport
<1>10. SumFunctionOnSet(before, held) = SumFunctionOnSet(known, held)
  <2>1. \A y \in held : before[y] \in Int /\ before[y] = known[y]
    BY <1>2, <1>6
  <2> QED BY <1>1, <2>1, SumEqual
<1>11. SumFunctionOnSet(before, Y) \in Int
  BY <1>1, <1>2, SumRecursion
<1> QED BY <1>2, <1>4, <1>7, <1>8, <1>9, <1>10, <1>11

(* What the gate has approved stays within the limits when it is filled.   *)
LEMMA ApprovedFits ==
    ASSUME MoneyTypes, ProfileTypes, NEW x \in Symbols, NEW size \in Int,
           signal[x].shares = size,
           Passes(CandidateOrder(x, "BUY", size, MaxEntry(Price[x])))
    PROVE  WithinLimits({x})
<1> DEFINE c == CandidateOrder(x, "BUY", size, MaxEntry(Price[x]))
           p == Snapshot
           held == Open(Snapshot)
           sector == Peers(x)
<1>1. /\ c.symbol = x /\ c.action = "BUY" /\ c.sector = SectorOf(x)
      /\ Notional(c) = size * MaxEntry(Price[x])
  BY DEF CandidateOrder, Notional
<1>2. /\ MaxPositionPct(c, p, profile) /\ MaxOpenPositions(c, p, profile)
      /\ MaxSectorPct(c, p, profile) /\ MaxPortfolioExposure(c, p, profile)
  BY <1>1 DEF Passes, Approved, EntryRules
<1>3. /\ held \subseteq Symbols /\ \A y \in Symbols \ held : shares[y] = 0
      /\ \A y \in sector : y \in Symbols /\ (p.sector[y] = SectorOf(x) \/ y = x)
  BY SnapshotTypes DEF Snapshot, Peers
<1> HIDE DEF c
<1>4. Cardinality(Open(Filled({x}))) <= profile.max_open_positions
  <2>1. Open(Filled({x})) \subseteq held \cup {x}
    BY DEF Open, Filled, Snapshot
  <2>2. IsFiniteSet(held \cup {x})
    BY <1>3, SymbolsFinite, FS_Subset, FS_AddElement
  <2>3. /\ Cardinality(Open(Filled({x}))) <= Cardinality(held \cup {x})
        /\ Cardinality(Open(Filled({x}))) \in Nat /\ Cardinality(held \cup {x}) \in Nat
    BY <2>1, <2>2, FS_Subset, FS_CardinalityType
  <2>4. Cardinality(held \cup {x}) <= profile.max_open_positions
    BY <1>1, <1>2 DEF MaxOpenPositions
  <2>5. profile.max_open_positions \in Int
    BY ProfileIsLimited, ProfileAssumption DEF Limited
  <2> HIDE DEF held
  <2> QED BY <2>3, <2>4, <2>5
<1>5. Within(PositionWorth({x}, x), profile.max_position_pct, p)
  <2>1. PositionWorth({x}, x) = Value(p, x) + Notional(c)
    BY <1>1, FilledPosition
  <2> QED BY <1>1, <1>2, <2>1 DEF MaxPositionPct
<1>6. Within(WorthOf({x}, sector), profile.max_sector_pct, p)
  <2> DEFINE peers == {y \in held : p.sector[y] = c.sector \/ y = c.symbol}
  <2>1. peers \in SUBSET sector /\ sector \in SUBSET Symbols /\ x \in sector
    BY <1>1, <1>3 DEF Peers, Snapshot
  <2>2. \A y \in sector \ peers : shares[y] = 0
    BY <1>1, <1>3
  <2>3. WorthOf({x}, sector) = Total(p, peers) + Notional(c)
    <3> HIDE DEF peers, sector, p
    <3> QED BY <1>1, <2>1, <2>2, FilledWorth DEF p
  <2> QED BY <1>2, <2>3 DEF MaxSectorPct
<1>7. Within(WorthOf({x}, Symbols), profile.max_portfolio_exposure_pct, p)
  <2>1. WorthOf({x}, Symbols) = Total(p, held) + Notional(c)
    BY <1>1, <1>3, FilledWorth
  <2> QED BY <1>2, <2>1 DEF MaxPortfolioExposure
<1> QED BY <1>4, <1>5, <1>6, <1>7 DEF WithinLimits

(* The gate changes no account, no profile and no size.                    *)
LEMMA GateKeepsFills ==
    ASSUME UNCHANGED <<shares, cash, market, versions>>, NEW x \in Symbols,
           signal'[x].shares = signal[x].shares, WithinLimits({x})
    PROVE  WithinLimits({x})'
<1>1. Snapshot' = Snapshot /\ profile' = profile
  BY DEF Snapshot, Equity, EquityOf, profile
<1>2. Filled({x})' = Filled({x})
  <2>1. \A y \in {x} : signal'[y].shares = signal[y].shares
    OBVIOUS
  <2>2. [y \in Symbols |-> IF y \in {x} THEN shares'[y] + signal'[y].shares ELSE shares'[y]]
            = [y \in Symbols |-> IF y \in {x} THEN shares[y] + signal[y].shares ELSE shares[y]]
    BY <2>1
  <2> QED BY <1>1, <2>2 DEF Filled
<1>3. ASSUME NEW y PROVE PositionWorth({x}, y)' = PositionWorth({x}, y)
  BY <1>2 DEF PositionWorth, FillPrice
<1>4. ASSUME NEW Y PROVE WorthOf({x}, Y)' = WorthOf({x}, Y)
  BY <1>3 DEF WorthOf
<1>5. Peers(x)' = Peers(x)
  BY DEF Peers
<1> QED BY <1>1, <1>2, <1>3, <1>4, <1>5 DEF WithinLimits

LEMMA GateFills ==
    ASSUME VoteInv, ProfileInv, SellInv, SizesKnown, RiskGate
    PROVE  \A x \in ActionableBuys' : WithinLimits({x})'
<1> SUFFICES ASSUME NEW x \in ActionableBuys' PROVE WithinLimits({x})'
  OBVIOUS
<1>1. x \in Symbols /\ signal'[x].action = "BUY" /\ signal'[x].approved
  BY DEF ActionableBuys, Actionable
<1> DEFINE verdict == Passes(CandidateOrder(x, signal[x].action, signal[x].shares, signal[x].price))
<1>2. UNCHANGED <<shares, cash, market, versions>>
  BY DEF RiskGate, owner, stored
<1>3. /\ signal[x].action = "BUY" /\ signal'[x].shares = signal[x].shares /\ verdict
  <2>1. IsSignal(signal[x])
    BY <1>1 DEF VoteInv, Shapes
  <2>2. signal'[x] = IF signal[x] = NoSignal THEN NoSignal
                     ELSE [signal[x] EXCEPT !.approved = verdict]
    BY <1>1 DEF RiskGate
  <2> HIDE DEF verdict
  <2>3. signal[x] # NoSignal
    BY <1>1, <2>2 DEF NoSignal
  <2> QED BY <1>1, <2>1, <2>2, <2>3 DEF IsSignal
<1>4. signal[x].shares \in Int /\ signal[x].price = MaxEntry(Price[x])
  BY <1>1, <1>3 DEF VoteInv, SignalsStand, SizesKnown
<1>5. WithinLimits({x})
  BY <1>1, <1>3, <1>4, ApprovedFits DEF SellInv, ProfileInv
<1> QED BY <1>1, <1>2, <1>3, <1>5, GateKeepsFills

\* All that is known of a run and its account.
AccountInv == SellInv /\ SizesKnown

LEMMA AccountInvariant == Spec => []AccountInv
<1>1. Init => AccountInv
  <2> SUFFICES ASSUME Init PROVE AccountInv
    OBVIOUS
  <2>1. SellInv
    BY MarketAssumption DEF Init, SellInv, MoneyTypes, NoSellCandidate, SellsFit,
                            ReductionsPassGate, NoStrategy
  <2>2. SizesKnown
    BY MarketAssumption DEF Init, SizesKnown, NoStrategy
  <2> QED BY <2>1, <2>2 DEF AccountInv
<1>2. VoteInv /\ ProfileInv /\ AccountInv /\ [Next]_vars => AccountInv'
  BY MoneyKept, NoSellKept, SellsKept, SizesKept DEF AccountInv, SellInv, ProfileInv
<1> QED BY <1>1, <1>2, RunInvariant, ProfileInvariant, PTL DEF Spec

(* In a run the owner leaves undisturbed, every SELL of a position review  *)
(* passes the gate: it sells no more than is held, and no rule but         *)
(* order_sanity concerns it (engine.py:105-312).                           *)
THEOREM WayOutIsOpen == Spec => []ReductionsPassGate
<1>1. AccountInv => ReductionsPassGate
  BY DEF AccountInv, SellInv
<1> QED BY <1>1, AccountInvariant, PTL

(* Any one BUY the gate has approved, filled at its limit price, leaves    *)
(* position, sector, exposure and open positions within the profile the    *)
(* gate saw (engine.py:89-312), whatever the owner did before.             *)
THEOREM FillsFitLimits == Spec => EachFillWithinLimits
<1>1. VoteInv /\ ProfileInv /\ AccountInv /\ [Next]_vars
          => [RiskGate => \A x \in ActionableBuys' : WithinLimits({x})']_vars
  BY GateFills DEF AccountInv
<1> QED BY <1>1, RunInvariant, ProfileInvariant, AccountInvariant, PTL
        DEF Spec, EachFillWithinLimits
===============================================================================
