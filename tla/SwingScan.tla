----------------------------- MODULE SwingScan ------------------------------
(***************************************************************************)
(* Scans of the swing book (sentinel/swing/pipeline.py) in sessions of     *)
(* their own: the scheduled one of the worker and the owner's "Scan now"   *)
(* may overlap.  A scan screens the universe on bars (build_screen_context)*)
(* and, later, analyses the survivors on one reading of portfolio and      *)
(* profile; it has its finalists reviewed one by one, each time through    *)
(* the cache of reviews (agents/review.py, data/cache.py), and gates its   *)
(* signals against the portfolio and profile it read before.  Only the     *)
(* correlations are read from the database again.                          *)
(*                                                                         *)
(* Meanwhile bars are ingested, the owner trades and edits the profile,    *)
(* and cached reviews expire.  A row of the cache a session has written    *)
(* and not committed makes another writer of its key wait; the database    *)
(* breaks a deadlock by failing one of the waiters, and a scan that fails  *)
(* rolls everything back.                                                  *)
(***************************************************************************)
EXTENDS ReviewPolicy

CONSTANTS Universe,     \* symbols scanned
          Rank,         \* Rank[x]: the place of x in the alphabet
          Sessions,
          Histories,    \* price histories a symbol may have
          Facts,        \* Facts[x]: sector and capitalisation of x
          Tapes,        \* states of the benchmark
          Events,       \* Events[x]: the discovery events on x
          Earnings,     \* Earnings[x]: trading days to its earnings, or NotKnown
          Correlations, \* correlation of any two symbols, in bp
          Start,        \* [shares, cash, stock, corr, priorClose] in the beginning
          Profiles, FirstProfile,
          Mode,         \* the operating mode
          MaxCandidates,    \* max_candidates of the screen
          SWING_MAX_REVIEWS,
          Lots,         \* shares the owner buys or sells at once
          MaxScans, MaxEvents  \* bounds on scans; on what happens around them

ASSUME UniverseListed == Universe \subseteq Symbols /\ Rank \in [Symbols -> Nat]

VARIABLES stock,   \* stock[x]: the history of x, with the number of its headlines
          tape,
          corr,    \* correlation of any two symbols
          shares, cash, profile,
          cache,   \* committed rows [key, stance, live] of cache_entries
          scan,    \* scan[s]: what session s knows, or Idle
          scans, events,   \* counts
          payments,  \* history: committed scans that paid for a key since it expired
          raced      \* history: keys paid for while another scan had missed them

vars == <<stock, tape, corr, shares, cash, profile, cache, scan, scans, events, payments,
          raced>>

world == <<stock, tape, corr, shares, cash, profile>>
counts == <<scans, events>>
history == <<payments, raced>>

-----------------------------------------------------------------------------
\* build_portfolio_state
Equity == cash + MapThenSumSet(LAMBDA x : shares[x] * stock[x].close, Symbols)

Portfolio ==
    [equity |-> Equity, highWater |-> Max({Start.priorClose, Equity}),
     dayPnl |-> Equity - Start.priorClose, shares |-> shares,
     price |-> [x \in Symbols |-> stock[x].close],
     sector |-> [x \in Symbols |-> Facts[x].sector]]

\* _order_for, on the snapshot and the portfolio a scan holds.
OrderOn(x, snap, n, p, moving) ==
    [symbol |-> x, action |-> "BUY", shares |-> n, price |-> MaxEntry(snap.close),
     sector |-> Facts[x].sector, adv |-> snap.adv, atr |-> (Whole * snap.atr) \div snap.close,
     earnings |-> Earnings[x], corr |-> [y \in Open(p) |-> IF y = x THEN Whole ELSE moving]]

\* The correlations are those of the moment.
OrderFor(x, snap, n, p) == OrderOn(x, snap, n, p, corr)

-----------------------------------------------------------------------------
Happens == events < MaxEvents /\ events' = events + 1

Idle == [step |-> "idle"]

NoReview == "none"

Init ==
    /\ stock = Start.stock
    /\ tape \in Tapes
    /\ corr = Start.corr
    /\ shares = Start.shares
    /\ cash = Start.cash
    /\ profile = FirstProfile
    /\ cache = {}
    /\ scan = [s \in Sessions |-> Idle]
    /\ scans = 0 /\ events = 0
    /\ payments = {}
    /\ raced = {}

\* build_screen_context, classify_regime, swing_screen: the best survivors.
Screened ==
    LET snap == [x \in Universe |-> Technicals(stock[x])]
        passing == {x \in Universe : PassesSwingScreen(snap[x], Facts[x])}
        Before(x, y) ==
            \/ Prescore(snap[x]) > Prescore(snap[y])
            \/ Prescore(snap[x]) = Prescore(snap[y]) /\ Rank[x] < Rank[y]
        kept == {x \in passing : Cardinality({y \in passing : Before(y, x)}) < MaxCandidates}
    IN  [step |-> "screened", regime |-> Regime(tape), snap |-> [x \in kept |-> snap[x]]]

Screen(s) ==
    /\ scan[s] = Idle
    /\ scans < MaxScans
    /\ scans' = scans + 1
    /\ scan' = [scan EXCEPT ![s] = Screened]
    /\ UNCHANGED <<world, cache, events, history>>

\* _review_finalists asks for reviews of what the prefilter approved only.
Priority(x, snap, conviction, pre) ==
    IF pre THEN Trigger(conviction, Events[x], snap, FALSE, FALSE, Policy(Mode).floor)
           ELSE NoTrigger

\* What the analysts, the strategies, the sizing, the prefilter and the
\* triggers make of a survivor.
Candidate(x, snap, regime, p) ==
    LET aggregate == Aggregate(snap, Facts[x], stock[x].news > 0, tape.vix # NotKnown)
        fits == SwingFits(snap, regime, aggregate)
        strategy == Select(fits)
        n == IF StrategyAction(strategy) = "BUY"
             THEN SizePosition(p.equity, snap.close, snap.atr, profile) ELSE 0
        pre == n > 0 /\ Approved(OrderFor(x, snap, n, p), p, profile)
    IN  [strategy |-> strategy, shares |-> n, pre |-> pre,
         priority |-> Priority(x, snap, Conviction(aggregate, fits[strategy]), pre),
         key |-> Fingerprint(x, snap, regime, strategy, stock[x].news, Earnings[x])]

\* build_market_context, build_portfolio_state, get_active_profile and the
\* deterministic stages.  Without the model nobody is reviewed.
Analysed(sc, useLlm) ==
    LET cand == [x \in DOMAIN sc.snap |-> Candidate(x, sc.snap[x], sc.regime, Portfolio)]
        cap == Min({SWING_MAX_REVIEWS, Policy(Mode).cap})
    IN  [step |-> "reviewing", regime |-> sc.regime, snap |-> sc.snap, cand |-> cand,
         portfolio |-> Portfolio, profile |-> profile, corr |-> corr,
         waiting |-> IF RunDepth(Mode, FALSE, useLlm) = "none" THEN {}
                     ELSE Finalists([x \in DOMAIN cand |-> cand[x].priority], Rank, cap),
         stance |-> [x \in DOMAIN cand |-> NoReview], wrote |-> {}, entry |-> Idle]

Analyse(s, useLlm) ==
    /\ scan[s].step = "screened"
    /\ scan' = [scan EXCEPT ![s] = Analysed(scan[s], useLlm)]
    /\ UNCHANGED <<world, cache, counts, history>>

Keys(rows) == {row.key : row \in rows}

\* cache_get: a live entry.
Cached(key) == {row \in cache : row.key = key /\ row.live}

\* The finalist whose turn it is.
Turn(s) ==
    LET priority == [x \in DOMAIN scan[s].cand |-> scan[s].cand[x].priority]
    IN  CHOOSE x \in scan[s].waiting :
            \A y \in scan[s].waiting \ {x} : Precedes(x, y, priority, Rank)

\* review_candidate: a stored review answers for free.
UseCached(s) ==
    /\ scan[s].step = "reviewing"
    /\ scan[s].waiting # {}
    /\ LET x == Turn(s) IN
       \E row \in Cached(scan[s].cand[x].key) :
          scan' = [scan EXCEPT ![s].waiting = @ \ {x}, ![s].stance[x] = row.stance]
    /\ UNCHANGED <<world, cache, counts, history>>

Ask(s) ==
    /\ scan[s].step = "reviewing"
    /\ scan[s].waiting # {}
    /\ Cached(scan[s].cand[Turn(s)].key) = {}
    /\ scan' = [scan EXCEPT ![s].step = "asking"]
    /\ UNCHANGED <<world, cache, counts, history>>

\* The model is out of reach or out of budget: no adjustment, nothing stored.
Unavailable(s) ==
    /\ scan[s].step = "asking"
    /\ Happens
    /\ scan' = [scan EXCEPT ![s].step = "reviewing", ![s].waiting = @ \ {Turn(s)}]
    /\ UNCHANGED <<world, cache, scans, history>>

\* A paid answer has come; cache_set looks for a row to update, or makes one.
Answer(s) ==
    /\ scan[s].step = "asking"
    /\ scan' = [scan EXCEPT ![s].step = "storing",
                   ![s].entry = [key |-> scan[s].cand[Turn(s)].key,
                                 isNew |-> scan[s].cand[Turn(s)].key \notin Keys(cache)]]
    /\ UNCHANGED <<world, cache, counts, history>>

Holds(t, key) == scan[t].step \notin {"idle", "screened"} /\ key \in Keys(scan[t].wrote)

Holders(s) ==
    {t \in Sessions \ {s} : scan[s].step = "storing" /\ Holds(t, scan[s].entry.key)}

\* The scan r once its review of x is written.
Reviewed(r, x, stance) ==
    [r EXCEPT !.step = "reviewing", !.waiting = @ \ {x}, !.stance[x] = stance, !.entry = Idle,
              !.wrote = @ \cup {[key |-> r.entry.key, stance |-> stance, live |-> TRUE]}]

Store(s) ==
    LET entry == scan[s].entry IN
    /\ scan[s].step = "storing"
    /\ Holders(s) = {}
    /\ entry.isNew => entry.key \notin Keys(cache)
    /\ \E stance \in Stances :
          scan' = [scan EXCEPT ![s] = Reviewed(scan[s], Turn(s), stance)]
    /\ UNCHANGED <<world, cache, counts, history>>

\* Mutant of Abort: a failed scan does not close its transaction.
AbortKeepsRows(s) ==
    /\ scan' = [scan EXCEPT ![s] =
           [step |-> "failed", wrote |-> IF scan[s].step = "screened" THEN {} ELSE scan[s].wrote]]
    /\ UNCHANGED <<world, cache, history>>

\* db_session: whatever raises rolls the scan back.
Abort(s) ==
    /\ scan' = [scan EXCEPT ![s] = Idle]
    /\ UNCHANGED <<world, cache, history>>

\* Another session committed the row in the meantime: the insert fails, the
\* error is not an LLMError, and nothing catches it before the job does.
KeyTaken(s) ==
    /\ scan[s].step = "storing"
    /\ Holders(s) = {}
    /\ scan[s].entry.isNew /\ scan[s].entry.key \in Keys(cache)
    /\ Abort(s)
    /\ UNCHANGED counts

\* Two sessions wait for each other's rows: the database fails one.
Deadlocked(s) ==
    /\ \E t \in Holders(s) : s \in Holders(t)
    /\ Abort(s)
    /\ UNCHANGED counts

\* Anything else that raises, in a screened scan or later.
Fault(s) ==
    /\ scan[s].step \in {"screened", "reviewing", "gated"}
    /\ Happens
    /\ Abort(s)
    /\ UNCHANGED scans

Signal(s, x) ==
    Standing([action |-> StrategyAction(scan[s].cand[x].strategy),
              shares |-> scan[s].cand[x].shares, stance |-> scan[s].stance[x]])

\* Mutant of GatePortfolio: the gate reads the portfolio anew.
GatePortfolioAnew(s) == Portfolio

GatePortfolio(s) == scan[s].portfolio

\* synthesize_signal and _apply_risk_gate on every candidate.
Gated(s) ==
    LET sc == scan[s]
        p == GatePortfolio(s)
        signal == [x \in DOMAIN sc.cand |-> Signal(s, x)]
    IN  [step |-> "gated", regime |-> sc.regime, snap |-> sc.snap, cand |-> sc.cand,
         wrote |-> sc.wrote, steady |-> sc.corr = corr, signal |-> signal,
         approved |-> {x \in DOMAIN sc.cand : signal[x] = "BUY" /\
                          Approved(OrderFor(x, sc.snap[x], sc.cand[x].shares, p), p, sc.profile)}]

Gate(s) ==
    /\ scan[s].step = "reviewing"
    /\ scan[s].waiting = {}
    /\ scan' = [scan EXCEPT ![s] = Gated(s)]
    /\ UNCHANGED <<world, cache, counts, history>>

\* Mutant of Merged: an update of a row that has expired leaves it expired.
MergedExpired(rows) ==
    {row \in cache : row.key \notin Keys(rows)}
        \cup {[row EXCEPT !.live = row.key \notin Keys(cache)] : row \in rows}

Merged(rows) == {row \in cache : row.key \notin Keys(rows)} \cup rows

Missed(t) == IF scan[t].step \in {"asking", "storing"} THEN {scan[t].cand[Turn(t)].key} ELSE {}

Commit(s) ==
    LET paid == Keys(scan[s].wrote) IN
    /\ scan[s].step = "gated"
    /\ cache' = Merged(scan[s].wrote)
    /\ scan' = [scan EXCEPT ![s] = Idle]
    /\ payments' = payments \cup {<<key, Cardinality({p \in payments : p[1] = key})>> : key \in paid}
    /\ raced' = raced \cup (paid \cap UNION {Missed(t) : t \in Sessions \ {s}})
    /\ UNCHANGED <<world, counts>>

-----------------------------------------------------------------------------
\* An ingest: the bars (and headlines) of a symbol, of the benchmark, or of a
\* pair whose correlation moves.
Ingest ==
    /\ Happens
    /\ \/ \E x \in Universe, h \in Histories : stock' = [stock EXCEPT ![x] = h] /\ UNCHANGED <<tape, corr>>
       \/ tape' \in Tapes /\ UNCHANGED <<stock, corr>>
       \/ corr' \in Correlations /\ UNCHANGED <<stock, tape>>
    /\ UNCHANGED <<shares, cash, profile, cache, scan, scans, history>>

\* TTL_LLM_REVIEW passes.
Expire ==
    /\ Happens
    /\ \E row \in cache :
          /\ row.live
          /\ cache' = (cache \ {row}) \cup {[row EXCEPT !.live = FALSE]}
          /\ payments' = {p \in payments : p[1] # row.key}
          /\ raced' = raced \ {row.key}
    /\ UNCHANGED <<world, scan, scans>>

OwnerEdits ==
    /\ Happens
    /\ \/ \E x \in Symbols, n \in Lots :
             /\ shares[x] + n >= 0
             /\ shares' = [shares EXCEPT ![x] = @ + n]
             /\ cash' = cash - n * stock[x].close
             /\ UNCHANGED profile
       \/ profile' \in Profiles \ {profile} /\ UNCHANGED <<shares, cash>>
    /\ UNCHANGED <<stock, tape, corr, cache, scan, scans, history>>

Progress(s) ==
    \/ \E useLlm \in BOOLEAN : Analyse(s, useLlm)
    \/ UseCached(s) \/ Ask(s) \/ Unavailable(s) \/ Answer(s) \/ Store(s) \/ KeyTaken(s)
    \/ Deadlocked(s) \/ Fault(s) \/ Gate(s) \/ Commit(s)

Next ==
    \/ \E s \in Sessions : Screen(s) \/ Progress(s)
    \/ Ingest \/ Expire \/ OwnerEdits

\* A scan can go on unless it waits for a row another session has not committed.
CanProgress(s) ==
    \/ scan[s].step \in {"screened", "reviewing", "asking", "gated"}
    \/ /\ scan[s].step = "storing"
       /\ Holders(s) = {} \/ \E t \in Holders(s) : s \in Holders(t)

\* A scan goes on: the client of the model has timeouts, the database breaks
\* deadlocks.  When scans start is up to the scheduler and the owner.  This is
\* WF_vars(Progress(s)) with the condition that enables it written out.
Fairness ==
    \A s \in Sessions : []<><<scan'[s] # scan[s]>>_vars \/ []<>~CanProgress(s)

Spec == Init /\ [][Next]_vars /\ Fairness
-----------------------------------------------------------------------------
BuysOf(s) == {x \in DOMAIN scan[s].signal : scan[s].signal[x] = "BUY"}

(* A BUY of the swing book has its setup on the snapshot the scan took     *)
(* (swing/strategies.py:83-85, 129-131, 181-182): the screen passed, the   *)
(* tape constructive and the condition that defines the strategy met,      *)
(* whatever points the rest of the evidence adds up to.                    *)
SetupOrCash ==
    \A s \in Sessions : scan[s].step = "gated" => \A x \in BuysOf(s) :
        /\ scan[s].regime \in {"bull-trend", "range"}
        /\ PassesSwingScreen(scan[s].snap[x], Facts[x])
        /\ CASE scan[s].cand[x].strategy = "swing-pullback" -> IsPullback(scan[s].snap[x])
             [] scan[s].cand[x].strategy = "swing-breakout" -> IsBreakout(scan[s].snap[x])
             [] OTHER                                       -> IsOversold(scan[s].snap[x])

(* "The two can never disagree about what was evaluated" (pipeline.py:96): *)
(* the gate gives every BUY the verdict of the prefilter, whatever the     *)
(* owner trades or edits while the reviews are out, as long as no ingest   *)
(* moves a correlation, which the gate reads again.                        *)
GateAgreesWithPrefilter ==
    \A s \in Sessions : scan[s].step = "gated" /\ scan[s].steady =>
        \A x \in BuysOf(s) : x \in scan[s].approved <=> scan[s].cand[x].pre

(* "The identical situation is never paid for twice" (review.py:21): two   *)
(* committed scans pay for one fingerprint within its lifetime only if one *)
(* had missed it in the cache before the other committed.                  *)
PaidOnceUnlessRaced ==
    \A p, q \in payments : p[1] = q[1] /\ p # q => p[1] \in raced

(* Every scan ends, committed or rolled back, though scans wait for each   *)
(* other's cached rows and may deadlock on them (cache.py:81-99).          *)
ScanEnds == \A s \in Sessions : scan[s].step # "idle" ~> scan[s].step = "idle"
=============================================================================
