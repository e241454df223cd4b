# B-Quant in TLA+

A verification project for B-Quant (`src/sentinel`): an advisory trading system
that scans instruments, drafts signals, gates them with a deterministic risk
engine, alerts its owner over Telegram, and keeps the portfolio the owner
maintains by hand. It never trades. The modules here describe the parts of it
where an order of events, a failure or a boundary decides whether it is
right; TLC checks them on small instances and TLAPS proves the most important
facts for all instances.

## 1. The system

Two processes share a Postgres database and a Redis server: the **api**
(FastAPI, one database session per request, committed at its end, `db/base.py`
29-39) and the **worker** (APScheduler, one session per job or per tier of a
job). No row is ever locked explicitly and the isolation level is Postgres'
default, READ COMMITTED. Nearly every hazard below comes from that: a session
sees what the others have committed and what it has flushed itself, statement
by statement, and an updated row stays locked until the session ends.

| component | state it keeps | operations | what is hard | what makes it correct | status |
|---|---|---|---|---|---|
| LLM spend meter (`providers/llm/client.py`) | rows of `api_usage` | `complete_json`, `_check_budget`, `_record_usage` | retries after one check; sessions blind to each other; rollback forgets spending | a bound on the overshoot; no way back before midnight | modelled, proved |
| Manual portfolio (`api/routers/portfolio.py`, `portfolio/state.py`) | `positions`, `trades`, `equity_snapshots` | `record_trade`, `build_portfolio_state`, `snapshot_equity` | lost updates; a valuation torn between two statements | never short; positions are the sum of trades; trading alone moves no equity | modelled, proved |
| Risk engine, sizing (`risk/engine.py`, `portfolio/sizing.py`) | none: pure | eleven rules, `size_position` | boundaries, strictness, which price is used | what it approves fits the limits once filled | modelled |
| Position management (`portfolio/manager.py`) | none: pure | `review_position` | its verdicts as a sequence over time | advice does not oscillate, fills restore the limits | modelled |
| Agent pipeline (`pipeline/`) | `PipelineState` of one run | nine graph nodes | every node reads the database anew, while the owner edits and ingests commit; the model votes between two evaluations | the model never makes a trade; gate and prefilter agree when nothing changed; what reduces a position gets out | modelled, proved |
| Alerts (`alerts/`, `swing/alerts.py`, `pipeline/runner.py`) | `alerts`, `signals.alert_sent`, `system_events` | routers, ops alert, scan jobs | a message cannot be rolled back, its row can; caps read across sessions | caps, flags and log agree | modelled, proved |
| Ingest, cache (`data/ingest.py`, `data/cache.py`) | market tables, `DataFreshness` | `ingest_*`, `mark_fresh`, `is_fresh` | symbols, replies and parts of rows left out, and marked fresh; row locks held through provider calls | fresh means stored, if not complete | modelled, proved |
| Scheduler (`scheduler/`) | in-process locks, job table | pre-market tiers, scans, nightly | tiers commit one by one; restarts; late runs that overlap | a published list comes with its data; the lock comes free | partly |
| Discovery (`data/discovery.py`) | candidate lists | twelve triggers, gate, cap, shortlist | a trigger that raises; ties at the cap | the cap keeps the best; failures stay local | modelled, proved |
| Evaluation (`evaluation/`) | resolutions, strategy statistics | resolve, rebuild, prior | moving, skipped and late bars; stop and target on one day; rebuilt tables | each signal resolved once, as the market did; priors are earned | partly, proved |
| Trend collection and scoring (`trends/scoring.py`, `ranking.py`, `market.py`) | documents, `trend_snapshots` | `score_all`, `rank_theme_stocks` | sources that are missing; coverage without confirmation | talk alone is capped; missing data fails closed | partly |
| Trend agent and report (`trends/agent.py`, `allocation.py`, `review.py`, `report.py`) | reports, the review cache | review, allocate, store, send | a basket gated order by order; two reports at once; text and row stored apart | the basket fits the limits; no opinion is paid for twice | modelled, proved |
| Risk profile store (`risk/store.py`, `api/routers/risk.py`) | versions of `risk_profiles` | `get_active_profile`, `save_profile`, `update_profile` | read, modify, write across sessions; two edits that take one number | a version changes what its edit names | modelled (in `Pipeline`), proved; the first read of an empty table, which stores the defaults, is left out |
| Rate limiter (`data/rate_limit.py`) | windows in Redis or in the process | `acquire`, `wait_and_acquire` | window borders, a late answer, Redis failing midway, restarts | a bound on any stretch of time; an answer in time | modelled, proved |
| Swing book (`swing/`) | nothing of its own; the review cache, signals, alerts | screen, analyse, review, gate, route alerts | scans of several minutes that overlap and share a cache, on a portfolio read before | every BUY has its setup; gate and prefilter agree; no review is paid for twice; scans end | partly (fundamentals are not enriched), proved |
| Strategy catalog and selector (`strategies/`, `swing/strategies.py`) | none: pure | eligibility, fits, ties, the model's vote | absent setups, ties with cash | the best strategy wins, cash wins ties | modelled |
| Screener, technicals, regime (`agents/`, `swing/screen.py`) | none: pure | `screen`, `swing_screen`, `classify_regime` | short histories, missing facts | missing data fails closed | partly: the arithmetic of the indicators is data |
| LLM triggers, modes (`pipeline/triggers.py`, `modes.py`) | the mode, a setting | triggers, ranking, cap, depth of a run | which candidates are worth a call | the cap goes to the best | triggers modelled; modes partly (storing a mode is one write) |
| Analysts, review and chat (`agents/analysts.py`, `agents/review.py`) | `cache_entries` | verdicts, aggregate, `review_candidate` | a paid answer lost, a row inserted twice | the model only confirms or rejects | partly: prompts and the chat are left out |
| Watchdog, event bus (`data/watchdog.py`, `data/bus.py`) | silence timer, queues | warn, publish | full queues drop, an event delivered twice | no promise a property could state | not modelled |
| Providers, indicators, schema, front end | | I/O, arithmetic, presentation | outside of what a model checker reaches | | not modelled |

How they interact. In the morning the worker's sweep (`scheduler/jobs.py`)
ingests the universe, runs discovery, publishes the candidate list and ingests
the list in depth. A scan job opens a session and runs the pipeline in it
(`pipeline/runner.py`), which reads list, portfolio and profile, calls the model
through the spend meter, evaluates every order in the risk engine, stores the
signals, and routes alerts; then the job commits, or rolls all of it back. The
trend jobs collect documents, score themes and build a report whose purchases
pass the same risk engine; theme scores nominate symbols for discovery. The
nightly job resolves the signals against the bars that were ingested, and the
statistics it rebuilds are the prior of the next signals' confidence.
Meanwhile requests of the owner change portfolio and profile, ingest, collect
and build reports.

## 2. Modules

| module | models | state and actions against the code |
|---|---|---|
| `DailyMeter` | abstract: a permit scheme | `used`, `permits`; `Grant`, `Use`, `Forget`, `NewDay` |
| `LLMBudget` | the spend meter under sessions | `ledger` = committed `api_usage` rows of today, `pending[s]` = flushed rows of session s, `attempts[s]` = the loop counter of `complete_json`; one action each for `_check_budget` passing and raising, the ends of an attempt, commit, rollback, midnight |
| `Account` | abstract: one atomic trade at a time | `held`, `net`, `contested` |
| `Portfolio` | `record_trade` and the valuation as READ COMMITTED transactions | `rows` = `positions`, `bought`/`sold` = `trades`, `lock` = the row lock of a flushed UPDATE, `request[r].seen` = the ORM's copy; one action per statement |
| `RiskEngine` | the eleven rules and `size_position` | operators, percentages in basis points |
| `PositionReview` | `review_position` | the ladder of verdicts as an operator |
| `Holdings` | following the advice over several market moves | composes `PositionReview` with the fills |
| `Screening` | technicals, regime, both screens and their rankings | operators on a price history, the facts of a symbol and the tape |
| `Strategies` | analysts' aggregate, five core strategies, three swing setups, selection, conviction | operators; a fit is a function from admitted strategies to scores |
| `ReviewPolicy` | modes, depth, triggers, finalists, the model's vote, the fingerprint, what a review may do | operators |
| `Pipeline` | one run of the graph beside the owner's trades, concurrent profile edits and ingests | `market` = the stored marks, sectors and correlations, which each node reads anew and `Ingest` moves; `stage` = the next node, `candidate`, `advice`, `signal` = fields of `PipelineState`; one action per node, `ReviewFinalist` per model call; `versions` = `risk_profiles`, `edit[e]` = what a request has read; `ReadProfile`, `NumberVersion`, `CommitVersion` are the statements of `update_profile` and its session |
| `SwingScan` | overlapping scans of the swing book with their reviews | `scan[s]` = what a session knows, step by step; `cache` = committed rows of `cache_entries`, `scan[s].wrote` = flushed ones; `Screen`, `Analyse`, `UseCached`/`Ask`/`Unavailable`/`Answer`/`Store` of one review, `Gate`, `Commit`, and the ways to fail: `KeyTaken`, `Deadlocked`, `Fault` |
| `RateLimiter` | threads of several processes on one provider's budget | `counter[k]` = the Redis key of a window and its expiry, `failed` = processes that have given Redis up, `local[p]` = a process's own window, `call[c]` = a thread in `wait_and_acquire`; one action per try, answer, failure, restart and tick |
| `AlertDelivery` | routers and scan jobs | `rows`, `flags`, `event` = what a session flushed; `alerts`, `flagged`, `audit` = what is committed; `received` = what cannot be taken back |
| `MarketDay` | the jobs and requests that ingest | `row[t][s]` = when the row was last fetched in full, `gaps` = rows whose last fetch left a part out, `marker[t][s]` = when its freshness marker expires, `listed` = the candidate list, `sweeping` = `_premarket_running`, `job[p]` = the transaction a session is in; `Call` is one `ingest_*` call, `Replies` what the provider may leave out of it; `Discover`, `CommitTx`, `Raise`, `Deadlock`, `Collides`, `Restart`, `Purge` |
| `Discovery` | one sweep of `discover` and the shortlist | `stored` = what the triggers compare, `broken` = what raises; a place in the list is the number of names ahead; the sweep is one action, since it is one transaction that nothing shares |
| `Evaluation` | signals, moving bars, the nightly job | `market` = what happened, `stored` = what was ingested of it, `evaluations`, `stats` = the tables; `unsettled` = the days no ingest has had since they were over, `misled` = outcomes found while one of theirs was; `phase` = the job that comes next in the day |
| `TrendRanking` | quality gate, pump guard, factors, composite | operators on what is stored of a stock; integers |
| `TrendScoring` | the six components, hype guard, bonus | operators on a corpus and a market; `Assess` = `score_theme` |
| `TrendReport` | sessions of the trend jobs and requests on one day | `snapshots`, `cache`, `reports` = committed rows, `session[s]` = what a transaction has read and flushed; `Look`/`Write` are the SELECT and the write of `persist_score`, `ReviewTheme` one theme of `_review_themes`, `Build`, `Send`, `Commit`, `Fail`, `Deadlocked`, `KeyTaken` |
| `MC*` | small instances | constants only |
| `SumTheorems`, `BudgetProofs`, `PortfolioProofs`, `JobProofs`, `PipelineProofs`, `SwingScanProofs`, `EvaluationProofs`, `TrendReportProofs` | theorems | see section 5 |

The decision chain is a chain of modules, `RiskEngine` <- `Screening` <-
`Strategies` <- `ReviewPolicy` <- `Pipeline` and `SwingScan`, each extending the one
before: the two books share their engine, indicators, selection and review policy,
as in the code. `Pipeline` and `Holdings` reach `PositionReview`, `TrendReport`
reaches the engine by way of `TrendRanking`: the engine that gates a signal is the
one that gates an addition and a recommended purchase. `LLMBudget` implements
`DailyMeter`, and `Portfolio` implements `Account`.

Abstractions that matter:

* `Portfolio`: everything is traded and marked at one price, so any change of
  equity is an error, and `basis` is the sign of the cost basis.
* `RiskEngine`: integers and cross products where the code divides floats;
  the rounding the code does on purpose (two decimals in the manager) is kept.
* `Screening`: the values of the indicators are fields of a history; which of them
  are known, and all that is decided on them, is computed. Scores are hundredths
  of a point.
* `Pipeline`: a symbol has any of a few charts, the tape any of a few states; all
  stages from the screen on are computed from them. What the model's interpretation
  of an analyst adds up to, and its stance, are any of a few. A fill is at the
  mark of the moment. What `load_context` reads of a candidate (bars, facts) is
  read once, as in the code; the marks, sectors and correlations that
  `build_portfolio_state` and `compute_correlations` read again in each node are
  `market`, any of a few, which an ingest replaces. The equity of the day's start and
  the high-water mark stand still: no snapshot is stored while a run lasts.
* `SwingScan`: a fingerprint is the tuple of the rounded facts it hashes; which
  stance the model takes is any. Storing and sending of signals is in
  `AlertDelivery`. The rest of a session's writes conflict with nobody.
* `RateLimiter`: one provider; time is a number of ticks, a request to Redis is
  answered or fails within `Delay` of them, and the increment and the
  expiry of a key are one step, as in the pipelined transaction of the code.
* `AlertDelivery`: signals are ranks. Quiet hours and missing credentials are
  the same as an empty list: the router returns before it tries anything.
* `MarketDay`: what is fetched is the hour it was fetched in, and whether a part of
  it was left out; a symbol without an answer (an error, a reply without rows) is
  `missed`, all of them where credentials are missing; the tables followed are a
  parameter. The clock stops at `Marks`.
* `Discovery`: a dozen kinds of stock, chosen so that each trigger fires and
  ties occur; the measures themselves (returns, z-scores) are data.
* `Evaluation`: prices are five levels; one signal per symbol and day. An ingest has
  any part of its symbols, for the trading days its lookback covers (`SweepDays` in
  the morning, `UpdateDays` around the close): one operator stands for a job that
  fails (no symbol) and for a job that skips some. Other jobs that store daily bars
  of a few symbols (the trend seeds, a forced ingest) are left out.
* `TrendScoring`: what the collectors stored is a constant; percentages are
  integers and scores hundredths of a point, so results may differ from the
  code's in the last digit. Turnover of a fund with bars is always known. Buckets
  are rounded half up, where Python rounds half to even.
* `TrendReport`: market and portfolio stand still for the day, and a cached
  review lives longer (72 h) than the day. Candidates of equal worth may be bought
  in any order. What Telegram answers is not
  followed. The insertion into the cache does not block: `PaidOnce` shows that
  two sessions never insert the same key at once. The four columns of a
  snapshot that no property tells apart from the score are left out.

## 3. Runs

| run | question | bounds, and why they suffice | result |
|---|---|---|---|
| `llm_concurrent` | what do the caps guarantee? | 2 sessions (the smallest number that cannot see each other), 2 attempts, caps of 2-3, one rollback a day | holds |
| `portfolio_concurrent` | what survives overlap? | 2 requests, 2 symbols, 4 trades: a race, an INSERT race, and a valuation beside each | holds |
| `holdings_advice` | is the advice sound as a sequence? | 2 correlated holdings, 2 moves over 6 prices and 5 charts: every rung of the ladder is reached | holds |
| `pipeline_scan` | what does a run guarantee beside edits? | a holding and a newcomer with 3 charts each, 2 tapes, modes free and smart, scheduled and on demand: depths none, review and full; 2 trades or profile edits, concurrent ones included; two states of marks, sectors and correlations, between which ingests switch at any point | holds |
| `pipeline_exits` | do reductions surface? | as before, without edits (`MaxEdits` = 0) or a model (mode free) | refuted |
| `alerts_concurrent` | caps, flags and log under overlap | 3 jobs in any overlap, caps 1 and 2, one signal more than a cap | holds |
| `market_ingest` | do markers, list and lock survive failures? | the pre-market sweep, the boot sweep and a forced ingest; 2 starts (a third session adds no conflict that a pair lacks), 1 fault, until the second morning (hour 33), when markers of the first have expired; a fault is a lost symbol, a lost call, a row without a part of it, an exception or a restart | holds |
| `discovery` | what does a failing or crowded sweep list? | 3 symbols, each any of 12 kinds, one of them outside the universe; room for 2; at most one of 5 parts raises | holds |
| `evaluation` | are outcomes, statistics and priors right? | a symbol of the universe; 3 days of any of 3 bars, a horizon of 2 days, 2 signals; any ingest may skip it, any night be lost; the sweep looks 3 days back, so that a gap is filled, the ingests around the close 1. No symbol that discovery finds: an ingest after the close that skips the symbol leaves it as it leaves a stranger, and the theorems are for both | holds |
| `trend_report` | are basket, snapshots, reviews and texts right? | 2 sessions of any of the 4 kinds, 3 markets, 4 corpora (two with the same headlines, so that the cache is hit), review caps 0 and 1 of 2 themes, 1 exception; markets in which the order of the themes depends on the corpus, so that sessions deadlock | holds |
| `swing_scan` | are BUYs founded, gates consistent, reviews paid for once, and do scans end? | 2 sessions, 3 scans, so that a third one finds what two overlapping ones left; 2 symbols whose rank may change between scans, so that sessions deadlock; 1 ingest, trade, edit, expiry or failure at any point | holds |
| `rate_limiter` | how many calls in any stretch, and how long does a caller wait? | a thread of the worker and one of the api, 2 calls a window of 2 ticks, a wait of 3, an answer up to 1 tick late; 6 ticks = three windows; 2 failures or restarts | holds |

`Holdings`, `Pipeline`, `Discovery`, `MarketDay`, `Evaluation`, `TrendReport`,
`SwingScan` and `RateLimiter` really stop (the run is over, the day ends, or the
bound on scans, moves or time is used up), so their configurations do not check
deadlock. All others do. Sessions in `TrendReport` are symmetric, and the run has
no liveness property. Type invariants are checked where a proof states them
(`LLMBudget`, `Portfolio`).

What the passing runs show, in prose:

* **Spending.** One session overshoots a cap by the attempts of one call; k
  concurrent sessions can each do so. Once the committed usage is over a cap a
  session makes at most the attempts it was in, until midnight.
* **Portfolio.** No interleaving makes a position short. A position is the sum
  of its trades as long as two requests on its symbol never overlapped, and then
  every commit is one atomic trade. An undisturbed valuation finds equity
  unchanged by trading.
* **Advice.** Following it restores the size limit at once, and it does not turn
  around while the market stands still.
* **Pipeline.** An actionable BUY had a deterministic BUY before the model's
  vote and was not rejected. Gate and prefilter agree when neither an edit of the
  owner nor an ingest has come between, and without an edit, whatever is ingested,
  every signal that reduces a position passes the gate, in a halted portfolio too
  (`ReductionsPassGate`). A single fill is within the limits the gate saw.
* **Risk profile.** A version differs from the one before only in limits its
  request names, unless another request committed in between: then an edit is
  lost (`LimitsAsEdited`). Two requests that take the same number collide, and one
  fails.
* **Swing book.** A BUY passed its screen, in a tape for setups, and has the
  setup of its strategy, however many points other evidence brings
  (`SetupOrCash`). The gate repeats the prefilter's verdict, whatever the owner
  trades or edits during the reviews, since both use what the scan read before;
  only a moved correlation makes them disagree. A review is paid for twice within
  its lifetime only after two scans missed it at the same time. Every scan ends,
  though scans may deadlock on cached rows.
* **Rate limiter.** In any stretch as long as a window a provider sees at most the
  limit for each window name its calls may be counted under - two, or more when
  answers are late - and each process that lost Redis adds at most twice the limit
  less one. The lapses are counted since the start, so after several of them, with
  restarts in between, the bound is looser than what can happen. A caller is answered by its deadline and one round trip.
* **Alerts.** The cap is exceeded only through messages a run cannot see, and
  never by more than a cap per job; flags and log agree; one book's messages
  never use up the other's cap.
* **Ingestion.** A live marker vouches for a row fetched in full within its time,
  however transactions fail or overlap, unless the last fetch left a part of the row
  out. A list that a sweep publishes comes with bars and quotes of
  every name, but for those it asked for in vain: the provider failed, had no rows,
  or there are no credentials for it. The sweep's lock comes
  free although sessions wait for each other's rows.
* **Discovery.** A tradeable name that is left off scored less than every name on
  the list, was less active, or came later in the alphabet, in this order; it never
  lost to a name the gate drops later. A trigger that raises costs
  the events it would have found.
* **Evaluation.** An outcome is what the market did, unless the night found it while
  a bar of the horizon had not been ingested since its day was over: skipped, lost
  with its job, or of a stranger, which no ingest after the close asks for. A night
  that runs resolves every signal whose horizon is over and whose bars have been
  ingested, whatever was lost before. An outcome is recorded once; statistics equal the outcomes in every committed state.
* **Trends.** All purchases of a report together fit position, sector, exposure,
  number of positions and cash. A theme nobody confirms stays at 60 points. Two
  overlapping reports never buy the same opinion, and what prevents it is the
  row lock of the theme's snapshot, not the cache. Committed snapshots are what
  the report showed, unless another session wrote the row between the report's
  SELECT and its UPDATE. The text is stored with its own report, or with one
  that has nothing in common with it.

Fairness. `MarketDay` assumes `WF_vars(Step(p))` for each session: a provider call
ends or times out (the clients have timeouts), and a session that waits for a
row gets it or is aborted as a deadlock. Jobs need not start, and the clock
need not move. `SwingScan` assumes the same of each scan: it is `WF_vars(Progress(s))`
with its enabling condition written out (`CanProgress`), since the client of the
model has timeouts and the database breaks deadlocks; when scans start, and what
happens around them, is free. `RateLimiter` needs none: that a thread wakes when it
is due, and that Redis answers or fails within `Delay`, are conditions on the
passing of time, so that its deadline is an invariant. The other specifications assume no fairness and state no liveness:
every action of theirs may stop forever, which is what a crash is.

### Where the code and its words differ

Refuted by a run, under `findings` in PROJECT.json with the line of the code and
the sentence it contradicts: a review that says EXIT is dropped when the symbol
also passes the screen (`pipeline_exits`).

Met while modelling, visible in the models, without a run of their own:

* Positions are not always derived from trades, as `portfolio.py:3` says: two
  requests on one symbol load the same row (`:40`), and the second commit
  overwrites the first. `DerivedUnlessRaced` and its theorem have the exact
  condition.
* Drawdown never counts as risk in the ranking of a theme's stocks: a number that
  is at most zero (`technicals.py:157`) is compared with +40 (`ranking.py:476`),
  though `ranking.py:17` lists it.
* Prefilter and gate do disagree in a run the owner leaves alone, though
  `graph.py:23-24` says the engine "cannot disagree with itself": each reads marks and
  correlations anew, and an ingest may have moved them. `GateConfirmsPrefilter` holds
  without the ingest only.
* A row of fundamentals without its metrics is marked as fresh for a week when the
  second fetch raises a `ProviderError` (`ingest.py:231-240`), and so is an empty one
  when both endpoints are unavailable, though `cache.py:107` says "this was fetched
  just now". `MarkersVouch` makes exactly this exception.
* Names of equal score and equal activity, often none, are cut by the alphabet
  (`discovery.py:837`), though `:835-836` says "never on the alphabet". `CapKeepsBest`
  states the order there is.
* A signal resolves on the bar of 15:30, or on a series without a day, when the ingest
  after the close did not bring its bars, though `resolve.py:3-4` says "actual daily
  bars": it asks for the universe only, and skips a symbol it does not get
  (`ingest.py:84-86`). `OutcomeIsTheMarkets` makes exactly this exception.
* Two concurrent edits of the profile: the later one writes the limits it read, so
  the other's change is lost, though `profile.py:3` says limits change by explicit
  edits only.
* `strategies/base.py:62-63` asks for a score of 0 when the setup is absent; the
  swing strategies cap the score at 25 points instead, which is enough for
  `SetupOrCash`, exactly: cash has 30 and the margin of a tie is 5.
* "The two can never disagree" (`swing/pipeline.py:95-97`): gate and prefilter do
  when an ingest moves a correlation between them. What the owner changes during
  the reviews is not seen by either, so the gate approves against an old portfolio.
* A review costs more than the cache promises: cached answers use up the review
  cap, a rollback loses the paid entries of the scan, and `review.py:265` ("never
  raises") does not hold for the flush in `cache_set`, whose unique key a
  concurrent scan may have taken: the whole scan fails. A candidate once rejected
  is proposed again when it is not among the finalists of the next scan.
* Only scans of the swing book overlap: the lock of the core book's job is not
  shared with the API (`scheduler/jobs.py:206-219`, `api/routers/trading.py:60-70`).
* The feed is told of signals before their transaction commits
  (`runner.py:82-96`, `swing/pipeline.py:363-377`); a rollback leaves the event.
* The event bus puts one dict into the queues of the process and serialises it
  afterwards (`bus.py:65`), while the web socket takes the origin out of that dict
  (`ws.py:34`): the relay may then deliver the event to the same process again. A
  full queue drops its event.
* The rate limiter counts a request that reaches Redis late under the name of the
  old window; denied calls count, too, and prolong the key's life; a process that
  saw one failure of Redis keeps its own window until it is restarted
  (`rate_limit.py:15` speaks of limits with headroom; `BurstBounded` has the bound).
* `config/models.yaml` 99-101 calls the call cap hard; the attempts of one call
  exceed it (`SessionOvershootBounded` has the exact bound).
* A scan's BUYs are approved one by one against the same portfolio, so that
  together they can exceed the exposure cap (`claude-code-master-prompt.md:177`);
  the correlated exposure leaves the candidate's own position out (`:172`).
* `runner.py:79` writes the event of a failed run into the session that every
  caller then rolls back, so the audit trail (`runner.py:2-4`) never has it.
* A signal on a symbol that discovery found outside the universe is not resolved
  once the symbol has left the list, since no job stores its bars any more
  (`models.py:274-275` says every signal resolves exactly once).
* Such strangers also pass the quality gate unseen when their bars are not loaded
  (the docstring of `discovery.py` says every name passes it).
* The owner's decision after a resolution is not reflected in the evaluation
  row, and BUYs the risk gate vetoed count in the statistics.
* The watchdog judges freshness by the newest bar of any symbol
  (`watchdog.py:7-9`, `:36`), which the trend job keeps fresh.
* A rollback removes the rows of model calls already paid for and of messages
  already sent; a valuation torn by a commit can be stored as a high-water mark;
  an edit between prefilter and gate makes the two disagree, too; two swing scans
  that overlap can together exceed the daily cap.
* Trends. A whole share is required before a fractional one is considered:
  `size_position` answers nothing for zero shares, so fractional purchases arise
  only from short cash (the docstring of `allocation.py` promises more). A
  failed review is not counted against the cap. A review lost in a rollback is
  bought again (`review.py:25-26` says never). `POST /report?send=false` stores a
  row without its text (`models.py:503-504`: one artifact). A report without any
  scorable theme stores nothing, and its empty text overwrites that of the
  latest row of the day. `POST /collect` after a report overwrites the
  reviewed scores. Two sessions that overlap can leave a snapshot whose score and
  label come from different sessions. A lowered theme can free cash for, or
  change the rank of, another theme's stock (`review.py:37-39`). A theme the
  review calls hype may stay above 45 points and be bought from, and a theme
  with too few measured components, capped at 45.0, counts as strong.
  `etf_exposure` takes the latest date over all funds, so a fund that reported
  earlier drops out. `score_all` loads bars of seeds and mentioned symbols only,
  so a basket never has the members that only funds know.

## 4. Mutants

Each property of a passing run has a mutant: an operator that changes one
mapped definition the way a plausible bug would (a dropped guard, an
off-by-one, a missing reset, a swapped order). They stand before the definition
they change, marked "Mutant of", and no specification uses them.

## 5. Proofs

Eight modules hold theorems: one on sums, and seven that each extend the modules
they are about. Every safety property of a passing run is proved for every value
of the constants that the assumptions allow. Assumptions are the ASSUMEs of the
modules, which TLC evaluates in each run; two theorems have a hypothesis of their
own, named below. The bounds of the runs (numbers of trades, days, faults, ticks)
are constants of the theorems too, so that they hold for all of them.

**SumTheorems**, for any finite set of indices: sums are folds
(`SumFunctionOnSet`), and what a fold computes is shown by induction over subsets,
which needs no operator as a parameter (`InductiveSet`). `SumAdd`, `SumLeq`,
`SumUpdate`, `SumUnion`, `SumSubset`, `SumOfCounts` are what the money of five
modules rests on; `LeastNumber` and a few facts on quotients complete it.

**BudgetProofs**: what is limited in number.

* `LLMBudget`, for any sessions, caps, attempts and charges up to `MaxCharge`:
  `TypeCorrect`, `OvershootBounded`, `DegradedHolds`, and `Refinement` (the meter
  implements `DailyMeter`, if there is a call cap). That a session's recorded usage
  is below cap plus one call is not inductive: inside the loop the room left must
  cover the attempts left (`LoopRoom`), which holds at the check because the
  session's own rows are part of what it sees (`OwnRowsInLedger`). `LateInv` does the
  same for attempts made over the cap.
* `RateLimiter`, for any threads, processes, budgets, failures and restarts:
  `AnsweredInTime` (a denied try sleeps no longer than to its deadline, and time
  passes neither a due thread nor Redis' `Delay`), and `BurstStaysBounded`. For the
  latter the invariant accounts for every admitted call (`Accounted`): it has a slot
  of its own, either a number up to the limit under a window name of Redis, or a
  place in one lapse of one process. The bound is the number of the slots that a
  stretch of a window's length can meet.
* `Discovery`, for any symbols, facts, limits and failures: `CapAlwaysKeepsBest`
  and `FailureAlwaysCostsOnlyItsEvents`. The order of a sweep is strict, so that
  counting who is ahead gives each name its own rank; the list is the names of the
  first ranks (`SweepInv`): by score, then activity, then name. A trigger that raises takes points away and gives none,
  so that no name that it did not score falls behind another.

**PortfolioProofs**: the owner's positions.

* `Portfolio`, for any symbols, requests, lots and any number of trades:
  `TypeCorrect`, `NoShortPosition`, `PositionsDerivedFromTrades`, `Refinement` (the
  portfolio implements the account). The invariant adds that a loaded row is still
  the committed one unless the symbol was raced on (`FreshUnlessRaced`) and that a
  flushed write fits (`FlushedFits`): without them a commit may write anything.
* `TradingConservesEquity`: where nobody raced the cash is what the positions have
  cost (`CashIsTheRest`, a sum over symbols of the row and its trades), and a
  valuation that has read one half holds it as long as it is undisturbed
  (`HalfCurrent`).
* `Holdings`, for any market, profile and sequence of fills: `AdviceDoesNotTurn` and
  `FillsStayWithinCap`. `Settled` says what a fill has left behind while the market
  stands still: after an addition the gain is small and the position within its
  limit, so that no rung sells; what was sold and not closed is a winner, or fills
  its limit, and is not added to. The second theorem has the hypothesis
  `max_portfolio_exposure_pct` <= 100: on margin, which the profile allows up to
  200, equity may fall to zero, and then no size is within the limit.

**PipelineProofs**, for any symbols, charts, tapes, portfolios, limits and edits:

* `ModelCreatesNothing`, `GateConfirms`, `LimitsChangeByName`. `VoteInv` follows the
  action of a candidate through the vote: a BUY was one before it, only what
  passed the prefilter is a finalist, a review's stance stays (`BuysWereBuys`,
  `FinalistsPassed`, `SignalsStand`). `AgreeInv` keeps that the size and the verdict
  stored with a candidate are those of the present state as long as nobody edits and
  nothing is ingested (`SizesCurrent`, `VerdictsCurrent`); deep analysis, which sizes again, comes to the
  same. `ProfileInv` says what a request has read.
* `WayOutIsOpen`: an undisturbed run's SELL comes from the position review only
  (`NoSellCandidate`), and it sells no more than is held (`SellsFit`), which is all
  that the engine asks of a SELL.
* `FillsFitLimits`: the gate's rules are on the portfolio it saw, the property on
  the sums after the fill (`SumUpdate`); it needs that a BUY that reaches the gate
  has a known chart and a size that is a number (`SizesKnown`).

**JobProofs**: the scheduled jobs.

* `AlertDelivery`, for any runs, signals, caps and failures: `CapHolds`,
  `FlagsAndLogAgree`, `NobodyStarves`. `LogInv` ties a session's flushed rows and
  flags to what was sent; `CapInv` counts: what a run sees bounds its own messages,
  and unless a run sent beside messages it could not see, the runs together stay
  below one cap. The bound for the day is a sum over runs, found by an injection of
  the messages into runs times places.
* `MarketDay`, for any tables, lifetimes, universe, jobs in any overlap, failures and
  restarts: `FreshMeansStored`. A marker and its row are flushed by one session and
  committed together, so what a job has flushed must vouch for itself before it is
  committed (`VouchInv`: `StoreTypes`, `JobsFit`, `RowsPast`). A fetch in full that is
  no older is what a marker stands for, or a gap, which only a fetch in full fills;
  markers run out in time (`RowsPast`), so that such a fetch is not outlived by one.
* `SweepsTopUp`, if bars and quotes are among the tables followed: `TopUpInv` says
  what a sweep has already ingested, call by call, of the list it has found and
  not yet committed (`ToppingUp`), and `missed` what it asked for in vain.

**SwingScanProofs**, for any universe, market, mode and number of overlapping scans:

* `BuysHaveTheirSetup`: a score without its setup is at most 25 points
  (`CappedScore`), so the strategy is not tied with cash at 30 (`SetupSelected`),
  and `ScanInv` carries this to the signals. `GateAgrees` rests on the same invariant.
* `PaidOnce`: `PayInv` says that what is paid for has a live row in the cache
  (`Backed`), that no two sessions hold rows of one key (`OneHolder`), and that
  whoever has missed or written a key that is paid for has raced (`RacedIfPaid`).

**EvaluationProofs**, for any symbols, bars, horizon, lookbacks, thresholds, and any
number of days, signals, skipped bars and lost nights:

* `OneResolution`: a night walks the signals that have no outcome only, and adds
  one outcome to each (`NightlyRecordsOnce`); the property counts, so outcomes and
  resolved signals are put in bijection.
* `PriorsStayEarned`: the invariant keeps that the tables are those of the outcomes
  on record, so a row counts some of its strategy's outcomes (`RowsCount`), and the
  blend does the rest (`BlendedIsEarned`). `StatsStayCurrent` adds that the row of
  all regimes is the sum of the rows of the regimes (`SumOfCounts`: the outcomes
  of a strategy, parted by regime).
* `MarketDecides` and `HorizonsEnd`: `OutcomeInv` keeps that a day's bar that is not
  unsettled is stored as the market made it, and none of a later day is stored
  (`RefreshedBars`, for each ingest). A night on which no bar of the horizon is
  unsettled therefore walks what the market did (`NightWalks`, `MarketSays`), and
  finds the end of it when the horizon is over; market bars are only appended, so
  that no later day undoes an outcome. A signal open although its horizon is over
  awaits a bar, or the night was lost.

**TrendReportProofs**, for any themes, markets, corpora, profile and review caps, and
any number of sessions, exceptions and deadlocks:

* `OpinionsArePaidOnce`, `TextStaysWithItsThemes`, `ShownIsStored` rest on one fact:
  a session that has got as far as the reviews holds the row of every theme it
  shows (`RowsFollow`), and no two sessions hold one row (`RowsLocked`). So what one
  buys is on a theme no other can review, and a report committed after another was
  numbered has no theme in common with it (`LaterElsewhere`), which is where a text
  may go astray. That the order walked names every theme shown is
  `StrongestFirstCovers`: counting who is ahead is a bijection of the themes to the
  places. `Faithful` follows a row from the look through the second writing.
* `TalkStaysCapped`: the ceiling without a confirmation (`CeilingWithoutConfirmation`)
  bounds every score, and a review only lowers it (`ReviewedIsFine`).
* `BasketsFit`: the loop of `allocate` over the candidates is a recursive function,
  shown to be defined (`BasketIsFilled`). Its invariant is on the working portfolio:
  it is the real one and the purchases so far, with the cash they left (`Carried`),
  and each purchase is within the limits of that portfolio (`Limited`). One turn
  spends at most what the engine approved and the cash (`AllocatedFits`). Only what
  passes the quality gate is rated and a candidate (`RatedAreBuyable`,
  `CandidatesAreBuyable`), so that prices and ranges are numbers. `BasketInv` keeps
  the purchases of each session.
* `ScoringAssumption` says that what the code rounds to integers (weighted
  components, bonuses, composites of members that pass the gate) are integers: in
  the model they are quotients of sums over the data a run is given.
  `TradingAssumption` says that what passes the gate has a price and a range, and
  that nothing is held short.

Assumptions that bear on what the theorems say: `ProfileAssumption` and
`MarketAssumption` of `Pipeline` and `HoldingsAssumption` (bounds of the profile's
fields as its schema states them, positive prices, no short position to begin
with), `EvaluationAssumption` (a missing bar is not a bar, "*" is not a regime),
`SweepAssumption` (the alphabet names each symbol once, measures are integers),
`MarketAssumption` of `MarketDay` (what is followed is ingested by some job).

Only model-checked: `ScanEnds` and `LockComesFree`. They are liveness properties
under weak fairness, and neither fairness of many sessions nor ENABLED is within
what the installed provers do.

## 6. Not modelled, and what is left

Not modelled: provider clients (I/O and parsing), the arithmetic of the
indicators, analysts' prompts and the chat, feed parsing and collectors (what they
bring is a constant), the enrichment of fundamentals before a swing scan (it
swallows its failures and only fills gaps), summaries that only read, the settings
store (single reads and writes), schema and migrations, the front end. The
watchdog is one comparison and one cooldown in one job; the event bus promises
nothing (a full queue drops, a failed publish is swallowed), so that no property
could go wrong.

The order of the modules was: the money (spend meter, portfolio), what gates it
(engine, advice, pipeline), what reaches the owner (alerts), what all rests on
(ingestion, discovery), what is learnt from it (evaluation), the second book of
ideas (trends), then what the pipeline decides on (screening, strategies, review
policy), the swing book and the rate limiter. What is left:

1. Abstract specifications of `AlertDelivery` (a message is delivered at most once
   and logged) and of `MarketDay` (a cache that never lies), with the refinements.
2. The first read of the profile's empty table, beside edits.
