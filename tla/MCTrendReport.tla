---------------------------- MODULE MCTrendReport ----------------------------
(* Two themes (grid and robots) over four stocks, with one fund each.  The  *)
(* markets: a rally, one with little cash and a dear favourite, and a flat  *)
(* one with a pumped stock; the corpora: silence, government activity, and  *)
(* two of loud coverage with the same headlines.                            *)
EXTENDS TrendReport

CONSTANTS aa, bb, cc, dd, s1, s2

MCSymbols == {aa, bb, cc, dd}

MCTaxonomy == <<"grid", "robots">>
MCFunds == {"GRID", "BOTZ"}
MCEtfs  == [t \in Range(MCTaxonomy) |-> IF t = "grid" THEN {"GRID"} ELSE {"BOTZ"}]
MCSeeds == [t \in Range(MCTaxonomy) |-> IF t = "grid" THEN {aa, bb} ELSE {bb, cc}]

Solid == [bars |-> 300, price |-> 100, adv |-> 20000000, cap |-> 60000, sector |-> "tech",
          pe |-> 20, ps |-> 4, growth |-> 20, eps |-> 15, beta |-> 110, r21 |-> 12, r63 |-> 20,
          above20 |-> TRUE, above50 |-> TRUE, above200 |-> TRUE, rsi |-> 60, atr |-> 3,
          atr_pct |-> 300, from_high |-> -2, volume |-> 12, short |-> 3, mentions |-> 1,
          catalyst |-> FALSE, insiders |-> 500, etfs |-> 1, earnings |-> NotKnown]

Pumped == [Solid EXCEPT !.r21 = 95, !.volume = 35, !.cap = 900, !.short = 25, !.pe = -5,
                        !.ps = NotKnown, !.mentions = 12, !.growth = NotKnown]

Facts(fa, fb, fc, fd) ==
    [x \in MCSymbols |-> CASE x = aa -> fa [] x = bb -> fb [] x = cc -> fc [] x = dd -> fd]

\* A portfolio of 20,000 with 30 shares of cc.
Book(price) ==
    [equity |-> 20000, highWater |-> 20500, dayPnl |-> -50,
     shares |-> [x \in MCSymbols |-> IF x = cc THEN 30 ELSE 0],
     price  |-> [x \in MCSymbols |-> IF x = cc THEN price ELSE 0],
     sector |-> [x \in MCSymbols |-> "tech"]]

Holding(e, x, day, weight, shares) ==
    [fund |-> e, symbol |-> x, day |-> day, weight |-> weight, shares |-> shares]

Moving == [excess |-> 6, turnover |-> 15, above50 |-> TRUE]
Still  == [excess |-> 0, turnover |-> -5, above50 |-> FALSE]

Rally ==
    [facts |-> Facts(Solid, [Solid EXCEPT !.price = 250, !.atr = 8, !.sector = "energy"],
                     [Solid EXCEPT !.price = 40, !.atr = 1, !.cap = 5000],
                     [Solid EXCEPT !.growth = 35, !.insiders = NotKnown]),
     bench |-> [r21 |-> 2, r63 |-> 4],
     funds |-> [e \in MCFunds |-> Moving],
     holdings |-> {Holding("GRID", aa, 30, 500, 100), Holding("GRID", dd, 30, 60, NotKnown),
                   Holding("GRID", aa, 1, 490, 90), Holding("BOTZ", cc, 30, 900, 10)},
     past |-> [t \in Range(MCTaxonomy) |-> [days |-> 5, held |-> IF t = "grid" THEN 5 ELSE 1]],
     corr |-> [x \in MCSymbols |-> [y \in MCSymbols |-> 5000]],
     book |-> Book(40), cash |-> 15000]

\* The favourite costs more than there is cash.
Short ==
    [Rally EXCEPT !.facts[bb] = [Solid EXCEPT !.price = 2000, !.atr = 30, !.growth = 45],
                  !.past = [t \in Range(MCTaxonomy) |-> [days |-> 1, held |-> 0]],
                  !.cash = 1500]

Flat ==
    [Rally EXCEPT !.facts = Facts([Solid EXCEPT !.r21 = 7, !.r63 = 6, !.pe = 30],
                                  [Solid EXCEPT !.r21 = 6, !.r63 = 6, !.price = 250, !.atr = 8],
                                  Pumped, [Solid EXCEPT !.r21 = 4, !.price = 3, !.cap = 300]),
                  !.bench = [r21 |-> 5, r63 |-> 9],
                  !.funds = [e \in MCFunds |-> IF e = "GRID" THEN Still ELSE NotKnown],
                  !.holdings = {}]

MCMarkets == [rally |-> Rally, short |-> Short, flat |-> Flat]

None == [recent |-> 0, base |-> 0, tone |-> 0]

Silence == [news |-> None, gov |-> None, social |-> None, named |-> [x \in MCSymbols |-> 0]]

Loud == [Silence EXCEPT !.news = [recent |-> 40, base |-> 30, tone |-> 30],
                        !.social = [recent |-> 90, base |-> 20, tone |-> 40],
                        !.named = [x \in MCSymbols |-> IF x = dd THEN 4 ELSE 1]]

Official == [Silence EXCEPT !.gov = [recent |-> 5, base |-> 8, tone |-> 0],
                            !.news = [recent |-> 6, base |-> 12, tone |-> -20]]

Collected(grid, robots, story) ==
    [theme  |-> [t \in Range(MCTaxonomy) |-> IF t = "grid" THEN grid ELSE robots],
     social |-> [x \in MCSymbols |-> [recent |-> 9, before |-> 18, tone |-> 10]],
     other  |-> TRUE,
     story  |-> [t \in Range(MCTaxonomy) |-> story]]

MCCorpora ==
    [silence |-> Collected(Silence, Silence, "none"),
     bill    |-> Collected(Official, Loud, "bill"),
     rush    |-> Collected(Loud, Loud, "rush"),
     louder  |-> Collected([Loud EXCEPT !.news.recent = 44], Loud, "rush")]

MCProfile ==
    [risk_per_trade_pct |-> 100, atr_stop_multiple |-> 2, min_reward_risk |-> 2,
     max_position_pct |-> 2000, max_open_positions |-> 3, max_daily_loss_pct |-> 200,
     max_drawdown_pct |-> 1000, max_sector_pct |-> 3000,
     max_correlated_exposure_pct |-> 5000, correlation_threshold |-> 7000,
     min_avg_dollar_volume |-> 5000000, max_adv_participation_pct |-> 100,
     max_atr_pct |-> 800, earnings_blackout_days |-> 2,
     max_portfolio_exposure_pct |-> 5000]

SameSessions == Permutations(Sessions)
=============================================================================
