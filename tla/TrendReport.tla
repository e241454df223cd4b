----------------------------- MODULE TrendReport -----------------------------
(***************************************************************************)
(* The trend agent (sentinel/trends/agent.py, review.py, report.py,        *)
(* allocation.py) on one day: sessions that collect documents and score    *)
(* the themes, and sessions that build a report, at the same time.         *)
(*                                                                         *)
(* A session is a transaction.  It writes the snapshot of each theme under *)
(* a row lock it keeps until it ends, and of a row it updates only the     *)
(* columns that differ from what it read.  A report takes a second opinion *)
(* on strong themes, ranks their members and turns the best into purchases *)
(* that the risk engine passes one after the other.                        *)
(*                                                                         *)
(* The market and the portfolio stand still; documents come in.  The cache *)
(* entries live longer (72 h) than the day that is modelled.               *)
(***************************************************************************)
EXTENDS TrendScoring

CONSTANTS Sessions,     \* sessions of the worker and the api
          Corpora,      \* by name, what may be collected: [theme, social, other, story]
          Markets,      \* by name, what the market may be like, with [book, cash, corr]
          Profile,      \* the active risk profile
          ReviewCaps,   \* the theme reviews the operating mode allows per run
          MaxThemes,    \* MAX_THEMES_IN_REPORT
          MaxPerTheme,  \* MAX_STOCKS_PER_THEME
          MaxPicks,     \* MAX_OPPORTUNITIES
          NoText,       \* the text of a report nobody composed
          MaxRuns,      \* bound: sessions started in the day
          MaxFaults     \* bound: exceptions in the day

VARIABLES market,     \* the market of the day, by name
          documents,  \* the committed corpus, by name
          snapshots,  \* snapshots[t]: the committed row [score, label], or NotKnown
          cache,      \* the committed verdicts, [story, verdict]
          reports,    \* the committed reports, [id, text, themes]
          session,    \* session[s]: what a session knows and has written
          collected,  \* whether the trend job of the day has started
          runs,       \* sessions started so far
          faults      \* exceptions so far

vars == <<market, documents, snapshots, cache, reports, session, collected, runs, faults>>

MinThemeScore == 4500
MinConfidence == 4500
MinDollars    == 10

Idle == [pc |-> "idle", kind |-> NotKnown, corpus |-> NotKnown, cap |-> 0,
         shown |-> <<>>, order |-> <<>>, next |-> 1, seen |-> <<>>, rows |-> <<>>,
         torn |-> {}, calls |-> 0, bought |-> {}, picks |-> <<>>, texts |-> <<>>, id |-> 0]

Columns(a) == [score |-> a.score, label |-> a.label]

\* score_theme, tabulated.
Assessed ==
    [k \in DOMAIN Markets |-> [c \in DOMAIN Corpora |->
        [t \in Themes |-> Assess(Markets[k], Corpora[c], t)]]]

\* The components of a score and the factors of a composite are rounded to
\* integers, and so are their sums.
ASSUME ScoringAssumption ==
    /\ Taxonomy \in Seq(Themes)
    /\ \A k \in DOMAIN Markets, c \in DOMAIN Corpora, t \in Themes :
          /\ Weighted(t, Parts(Markets[k], Corpora[c], t)) \in Int
          /\ PersistenceBonus(Markets[k].past[t]) \in Int
          /\ LET members == Assessed[k][c][t].members IN
             \A x \in {y \in members : Eligible(Markets[k].facts[y])} :
                Composite(Markets[k], members, Grown(Markets[k], t), x) \in Int

\* The members of a theme are instruments, and those that pass the quality
\* gate have a price and a range; nothing is held short.
ASSUME TradingAssumption ==
    /\ Tradeable \subseteq Symbols /\ \A t \in Themes : Seeds[t] \subseteq Symbols
    /\ MaxPerTheme \in Nat
    /\ Profile.atr_stop_multiple \in Nat \ {0}
    /\ \A f \in {"risk_per_trade_pct", "max_position_pct", "max_open_positions",
                 "max_sector_pct", "max_portfolio_exposure_pct"} : Profile[f] \in Int
    /\ \A k \in DOMAIN Markets : LET m == Markets[k] IN
          /\ \A x \in Symbols :
                QualityGate(m.facts[x]) => m.facts[x].price \in Nat /\ m.facts[x].atr \in Nat
          /\ {"equity", "shares", "price", "sector"} \subseteq DOMAIN m.book
          /\ m.book.shares \in [Symbols -> Nat] /\ m.book.price \in [Symbols -> Nat]
          /\ DOMAIN m.book.sector = Symbols
          /\ m.book.equity \in Int /\ m.cash \in Int

\* What the day's morning scoring may have left.
Scored(k, c) == [t \in Themes |-> Columns(Assessed[k][c][t])]
-----------------------------------------------------------------------------
(* The review of a theme (review.py).                                      *)
Verdicts == {"confirms", "overstated", "hype"}

Multiplier(v) == CASE v = "confirms" -> 100 [] v = "overstated" -> 85 [] v = "hype" -> 60

\* facts_fingerprint: what would change a reviewer's mind.
Story(c, t, a) ==
    [theme |-> t, bucket |-> (a.score + 250) \div 500, label |-> a.label,
     flags |-> a.flags, headlines |-> Corpora[c].story[t], members |-> a.members]

\* apply_review: a verdict can only lower the score.
Reviewed(a, v) ==
    [a EXCEPT !.score = Min({a.score, (Multiplier(v) * a.score) \div 100}),
              !.label = IF v = "hype" THEN "hype" ELSE a.label]

\* The places in an order that come before place i by the scores, ties as before.
Ahead(order, shown, places, i) ==
    {j \in places : \/ shown[order[j]].score > shown[order[i]].score
                    \/ shown[order[j]].score = shown[order[i]].score /\ j < i}

\* The themes that have a score, strongest first.
StrongestFirst(order, shown) ==
    LET places == {i \in DOMAIN order : order[i] \in DOMAIN shown} IN
    [k \in 1 .. Cardinality(places) |->
        order[CHOOSE i \in places : Cardinality(Ahead(order, shown, places, i)) = k - 1]]
-----------------------------------------------------------------------------
(* From themes to purchases (agent.py, allocation.py).                     *)
\* The places of the strong themes in an order by score.
Strong(order, shown) ==
    {i \in DOMAIN order : i <= MaxThemes /\ shown[order[i]].score >= MinThemeScore}

\* rank_theme_stocks: the best of the eligible members, rated.
Rated(m, t, members) ==
    LET rate(x) == [symbol |-> x, score |-> Composite(m, members, Grown(m, t), x),
                    sure |-> Confidence(m, members, Grown(m, t), x) >= MinConfidence]
        rated   == {rate(x) : x \in {y \in members : Eligible(m.facts[y])}}
    IN CHOOSE best \in SUBSET rated :
          /\ Cardinality(best) = Min({MaxPerTheme, Cardinality(rated)})
          /\ \A x \in best, y \in rated \ best : x.score >= y.score

Ranked ==
    [k \in DOMAIN Markets |-> [c \in DOMAIN Corpora |->
        [t \in Themes |-> Rated(Markets[k], t, Assessed[k][c][t].members)]]]

\* A symbol in two themes is credited to the stronger one.
Credited(ranked, order, strong) ==
    UNION {LET earlier == {x.symbol : x \in UNION {ranked[order[k]] : k \in {j \in strong : j < i}}}
           IN {[stock |-> x, theme |-> order[i]] :
                   x \in {y \in ranked[order[i]] : y.symbol \notin earlier}} : i \in strong}

\* The candidates it is sure of, by what they are worth; equals in any order.
CandidateLists(ranked, order, shown) ==
    LET worth(c) == c.stock.score * shown[c.theme].score
        sure     == {c \in Credited(ranked, order, Strong(order, shown)) : c.stock.sure}
    IN {list \in SetToSeqs(sure) :
            \A i, k \in DOMAIN list : i < k => worth(list[i]) >= worth(list[k])}

\* The order the risk engine is shown.
Candidate(m, book, x, shares) ==
    [symbol |-> x, action |-> "BUY", shares |-> shares, price |-> m.facts[x].price,
     sector |-> m.facts[x].sector, adv |-> m.facts[x].adv, atr |-> m.facts[x].atr_pct,
     earnings |-> m.facts[x].earnings, corr |-> [y \in Open(book) \ {x} |-> m.corr[x][y]]]

\* allocate: the dollars of a purchase, 0 when refused.  A share that the
\* cash cannot pay for is bought in part, if the engine would pass a whole one.
Allocate(m, book, cash, x) ==
    LET price  == m.facts[x].price
        sized  == SizePosition(book.equity, price, m.facts[x].atr, Profile)
        funds  == Max({0, cash})
        shares == IF sized * price > funds THEN funds \div price ELSE sized
        room   == Max({0, (book.equity * Profile.max_position_pct) \div Whole - Value(book, x)})
        atRisk == (((book.equity * Profile.risk_per_trade_pct) \div Whole) * price)
                      \div StopDistance(m.facts[x].atr, Profile)
        dollars == IF shares > 0 THEN shares * price ELSE Min({funds, room, atRisk})
    IN IF /\ sized > 0
          /\ Approved(Candidate(m, book, x, Max({1, shares})), book, Profile)
          /\ dollars >= MinDollars
       THEN dollars ELSE 0

\* Mutant of WithProposed: the next candidate sees the real portfolio.
WithoutProposed(m, basket, x, dollars) ==
    [basket EXCEPT !.picks = Append(@, [symbol |-> x, dollars |-> dollars])]

\* The working portfolio with the purchase in it, as one unit of its value.
WithProposed(m, basket, x, dollars) ==
    [book  |-> [basket.book EXCEPT !.shares[x] = 1,
                                   !.price[x]  = dollars + Value(basket.book, x),
                                   !.sector[x] = m.facts[x].sector],
     cash  |-> Max({0, basket.cash - dollars}),
     picks |-> Append(basket.picks, [symbol |-> x, dollars |-> dollars])]

\* The next candidate, if the report has room for it.
Considered(m, basket, x) ==
    LET dollars == Allocate(m, basket.book, basket.cash, x)
    IN IF Len(basket.picks) >= MaxPicks \/ dollars = 0 THEN basket
       ELSE WithProposed(m, basket, x, dollars)

Basketed(m, candidates) ==
    LET filled[n \in 0 .. Len(candidates)] ==
            IF n = 0 THEN [book |-> m.book, cash |-> m.cash, picks |-> <<>>]
            ELSE Considered(m, filled[n - 1], candidates[n].stock.symbol)
    IN filled[Len(candidates)].picks
-----------------------------------------------------------------------------
Init ==
    /\ market \in DOMAIN Markets
    /\ documents \in DOMAIN Corpora
    /\ snapshots \in {[t \in Themes |-> NotKnown], Scored(market, documents)}
    /\ cache = {}
    /\ reports = {}
    /\ session = [s \in Sessions |-> Idle]
    /\ collected = FALSE
    /\ runs = 0
    /\ faults = 0

IsReport(s) == session[s].kind \in {"report", "build"}

Collecting(kind) == kind \in {"trend", "collect"}

\* The trend job runs once a day and commits what it collected before it
\* scores; the request to collect does both in one session.  The report job
\* sends what it builds, a request to build only if asked to.
Start(s, kind) ==
    /\ session[s].pc = "idle"
    /\ kind = "trend" => ~collected
    /\ collected' = (collected \/ kind = "trend")
    /\ runs < MaxRuns
    /\ runs' = runs + 1
    /\ \E corpus \in (IF Collecting(kind) THEN DOMAIN Corpora ELSE {documents}),
          cap \in (IF Collecting(kind) THEN {0} ELSE ReviewCaps) :
        /\ session' = [session EXCEPT ![s] =
               [Idle EXCEPT !.pc = "score", !.kind = kind, !.cap = cap,
                            !.corpus = IF kind = "collect" THEN corpus ELSE NotKnown]]
        /\ documents' = IF kind = "trend" THEN corpus ELSE documents
    /\ UNCHANGED <<market, snapshots, cache, reports, faults>>

\* Mutant of Onward: a report reviews the scores before it stores them.
OnwardUnstored(kind, scored) ==
    IF scored # {} THEN IF kind \in {"report", "build"} THEN "review" ELSE "look"
    ELSE IF kind = "report" THEN "send" ELSE "commit"

Onward(kind, scored) ==
    IF scored # {} THEN "look" ELSE IF kind = "report" THEN "send" ELSE "commit"

\* score_all: every theme from one reading of the documents; a theme whose
\* scoring raises is left out.  Without a theme a report ends here, unwritten.
Score(s) ==
    /\ session[s].pc = "score"
    /\ \E scored \in SUBSET Themes :
        /\ scored # Themes => faults < MaxFaults
        /\ faults' = IF scored = Themes THEN faults ELSE faults + 1
        /\ LET corpus == IF session[s].corpus = NotKnown THEN documents ELSE session[s].corpus
               shown  == [t \in scored |-> Assessed[market][corpus][t]]
           IN session' = [session EXCEPT
                ![s].corpus = corpus, ![s].shown = shown,
                ![s].order = StrongestFirst(Taxonomy, shown),
                ![s].pc = Onward(session[s].kind, scored)]
    /\ UNCHANGED <<market, documents, snapshots, cache, reports, collected, runs>>

\* What is known of the rows, with that of t.
Recorded(rows, t, row) == [x \in DOMAIN rows \cup {t} |-> IF x = t THEN row ELSE rows[x]]

\* persist_score reads the row of the next theme ...
Look(s) ==
    /\ session[s].pc = "look"
    /\ LET t == session[s].order[session[s].next] IN
       session' = [session EXCEPT ![s].pc = "write", ![s].seen = Recorded(@, t, snapshots[t])]
    /\ UNCHANGED <<market, documents, snapshots, cache, reports, collected, runs, faults>>

\* The sessions whose transaction holds the row of a theme.
Holders(t) == {s \in Sessions : t \in DOMAIN session[s].rows}

\* An update writes the columns that differ from those the session knew.
Updated(row, known, new) == [c \in DOMAIN row |-> IF new[c] = known[c] THEN row[c] ELSE new[c]]

\* ... and writes it, once no other session holds it.  A row inserted since
\* it looked is a violation of the key: the session fails.
Write(s) ==
    LET t   == session[s].order[session[s].next]
        new == Columns(session[s].shown[t])
        was == session[s].seen[t]
    IN /\ session[s].pc = "write"
       /\ Holders(t) \subseteq {s}
       /\ was = NotKnown => snapshots[t] = NotKnown
       /\ session' = [session EXCEPT
            ![s].rows = Recorded(@, t, IF was = NotKnown THEN new
                                       ELSE Updated(snapshots[t], was, new)),
            ![s].torn = IF was = snapshots[t] THEN @ ELSE @ \cup {t},
            ![s].next = IF @ = Len(session[s].order) THEN 1 ELSE @ + 1,
            ![s].pc   = IF session[s].next < Len(session[s].order) THEN "look"
                          ELSE IF IsReport(s) THEN "review" ELSE "commit"]
       /\ UNCHANGED <<market, documents, snapshots, cache, reports, collected, runs, faults>>

Spends(me) == me.calls < me.cap

\* _review_themes, one theme: what the cache or the model says of it, if it
\* is strong and calls are left.  A call that fails changes nothing, and is
\* not counted.
ReviewTheme(s) ==
    LET me    == session[s]
        t     == me.order[me.next]
        story == Story(me.corpus, t, me.shown[t])
        known == {e \in cache \cup me.bought : e.story = story}
        judged(v) == [me EXCEPT !.next = @ + 1, !.shown[t] = Reviewed(@, v)]
    IN /\ me.pc = "review"
       /\ me.next <= Len(me.order)
       /\ IF ~Spends(me) \/ me.shown[t].score < MinThemeScore
          THEN session' = [session EXCEPT ![s].next = @ + 1]
          ELSE IF known # {}
          THEN \E e \in known : session' = [session EXCEPT ![s] = judged(e.verdict)]
          ELSE \/ session' = [session EXCEPT ![s].next = @ + 1]
               \/ \E v \in Verdicts :
                    session' = [session EXCEPT ![s] =
                        [judged(v) EXCEPT !.calls = @ + 1,
                                          !.bought = @ \cup {[story |-> story, verdict |-> v]}]]
       /\ UNCHANGED <<market, documents, snapshots, cache, reports, collected, runs, faults>>

\* Mutant of Rewritten: the rows keep the scores from before the review.
NotRewritten(me) == me.rows

\* The rows are written again with what the reviews made of the scores.
Rewritten(me) ==
    [t \in DOMAIN me.rows |->
        Updated(me.rows[t], Columns(Assessed[market][me.corpus][t]), Columns(me.shown[t]))]

\* Rows are numbered, and dated, in the order they are inserted.
NextId == 1 + Max({0} \cup {r.id : r \in reports} \cup {session[s].id : s \in Sessions})

\* The rest of generate_report: the reviewed scores are stored, the purchases
\* found, and the report stored without its text.
Build(s) ==
    LET me    == session[s]
        order == StrongestFirst(me.order, me.shown)
        ranked == [t \in DOMAIN me.shown |-> Ranked[market][me.corpus][t]]
    IN /\ me.pc = "review"
       /\ me.next > Len(me.order)
       /\ \E candidates \in CandidateLists(ranked, order, me.shown) : session' = [session EXCEPT
            ![s].rows  = Rewritten(me), ![s].order = order,
            ![s].picks = Basketed(Markets[market], candidates),
            ![s].id    = NextId,
            ![s].pc    = IF me.kind = "report" THEN "send" ELSE "commit"]
       /\ UNCHANGED <<market, documents, snapshots, cache, reports, collected, runs, faults>>

\* The rows a session sees: the committed ones, and its own.
Visible(s) == {r.id : r \in reports} \cup ({session[s].id} \ {0})

\* Mutant of LatestReport: the first row of the day, for want of an order.
FirstReport(s) == Min(Visible(s))

LatestReport(s) == Max(Visible(s))

\* send_report stores the text in the latest report of the day; what becomes
\* of the message is not followed.
Send(s) ==
    /\ session[s].pc = "send"
    /\ session' = [session EXCEPT
         ![s].pc = "commit",
         ![s].texts = IF Visible(s) = {} THEN <<>>
                      ELSE [i \in {LatestReport(s)} |-> session[s].id]]
    /\ UNCHANGED <<market, documents, snapshots, cache, reports, collected, runs, faults>>

\* The text a row has after a session's updates.
Texted(texts, id, text) == IF id \in DOMAIN texts THEN texts[id] ELSE text

\* The job, or get_db at the end of a request.
Commit(s) ==
    LET me == session[s] IN
    /\ me.pc = "commit"
    /\ snapshots' = [t \in Themes |-> IF t \in DOMAIN me.rows THEN me.rows[t] ELSE snapshots[t]]
    /\ cache' = cache \cup me.bought
    /\ reports' = {[r EXCEPT !.text = Texted(me.texts, r.id, @)] : r \in reports}
                     \cup {[id |-> i, text |-> Texted(me.texts, i, NoText),
                            themes |-> DOMAIN me.shown] : i \in {me.id} \ {0}}
    /\ documents' = IF me.kind = "collect" THEN me.corpus ELSE documents
    /\ session' = [session EXCEPT ![s] = Idle]
    /\ UNCHANGED <<market, collected, runs, faults>>

RolledBack(s) ==
    /\ session' = [session EXCEPT ![s] = Idle]
    /\ UNCHANGED <<market, documents, snapshots, cache, reports, collected, runs>>

\* Any exception: an error of the database, of a library, of a provider.
Fail(s) ==
    /\ session[s].pc # "idle"
    /\ faults < MaxFaults
    /\ faults' = faults + 1
    /\ RolledBack(s)

NextRow(s) == session[s].order[session[s].next]

Waiting(s) == session[s].pc = "write" /\ Holders(NextRow(s)) \ {s} # {}

\* Sessions that wait for each other's rows: the database aborts one.
Deadlocked(s) ==
    /\ Waiting(s)
    /\ \E o \in Holders(NextRow(s)) \ {s} : Waiting(o) /\ s \in Holders(NextRow(o))
    /\ RolledBack(s)
    /\ UNCHANGED faults

\* The row has been inserted by a session that has committed meanwhile.
KeyTaken(s) ==
    /\ session[s].pc = "write" /\ ~Waiting(s)
    /\ session[s].seen[NextRow(s)] = NotKnown /\ snapshots[NextRow(s)] # NotKnown
    /\ RolledBack(s)
    /\ UNCHANGED faults

Next ==
    \E s \in Sessions :
        \/ \E kind \in {"trend", "collect", "report", "build"} : Start(s, kind)
        \/ Score(s) \/ Look(s) \/ Write(s) \/ ReviewTheme(s) \/ Build(s)
        \/ Send(s) \/ Commit(s) \/ Fail(s) \/ Deadlocked(s) \/ KeyTaken(s)

Spec == Init /\ [][Next]_vars
-----------------------------------------------------------------------------
\* What the purchases of a report spend on x.
Spent(picks, x) ==
    SumFunction([i \in DOMAIN picks |-> IF picks[i].symbol = x THEN picks[i].dollars ELSE 0])

BasketFits(m, picks) ==
    LET bought == {picks[i].symbol : i \in DOMAIN picks}
        held   == Open(m.book) \cup bought
        sector(x) == IF x \in bought THEN m.facts[x].sector ELSE m.book.sector[x]
        worth(X)  == SumFunction([x \in X |-> Value(m.book, x) + Spent(picks, x)])
    IN bought # {} =>
        /\ SumFunction([i \in DOMAIN picks |-> picks[i].dollars]) <= Max({0, m.cash})
        /\ Cardinality(held) <= Profile.max_open_positions
        /\ Within(worth(held), Profile.max_portfolio_exposure_pct, m.book)
        /\ \A x \in bought :
             /\ Within(worth({x}), Profile.max_position_pct, m.book)
             /\ Within(worth({y \in held : sector(y) = sector(x)}), Profile.max_sector_pct, m.book)

\* Taking every purchase of a report keeps the portfolio within the limits
\* the risk engine set for each of them: position, sector, exposure, open
\* positions, and the cash (agent.py: "the report is a basket the user might
\* act on in one sitting").
BasketWithinLimits == \A s \in Sessions : BasketFits(Markets[market], session[s].picks)

\* Without confirmation by the market, by policy or by funds no amount of
\* coverage, breadth or persistence takes a theme above 60 points (scoring.py:
\* "A theme cannot reach a high score on coverage alone").
TalkAloneIsCapped ==
    \A s \in Sessions : \A t \in DOMAIN session[s].shown :
        session[s].shown[t].confirmed = 0 => session[s].shown[t].score <= 6000

\* Reports that overlap never pay for the same opinion: nothing one of them
\* has bought is in the cache yet, or bought by another one at the same time.
\* What protects them is the lock on the theme's snapshot.
PaidOnce ==
    /\ \A s \in Sessions : session[s].bought \cap cache = {}
    /\ \A s, o \in Sessions : s # o =>
         {e.story : e \in session[s].bought} \cap {e.story : e \in session[o].bought} = {}

\* A report that commits leaves in the snapshots what it showed, of every
\* theme no other session wrote between its look and its write (persist_score:
\* "the stored snapshot should reflect what the user was actually shown").
StoredAsShown ==
    [][\A s \in Sessions : IsReport(s) /\ Commit(s) =>
           \A t \in DOMAIN session[s].shown \ session[s].torn :
               snapshots'[t] = Columns(session[s].shown[t])]_vars

\* A report's text is stored with the report: in its own row, or in one that
\* has no theme in common with it.
TextWithItsReport ==
    \A s \in Sessions : session[s].id # 0 =>
        \A i \in DOMAIN session[s].texts :
            i # session[s].id =>
                \E r \in reports : r.id = i /\ r.themes \cap DOMAIN session[s].shown = {}
=============================================================================
