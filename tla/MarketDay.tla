------------------------------ MODULE MarketDay ------------------------------
(***************************************************************************)
(* The data side of a market day: the ingestion jobs of the worker         *)
(* (sentinel/scheduler/jobs.py), the requests of the api that ingest too,  *)
(* the freshness markers that save provider calls (sentinel/data/cache.py) *)
(* and the candidate list that discovery publishes.                        *)
(*                                                                         *)
(* A job is a sequence of transactions, a transaction a sequence of        *)
(* ingest_* calls over one set of symbols.  Each call first asks the       *)
(* provider for what is not fresh, then upserts, so what it skips is       *)
(* decided before it may have to wait for the rows of another session.     *)
(* What is fetched is a timestamp; what discovery finds is any list.       *)
(***************************************************************************)
EXTENDS Integers, Sequences, FiniteSets, FiniteSetsExt

CONSTANTS Spy,         \* the market symbol
          Static,      \* the universe files
          Seeds,       \* theme seeds and ETFs outside the static universe
          Strangers,   \* symbols only the whole-market screen knows
          Watchlist, Held,
          Sessions,    \* the jobs and requests that may run
          Tables,      \* bound: the tables whose ingestion is followed
          Marks,       \* bound: the hours of the day the clock stops at
          DarkDays,    \* weekends and holidays
          Ttl,         \* Ttl[t]: hours a marker of table t lives
          MaxListed,   \* max_candidates
          MaxClock,    \* bound: hours
          MaxFaults,   \* bound: provider failures
          MaxStarts    \* bound: starts of jobs and requests

VARIABLES clock,    \* hours since the first midnight
          row,      \* row[t][s]: when s was last fetched in full for table t
          gaps,     \* the stored rows whose last fetch left a part of them out
          marker,   \* marker[t][s]: when the freshness marker expires
          listed,   \* the candidate list: [at, names, by]
          sweeping, \* the holder of _premarket_running
          job,      \* job[p]: what session p is doing
          fired,    \* scheduled jobs the scheduler has started today
          briefs,   \* days the pre-open brief went out
          faults, starts

dayVars == <<clock, row, gaps, marker, listed, sweeping, job, fired, briefs, faults, starts>>

store == <<row, gaps, marker, listed, briefs>>

Never   == -1000
Nobody  == "nobody"
Symbols == Static \cup Seeds \cup Strangers \cup Watchlist \cup Held \cup {Spy}
Universe == Static \cup Watchlist \cup Held \cup {Spy}

Day  == clock \div 24
Hour == clock % 24
-----------------------------------------------------------------------------
(* The ingest functions.  ttl: skips what is fresh.  spy: asks for the      *)
(* market symbol too.  all: an empty set of symbols means the universe.     *)
Bars          == [ttl |-> FALSE, spy |-> TRUE,  all |-> TRUE]
Quotes        == [ttl |-> FALSE, spy |-> TRUE,  all |-> TRUE]
News          == [ttl |-> FALSE, spy |-> TRUE,  all |-> TRUE]
Filings       == [ttl |-> FALSE, spy |-> FALSE, all |-> TRUE]
Insiders      == [ttl |-> FALSE, spy |-> FALSE, all |-> TRUE]
Fundamentals  == [ttl |-> TRUE,  spy |-> TRUE,  all |-> TRUE]
ShortInterest == [ttl |-> TRUE,  spy |-> FALSE, all |-> FALSE]
\* Two calls that are not per symbol: their row stands at the market symbol.
Earnings      == [ttl |-> TRUE,  spy |-> TRUE,  all |-> FALSE]
Macro         == [ttl |-> FALSE, spy |-> TRUE,  all |-> FALSE]

Ingest == [bars |-> Bars, quotes |-> Quotes, news |-> News, filings |-> Filings,
           insiders |-> Insiders, fundamentals |-> Fundamentals,
           short_interest |-> ShortInterest, earnings |-> Earnings, macro |-> Macro]

(* The transactions of a job: the symbols, the calls in their order, and   *)
(* whether the job ends when the transaction fails.                        *)
Tx(scope, steps, fatal) == [scope |-> scope, steps |-> steps, fatal |-> fatal]

\* Mutant of PremarketBody: the top-up comes before the discovery.
PremarketBodyToppedUpFirst ==
    <<Tx("universe", <<"bars", "macro", "earnings">>, TRUE),
      Tx("deep", <<"news", "insiders", "filings", "fundamentals">>, FALSE),
      Tx("discovered", <<"bars", "fundamentals", "quotes", "short_interest", "discover">>, TRUE),
      Tx("none", <<"brief">>, TRUE)>>

PremarketBody ==
    <<Tx("universe", <<"bars", "macro", "earnings">>, TRUE),
      Tx("deep", <<"news", "insiders", "filings", "fundamentals">>, FALSE),
      Tx("discovered", <<"discover", "bars", "fundamentals", "quotes", "short_interest">>, TRUE),
      Tx("none", <<"brief">>, TRUE)>>

TrendCollectBody ==
    <<Tx("seeds", <<"bars">>, FALSE), Tx("seeds", <<"fundamentals">>, FALSE)>>

CloseRefresh == <<Tx("scan", <<"bars", "quotes">>, FALSE)>>

PostClose == <<Tx("universe", <<"bars">>, TRUE)>>

TriggerIngest ==
    <<Tx("universe", <<"bars", "quotes", "news", "fundamentals", "earnings", "macro",
                       "filings", "short_interest">>, TRUE)>>

EnsureSymbolData == <<Tx("asked", <<"bars", "fundamentals", "news">>, TRUE)>>

RunDiscovery == <<Tx("discovered", <<"discover">>, TRUE)>>

Plan == [premarket |-> PremarketBody, boot |-> PremarketBody, trend |-> TrendCollectBody,
         close |-> CloseRefresh, post_close |-> PostClose, ingest |-> TriggerIngest,
         research |-> EnsureSymbolData, discover |-> RunDiscovery]

Sweeps == {"premarket", "boot"}
Worker == {"premarket", "boot", "trend", "close", "post_close"}

NoList == [at |-> Never, names |-> {}, by |-> Nobody]

\* A session that is about to open its i-th transaction.
Opening(i) == [tx |-> i, stage |-> "open", left |-> {}, scope |-> {},
               rows |-> {}, partial |-> {}, marks |-> {}, found |-> NoList,
               missed |-> {}]

Idle == Opening(0)

ASSUME MarketAssumption ==
    /\ Sessions \subseteq DOMAIN Plan
    /\ Tables \subseteq DOMAIN Ingest
    /\ Ttl \in [Tables -> Nat]
    /\ Marks # {} /\ Marks \subseteq 0 .. 23

Running(p) == job[p].tx > 0

\* The calls of the transaction p is in, and those of them that are followed.
Steps(p) == Plan[p][job[p].tx].steps
Followed(steps) == {i \in DOMAIN steps : steps[i] \in Tables \cup {"discover", "brief"}}
-----------------------------------------------------------------------------
Live(t, s) == marker[t][s] > clock

HasRow(t, s) == row[t][s] # Never \/ <<t, s>> \in gaps

\* get_candidates: a list older than 30 hours does not count.
Candidates(list) == IF clock - list.at > 30 THEN {} ELSE list.names

ScanSymbols(list) == Candidates(list) \cup Watchlist \cup Held

\* get_deep_data_symbols: any technical shortlist of names with bars, or the
\* whole universe (the empty set) when the setting asks for it.
DeepScopes ==
    {{}} \cup {focus \cup ScanSymbols(listed) :
                 focus \in SUBSET {s \in Universe \ {Spy} : row["bars"][s] # Never}}

Scopes(kind) ==
    CASE kind = "universe"             -> {Universe}
      [] kind = "deep"                 -> DeepScopes
      [] kind = "seeds"                -> {Seeds}
      [] kind = "scan"                 -> {ScanSymbols(listed) \cup {Spy}}
      [] kind = "asked"                -> {{s} : s \in Symbols \ {Spy}}
      [] kind \in {"discovered", "none"} -> {{}}

\* The symbols a call asks the provider about, unless they are fresh.
Targets(p, t) ==
    LET given == IF p = "ingest" /\ t = "short_interest" THEN ScanSymbols(listed)
                 ELSE job[p].scope
    IN IF t \in {"earnings", "macro"} THEN {Spy}
       ELSE (IF given = {} /\ Ingest[t].all THEN Universe ELSE given)
            \ (IF Ingest[t].spy THEN {} ELSE {Spy})

\* force skips nothing; a backfill only fetches what is missing.
Skips(p, t) ==
    IF p = "research"
    THEN {s \in Symbols : HasRow(t, s) \/ (Ingest[t].ttl /\ Live(t, s))}
    ELSE IF ~Ingest[t].ttl \/ (p = "ingest" /\ t # "short_interest") THEN {}
    ELSE {s \in Symbols : Live(t, s) \/ <<t, s>> \in job[p].marks}
-----------------------------------------------------------------------------
\* Mutant of Settle: the lock is let go only by a body that got to its end.
SettleWithoutFinally(j) ==
    /\ job' = j
    /\ sweeping' = IF /\ sweeping # Nobody
                      /\ j[sweeping] = Idle
                      /\ job[sweeping].tx = Len(Plan[sweeping])
                   THEN Nobody ELSE sweeping

(* The lock is let go in a finally clause: however the body ends.          *)
Settle(j) ==
    /\ job' = j
    /\ sweeping' = IF sweeping # Nobody /\ j[sweeping] = Idle THEN Nobody ELSE sweeping

Following(p) ==
    IF job[p].tx < Len(Plan[p])
    THEN [Opening(job[p].tx + 1) EXCEPT !.found = job[p].found] ELSE Idle

Failed(p) == IF Plan[p][job[p].tx].fatal THEN Idle ELSE Following(p)

\* What fires when: minute marks as hours, and the misfire grace.
InWindow(p) ==
    CASE p = "premarket"  -> Hour \in 8 .. 12
      [] p = "trend"      -> Hour \in 7 .. 11
      [] p = "close"      -> Hour = 15
      [] p = "post_close" -> Hour \in 16 .. 22
      [] OTHER            -> TRUE

Start(p) ==
    /\ ~Running(p)
    /\ starts < MaxStarts
    /\ starts' = starts + 1
    /\ p \in Worker => Day \notin DarkDays /\ p \notin fired
    /\ InWindow(p)
    /\ fired' = IF p \in Worker THEN fired \cup {p} ELSE fired
    /\ IF p \in Sweeps
       THEN /\ sweeping' = IF sweeping = Nobody THEN p ELSE sweeping
            /\ job' = IF sweeping = Nobody THEN [job EXCEPT ![p] = Opening(1)] ELSE job
       ELSE /\ job' = [job EXCEPT ![p] = Opening(1)]
            /\ UNCHANGED sweeping
    /\ UNCHANGED <<clock, store, faults>>

\* The scope is read once, when the transaction opens.
Open(p) ==
    /\ Running(p)
    /\ job[p].stage = "open"
    /\ \E scope \in Scopes(Plan[p][job[p].tx].scope) :
           Settle([job EXCEPT ![p].stage = "call", ![p].left = Followed(Steps(p)),
                              ![p].scope = scope])
    /\ UNCHANGED <<clock, store, fired, faults, starts>>

\* The next call of p, and what is left after it.
Calling(p, t) ==
    /\ Running(p)
    /\ job[p].left # {}
    /\ Steps(p)[Min(job[p].left)] = t

Rest(p) == job[p].left \ {Min(job[p].left)}

\* discover: some list; the sweep goes on with the scan set it makes.
Discover(p) ==
    /\ Calling(p, "discover")
    /\ \E names \in SUBSET ((Universe \cup Strangers) \ {Spy}) :
          /\ Cardinality(names) <= MaxListed
          /\ LET found == [at |-> clock, names |-> names, by |-> p] IN
             Settle([job EXCEPT ![p].left = Rest(p), ![p].found = found,
                                ![p].scope = ScanSymbols(found)])
    /\ UNCHANGED <<clock, store, fired, faults, starts>>

\* Any other exception (a rate limit waited out too long, a database error)
\* rolls the transaction back.
Raise(p) ==
    /\ Running(p)
    /\ job[p].stage = "call"
    /\ faults < MaxFaults
    /\ faults' = faults + 1
    /\ Settle([job EXCEPT ![p] = Failed(p)])
    /\ UNCHANGED <<clock, store, fired, starts>>

Wanted(p, t) == {<<t, s>> : s \in Targets(p, t) \ Skips(p, t)}

\* The sessions that hold a row p is about to upsert.
Holders(p) ==
    {q \in Sessions \ {p} : \E t \in Tables : Calling(p, t) /\ Wanted(p, t) \cap job[q].rows # {}}

\* What the provider may leave out: a symbol (an error, or a reply without
\* rows), everything (no credentials), or a part of a symbol's fundamentals,
\* whose second fetch fails while the first has been answered, or both of
\* whose endpoints are unavailable.
Replies(p, t) ==
    LET wanted == Wanted(p, t)
        one    == {{key} : key \in wanted}
    IN {r \in [lost : {{}, wanted} \cup one, partial : {{}} \cup one] :
           /\ r.lost \cap r.partial = {}
           /\ r.partial # {} => t = "fundamentals"}

\* Bound: how many of the failures a reply stands for.
Failures(r) == Cardinality({r.lost, r.partial} \ {{}})

\* Mutant of Call: what could not be fetched is marked too.
CallMarksLost(p) ==
    /\ Holders(p) = {}
    /\ \E t \in Tables :
          /\ Calling(p, t)
          /\ \E r \in Replies(p, t) :
                LET got == Wanted(p, t) \ r.lost IN
                /\ faults + Failures(r) <= MaxFaults
                /\ faults' = faults + Failures(r)
                /\ Settle([job EXCEPT ![p].left = Rest(p), ![p].missed = @ \cup r.lost,
                               ![p].rows = @ \cup (IF t = "earnings" THEN {} ELSE got),
                               ![p].partial = (@ \ got) \cup r.partial,
                               ![p].marks = @ \cup (IF Ingest[t].ttl THEN Wanted(p, t) ELSE {})])
    /\ UNCHANGED <<clock, store, fired, starts>>

\* One ingest call.  What it gets it upserts and marks, a part of a row too.
\* An earnings calendar may be empty: it marks, and holds no row.
Call(p) ==
    /\ Holders(p) = {}
    /\ \E t \in Tables :
          /\ Calling(p, t)
          /\ \E r \in Replies(p, t) :
                LET got == Wanted(p, t) \ r.lost IN
                /\ faults + Failures(r) <= MaxFaults
                /\ faults' = faults + Failures(r)
                /\ Settle([job EXCEPT ![p].left = Rest(p), ![p].missed = @ \cup r.lost,
                               ![p].rows = @ \cup (IF t = "earnings" THEN {} ELSE got),
                               ![p].partial = (@ \ got) \cup r.partial,
                               ![p].marks = @ \cup (IF Ingest[t].ttl THEN got ELSE {})])
    /\ UNCHANGED <<clock, store, fired, starts>>

\* Two sessions that wait for each other: the database ends one.
Deadlock(p) ==
    /\ \E q \in Holders(p) : p \in Holders(q)
    /\ Settle([job EXCEPT ![p] = Failed(p)])
    /\ UNCHANGED <<clock, store, fired, faults, starts>>

Collides(p, q) ==
    /\ q # p
    /\ \E key \in job[p].marks \cap job[q].marks : marker[key[1]][key[2]] = Never

\* Sessions that inserted the same new marker lose to the first that commits.
CommitTx(p) ==
    /\ Running(p)
    /\ job[p].stage = "call"
    /\ \A i \in job[p].left : Steps(p)[i] = "brief"
    /\ row' = [t \in Tables |-> [s \in Symbols |->
                  IF <<t, s>> \in job[p].rows \ job[p].partial THEN clock ELSE row[t][s]]]
    /\ gaps' = (gaps \ job[p].rows) \cup job[p].partial
    /\ marker' = [t \in Tables |-> [s \in Symbols |->
                  IF <<t, s>> \in job[p].marks THEN clock + Ttl[t] ELSE marker[t][s]]]
    /\ listed' = IF Plan[p][job[p].tx].scope = "discovered" THEN job[p].found ELSE listed
    /\ briefs' = IF job[p].left # {} THEN briefs \cup {Day} ELSE briefs
    /\ Settle([q \in Sessions |-> IF q = p THEN Following(p)
                                 ELSE IF Collides(p, q) THEN Failed(q) ELSE job[q]])
    /\ UNCHANGED <<clock, fired, faults, starts>>
-----------------------------------------------------------------------------
\* The worker stops: its transactions are gone, its lock too, and the boot
\* thread of the next one may start.
Restart ==
    /\ faults < MaxFaults
    /\ faults' = faults + 1
    /\ Settle([p \in Sessions |-> IF p \in Worker THEN Idle ELSE job[p]])
    /\ fired' = fired \ {"boot"}
    /\ UNCHANGED <<clock, store, starts>>

\* purge_expired, in the night.
Purge ==
    /\ Hour = 2
    /\ marker' = [t \in Tables |-> [s \in Symbols |->
                     IF Live(t, s) THEN marker[t][s] ELSE Never]]
    /\ UNCHANGED <<clock, row, gaps, listed, sweeping, job, fired, briefs, faults, starts>>

\* Bound: the clock stands still within a transaction.
Tick ==
    /\ clock < MaxClock
    /\ \A p \in Sessions : job[p].stage = "open"
    /\ clock' = Min({c \in clock + 1 .. clock + 24 : c % 24 \in Marks})
    /\ fired' = IF clock' \div 24 = Day THEN fired ELSE fired \cap {"boot"}
    /\ UNCHANGED <<store, sweeping, job, faults, starts>>

DayInit ==
    /\ clock = 9
    /\ row = [t \in Tables |-> [s \in Symbols |-> Never]]
    /\ gaps = {}
    /\ marker = [t \in Tables |-> [s \in Symbols |-> Never]]
    /\ listed = NoList
    /\ sweeping = Nobody
    /\ job = [p \in Sessions |-> Idle]
    /\ fired = {}
    /\ briefs = {}
    /\ faults = 0
    /\ starts = 0

Step(p) ==
    \/ Open(p) \/ Discover(p) \/ Call(p) \/ Raise(p) \/ Deadlock(p) \/ CommitTx(p)

DayNext ==
    \/ \E p \in Sessions : Start(p) \/ Step(p)
    \/ Restart \/ Purge \/ Tick

\* A provider call ends or times out, so a session that can go on does.
DaySpec == DayInit /\ [][DayNext]_dayVars /\ \A p \in Sessions : WF_dayVars(Step(p))
-----------------------------------------------------------------------------
(* What a marker of a per-symbol table says, that a row "was fetched just  *)
(* now" (cache.py:107), in full and no earlier than the marker, holds but  *)
(* for a row whose last fetch left a part of it out (ingest.py:214-240).   *)
(* No symbol without an answer, and no rolled-back row, is marked.         *)
MarkersVouch ==
    \A t \in Tables \ {"earnings"}, s \in Symbols :
        marker[t][s] # Never => row[t][s] >= marker[t][s] - Ttl[t] \/ <<t, s>> \in gaps

(* "discovery, then top up data for whatever it surfaced" (jobs.py:143): a *)
(* list that a sweep published comes with bars and a quote of every name   *)
(* on it, but for what the sweep asked for in vain: the provider failed,   *)
(* had no rows, or there are no credentials for it.                        *)
PublishedToppedUp ==
    [][\A p \in Sweeps \cap Sessions : listed' # listed /\ listed'.by = p =>
          \A s \in listed'.names, t \in {"bars", "quotes"} :
              row'[t][s] >= listed'.at \/ <<t, s>> \in job[p].missed]_dayVars

(* However a sweep goes, another may start later (jobs.py:93-97): sessions *)
(* that wait for each other's rows do not hold the lock for ever.          *)
LockComesFree == sweeping # Nobody ~> sweeping = Nobody
=============================================================================
