----------------------------- MODULE Portfolio -----------------------------
(***************************************************************************)
(* The manual portfolio: POST /api/portfolio/trades                        *)
(* (sentinel/api/routers/portfolio.py) as concurrent READ COMMITTED        *)
(* transactions on the positions and trades tables, and the valuation that *)
(* reads both tables (sentinel/portfolio/state.py).                        *)
(*                                                                         *)
(* A request loads the Position row, computes the new shares and basis in  *)
(* Python, and flushes an UPDATE of the columns that changed (or an        *)
(* INSERT) together with the TradeRow; the flush takes the row lock, the   *)
(* end of the request commits.  A valuation reads the positions first and  *)
(* the trades second, as two statements.                                   *)
(*                                                                         *)
(* Every trade and every mark is at one price, 1: equity can then change   *)
(* through an error only, and the weighted cost basis of a position is the *)
(* price itself.  `basis` is the sign of cost_basis.                       *)
(***************************************************************************)
EXTENDS Integers, FiniteSets, FiniteSetsExt

CONSTANTS Traded,   \* traded symbols
          Requests,  \* concurrent trade requests
          Free,      \* a model value: nobody holds the row lock
          Lots,      \* shares a trade may have
          Start,     \* starting equity
          MaxTrades  \* bound: trades submitted in a behaviour

ASSUME PortfolioAssumption ==
    /\ IsFiniteSet(Traded)
    /\ Lots \subseteq Nat \ {0}
    /\ Start \in Nat
    /\ MaxTrades \in Nat
    /\ Free \notin Requests

VARIABLES rows,       \* rows[x]: the committed Position row of x
          bought,     \* bought[x]: shares of x in committed BUY trades
          sold,       \* sold[x]: shares of x in committed SELL trades
          lock,       \* lock[x]: the request whose flushed write holds row x
          request,    \* request[r]: what request r is doing
          raced,      \* history: raced[x]: two requests on x have overlapped
          valuation,  \* how far build_portfolio_state is; torn: a commit fell into it
          equity,     \* what the valuation has added up so far
          hwm,        \* the highest equity snapshot
          submitted   \* trades submitted so far

vars == <<rows, bought, sold, lock, request, raced, valuation, equity, hwm, submitted>>

Row    == [exists : BOOLEAN, shares : Int, basis : {0, 1}]
NoRow  == [exists |-> FALSE, shares |-> 0, basis |-> 0]
Deltas == Lots \cup {-n : n \in Lots}

NoRequest == [phase |-> "idle"]
Loaded    == [phase : {"loaded", "flushed"}, symbol : Traded, delta : Deltas, seen : Row]
NoReading == [phase |-> "none", torn |-> FALSE]

Active(r)     == request[r].phase # "idle"
ActiveOn(r, x) == Active(r) /\ request[r].symbol = x

Init ==
    /\ rows = [x \in Traded |-> NoRow]
    /\ bought = [x \in Traded |-> 0]
    /\ sold = [x \in Traded |-> 0]
    /\ lock = [x \in Traded |-> Free]
    /\ request = [r \in Requests |-> NoRequest]
    /\ raced = [x \in Traded |-> FALSE]
    /\ valuation = NoReading
    /\ equity = 0
    /\ hwm = 0
    /\ submitted = 0

\* db.get(Position, symbol): the request's own copy of the committed row.
LoadPosition(r, x, d) ==
    /\ ~Active(r)
    /\ submitted < MaxTrades
    /\ submitted' = submitted + 1
    /\ request' = [request EXCEPT ![r] =
          [phase |-> "loaded", symbol |-> x, delta |-> d, seen |-> rows[x]]]
    /\ raced' = [raced EXCEPT ![x] = @ \/ \E other \in Requests : ActiveOn(other, x)]
    /\ UNCHANGED <<rows, bought, sold, lock, valuation, equity, hwm>>

\* Mutant of Oversells: off by one share.
OversellsByOne(q) == q.seen.shares + q.delta < -1

Oversells(q) == q.seen.shares + q.delta < 0

\* 422: more than the loaded row holds; the session is rolled back.
RejectSell(r) ==
    /\ request[r].phase = "loaded"
    /\ Oversells(request[r])
    /\ request' = [request EXCEPT ![r] = NoRequest]
    /\ UNCHANGED <<rows, bought, sold, lock, raced, valuation, equity, hwm, submitted>>

\* Mutant of Flush: the write does not wait for the row lock.
FlushUnlocked(r) ==
    /\ request[r].phase = "loaded"
    /\ ~Oversells(request[r])
    /\ request[r].seen.exists \/ ~rows[request[r].symbol].exists
    /\ lock' = [lock EXCEPT ![request[r].symbol] = r]
    /\ request' = [request EXCEPT ![r].phase = "flushed"]
    /\ UNCHANGED <<rows, bought, sold, raced, valuation, equity, hwm, submitted>>

\* db.flush: waits for the row lock, then writes under it.
Flush(r) ==
    /\ request[r].phase = "loaded"
    /\ ~Oversells(request[r])
    /\ lock[request[r].symbol] = Free
    /\ request[r].seen.exists \/ ~rows[request[r].symbol].exists
    /\ lock' = [lock EXCEPT ![request[r].symbol] = r]
    /\ request' = [request EXCEPT ![r].phase = "flushed"]
    /\ UNCHANGED <<rows, bought, sold, raced, valuation, equity, hwm, submitted>>

\* The INSERT of a row another request has meanwhile committed: the primary
\* key refuses it and the request fails.
DuplicateRow(r) ==
    /\ request[r].phase = "loaded"
    /\ ~Oversells(request[r])
    /\ lock[request[r].symbol] = Free
    /\ ~request[r].seen.exists
    /\ rows[request[r].symbol].exists
    /\ request' = [request EXCEPT ![r] = NoRequest]
    /\ UNCHANGED <<rows, bought, sold, lock, raced, valuation, equity, hwm, submitted>>

\* _apply_trade's arithmetic, on the row as loaded.
NewShares(q) == q.seen.shares + q.delta

\* Mutant of NewBasis: closing a position keeps its basis.
NewBasisKept(q) == IF q.delta > 0 THEN 1 ELSE q.seen.basis

NewBasis(q) ==
    IF q.delta > 0 THEN 1 ELSE IF NewShares(q) = 0 THEN 0 ELSE q.seen.basis

\* The row after the UPDATE: SQLAlchemy writes the columns whose value differs
\* from the one loaded, over whatever the row now holds.
Written(q, current) ==
    [exists |-> TRUE,
     shares |-> NewShares(q),
     basis  |-> IF q.seen.exists /\ NewBasis(q) = q.seen.basis
                THEN current.basis ELSE NewBasis(q)]

\* Mutant of Commit: a SELL moves the position and records no trade.
CommitUnrecordedSell(r) ==
    LET q == request[r] IN
    /\ q.phase = "flushed"
    /\ rows' = [rows EXCEPT ![q.symbol] = Written(q, @)]
    /\ bought' = IF q.delta > 0 THEN [bought EXCEPT ![q.symbol] = @ + q.delta] ELSE bought
    /\ lock' = [lock EXCEPT ![q.symbol] = Free]
    /\ request' = [request EXCEPT ![r] = NoRequest]
    /\ UNCHANGED <<sold, raced, valuation, equity, hwm, submitted>>

Commit(r) ==
    LET q == request[r] IN
    /\ q.phase = "flushed"
    /\ rows' = [rows EXCEPT ![q.symbol] = Written(q, @)]
    /\ bought' = IF q.delta > 0 THEN [bought EXCEPT ![q.symbol] = @ + q.delta] ELSE bought
    /\ sold' = IF q.delta < 0 THEN [sold EXCEPT ![q.symbol] = @ - q.delta] ELSE sold
    /\ lock' = [lock EXCEPT ![q.symbol] = Free]
    /\ request' = [request EXCEPT ![r] = NoRequest]
    /\ valuation' = IF valuation.phase = "half"
                    THEN [valuation EXCEPT !.torn = TRUE] ELSE valuation
    /\ UNCHANGED <<raced, equity, hwm, submitted>>

\* The request ends without a commit (connection lost, process stopped).
Abort(r) ==
    /\ Active(r)
    /\ request' = [request EXCEPT ![r] = NoRequest]
    /\ lock' = [x \in Traded |-> IF lock[x] = r THEN Free ELSE lock[x]]
    /\ UNCHANGED <<rows, bought, sold, raced, valuation, equity, hwm, submitted>>

-----------------------------------------------------------------------------
MarketValue == SumFunction([x \in Traded |-> rows[x].shares])

\* Mutant of CashBalance: the proceeds of sales are forgotten.
CashWithoutProceeds == Start - SumFunction(bought)

CashBalance == Start + SumFunction([x \in Traded |-> sold[x] - bought[x]])

\* build_portfolio_state's first statement: select(Position).
ReadPositions ==
    /\ valuation.phase \in {"none", "done"}
    /\ valuation' = [phase |-> "half", torn |-> FALSE]
    /\ equity' = MarketValue
    /\ UNCHANGED <<rows, bought, sold, lock, request, raced, hwm, submitted>>

\* Its second: cash_balance's select(TradeRow).  The value is now the equity.
ReadTrades ==
    /\ valuation.phase = "half"
    /\ valuation' = [valuation EXCEPT !.phase = "done"]
    /\ equity' = equity + CashBalance
    /\ UNCHANGED <<rows, bought, sold, lock, request, raced, hwm, submitted>>

\* snapshot_equity, in the post-close job: the value becomes an EquitySnapshot.
SnapshotEquity ==
    /\ valuation.phase = "done"
    /\ hwm' = Max({hwm, equity})
    /\ valuation' = NoReading
    /\ equity' = 0
    /\ UNCHANGED <<rows, bought, sold, lock, request, raced, submitted>>

TradeStep(r) ==
    \/ \E x \in Traded, d \in Deltas : LoadPosition(r, x, d)
    \/ RejectSell(r) \/ Flush(r) \/ DuplicateRow(r) \/ Commit(r) \/ Abort(r)

Next ==
    \/ \E r \in Requests : TradeStep(r)
    \/ ReadPositions \/ ReadTrades \/ SnapshotEquity

Spec == Init /\ [][Next]_vars
-----------------------------------------------------------------------------
(* Types.  A row lock is held by the flushed request on that row and by no *)
(* one else (the flush of portfolio.py:54-60 under READ COMMITTED).        *)
TypeOK ==
    /\ rows \in [Traded -> Row]
    /\ bought \in [Traded -> Nat]
    /\ sold \in [Traded -> Nat]
    /\ lock \in [Traded -> Requests \cup {Free}]
    /\ request \in [Requests -> Loaded \cup {NoRequest}]
    /\ raced \in [Traded -> BOOLEAN]
    /\ valuation \in [phase : {"none", "half", "done"}, torn : BOOLEAN]
    /\ submitted \in 0 .. MaxTrades
    /\ \A x \in Traded, r \in Requests :
          lock[x] = r <=> request[r].phase = "flushed" /\ request[r].symbol = x

(* No position is ever short (portfolio.py:43-44), whatever overlaps: the  *)
(* oversell check and the write use the same loaded row.                   *)
NeverShort == \A x \in Traded : rows[x].shares >= 0

(* The position is the sum of its trades, and has a cost basis exactly     *)
(* while it is open, as long as no two requests on its symbol overlapped   *)
(* (portfolio.py:34-59).                                                   *)
DerivedUnlessRaced ==
    \A x \in Traded : ~raced[x] =>
        /\ rows[x].shares = bought[x] - sold[x]
        /\ rows[x].basis = 1 <=> rows[x].shares > 0

(* A valuation no commit fell into, over positions nobody raced on, finds  *)
(* the equity unchanged by trading at one price (state.py:48-61).          *)
EquityConserved ==
    valuation.phase = "done" /\ ~valuation.torn /\ (\A x \in Traded : ~raced[x])
        => equity = Start

(* The portfolio implements the account: a commit is one atomic trade of  *)
(* it, an overlap contests a symbol, everything else is invisible to it.   *)
A == INSTANCE Account
        WITH Symbols   <- Traded,
             held      <- [x \in Traded |-> IF raced[x] THEN 0 ELSE rows[x].shares],
             net       <- [x \in Traded |-> IF raced[x] THEN 0 ELSE bought[x] - sold[x]],
             contested <- {x \in Traded : raced[x]}

ImplementsAccount == A!Spec
=============================================================================
