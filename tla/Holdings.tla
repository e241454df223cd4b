------------------------------ MODULE Holdings ------------------------------
(***************************************************************************)
(* Open positions over time: the market moves, review_positions advises,   *)
(* and the owner fills the advice at the mark (the system never trades).   *)
(* The module asks whether the advice is sound as a sequence, not only     *)
(* verdict by verdict.                                                     *)
(***************************************************************************)
EXTENDS PositionReview

CONSTANTS Profile,  \* the active risk profile
          Sector,   \* Sector[x]: the sector of x
          Adv,      \* Adv[x]: average daily dollar volume of x
          Corr,     \* Corr[x][y]: correlation of x and y in bp
          Earnings, \* Earnings[x]: trading days to the earnings of x, or NotKnown
          Marks,    \* prices a symbol may take
          Charts,   \* technical snapshots a symbol may have
          Opening,  \* [shares, mark, cash] to begin with
          MaxMoves  \* bound: market moves in a behaviour

\* The bounds RiskProfile puts on a profile (profile.py:15-18).
ASSUME HoldingsAssumption ==
    /\ Profile.atr_stop_multiple \in Nat \ {0}
    /\ Profile.risk_per_trade_pct \in Nat \ {0}
    /\ Profile.min_reward_risk \in Nat \ {0}
    /\ Profile.max_position_pct \in 1 .. Whole
    /\ Profile.max_portfolio_exposure_pct \in 1 .. 2 * Whole
    /\ Marks \subseteq Nat \ {0}
    /\ \A c \in Charts \ {NotKnown} : c.atr \in Nat
    /\ Opening.shares \in [Symbols -> Nat]
    /\ Opening.mark \in [Symbols -> Nat \ {0}]
    /\ Opening.cash \in Nat

VARIABLES shares,   \* shares[x]: the position in x
          cost,     \* cost[x]: its cost basis per share
          mark,     \* mark[x]: the price of x
          chart,    \* chart[x]: the technical snapshot of x
          calm,     \* the regime is not high-volatility
          cash,
          moves,    \* market moves so far
          last      \* history: last[x]: what was filled since x's market last moved

holdingsVars == <<shares, cost, mark, chart, calm, cash, moves, last>>

Equity == cash + SumFunction([x \in Symbols |-> shares[x] * mark[x]])

\* The portfolio as the engine sees it, with no loss on record.
Book == [equity |-> Equity, highWater |-> Equity, dayPnl |-> 0,
         shares |-> shares, price |-> mark, sector |-> Sector]

Holding(x) ==
    [symbol |-> x, shares |-> shares[x], cost |-> cost[x], mark |-> mark[x],
     sector |-> Sector[x], adv |-> Adv[x],
     corr |-> [y \in Open(Book) \ {x} |-> Corr[x][y]],
     chart |-> chart[x], calm |-> calm, earnings |-> Earnings[x]]

AdviceOn(x) == ReviewPosition(Holding(x), Book, Profile)

HoldingsInit ==
    /\ shares = Opening.shares
    /\ mark = Opening.mark
    /\ cost = Opening.mark
    /\ cash = Opening.cash
    /\ chart \in [Symbols -> Charts]
    /\ calm \in BOOLEAN
    /\ moves = 0
    /\ last = [x \in Symbols |-> "nothing"]

MarketMoves(x, price, snapshot, quiet) ==
    /\ moves < MaxMoves
    /\ moves' = moves + 1
    /\ mark' = [mark EXCEPT ![x] = price]
    /\ chart' = [chart EXCEPT ![x] = snapshot]
    /\ calm' = quiet
    /\ last' = [y \in Symbols |-> "nothing"]
    /\ UNCHANGED <<shares, cost, cash>>

\* The owner sells what the advice says.
FollowSell(x) ==
    /\ x \in Open(Book)
    /\ IsSell(AdviceOn(x))
    /\ shares' = [shares EXCEPT ![x] = @ + AdviceOn(x).delta]
    /\ cost' = IF shares'[x] = 0 THEN [cost EXCEPT ![x] = 0] ELSE cost
    /\ cash' = cash - AdviceOn(x).delta * mark[x]
    /\ last' = [last EXCEPT ![x] = "sold"]
    /\ UNCHANGED <<mark, chart, calm, moves>>

\* The owner adds what the advice says; the basis is the average price paid.
FollowAdd(x) ==
    /\ x \in Open(Book)
    /\ AdviceOn(x).action = "INCREASE"
    /\ shares' = [shares EXCEPT ![x] = @ + AdviceOn(x).delta]
    /\ cost' = [cost EXCEPT ![x] =
          (shares[x] * @ + AdviceOn(x).delta * mark[x]) \div (shares[x] + AdviceOn(x).delta)]
    /\ cash' = cash - AdviceOn(x).delta * mark[x]
    /\ last' = [last EXCEPT ![x] = "added"]
    /\ UNCHANGED <<mark, chart, calm, moves>>

HoldingsNext ==
    \/ \E x \in Symbols, price \in Marks, snapshot \in Charts, quiet \in BOOLEAN :
          MarketMoves(x, price, snapshot, quiet)
    \/ \E x \in Symbols : FollowSell(x) \/ FollowAdd(x)

HoldingsSpec == HoldingsInit /\ [][HoldingsNext]_holdingsVars
-----------------------------------------------------------------------------
(* Every fill of the advice leaves the position within the profile's size  *)
(* limit: an addition never overshoots it, a trim never stops short of it  *)
(* (manager.py:221-235 and 282-305).                                       *)
FillsRestoreCap ==
    [][\A x \in Symbols : FollowSell(x) \/ FollowAdd(x) =>
          Whole * shares'[x] * mark[x] <= Profile.max_position_pct * Equity']_holdingsVars

(* While the market stands still the advice does not turn: what it made    *)
(* the owner add it does not tell him to sell, and what it made him sell   *)
(* it does not tell him to add back (manager.py:182-318).                  *)
NoWhipsaw ==
    \A x \in Open(Book) :
        /\ last[x] = "added" => ~IsSell(AdviceOn(x))
        /\ last[x] = "sold" => AdviceOn(x).action # "INCREASE"
=============================================================================
