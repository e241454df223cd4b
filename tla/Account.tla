------------------------------ MODULE Account ------------------------------
(***************************************************************************)
(* What the manual portfolio promises (sentinel/api/routers/portfolio.py:  *)
(* "Trades are always user-entered; positions are derived from trades"):   *)
(* one atomic step per trade, moving the position and the trade ledger     *)
(* together, never below zero.  The promise on a symbol ends when it is    *)
(* contested, which two overlapping requests on it are.                    *)
(***************************************************************************)
EXTENDS Integers

CONSTANTS Symbols,  \* traded symbols
          Deltas    \* signed sizes of a trade: positive buys, negative sells

VARIABLES held,      \* held[x]: shares of x in the position
          net,       \* net[x]: shares bought less shares sold, over the trades
          contested  \* symbols of which the account promises nothing more

accountVars == <<held, net, contested>>

Init ==
    /\ held = [x \in Symbols |-> 0]
    /\ net = [x \in Symbols |-> 0]
    /\ contested = {}

Trade(x) ==
    /\ x \notin contested
    /\ \E delta \in Deltas :
          /\ held[x] + delta >= 0
          /\ held' = [held EXCEPT ![x] = @ + delta]
          /\ net' = [net EXCEPT ![x] = @ + delta]
    /\ UNCHANGED contested

\* The symbol is struck off the account.
Contest(x) ==
    /\ x \notin contested
    /\ contested' = contested \cup {x}
    /\ held' = [held EXCEPT ![x] = 0]
    /\ net' = [net EXCEPT ![x] = 0]

Next == \E x \in Symbols : Trade(x) \/ Contest(x)

Spec == Init /\ [][Next]_accountVars
=============================================================================
