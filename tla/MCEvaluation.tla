---------------------------- MODULE MCEvaluation ----------------------------
(* Quiet days, days that reach the target and days that reach the stop as   *)
(* well.                                                                    *)
EXTENDS Evaluation

MCLevels == {[entry |-> 3, stop |-> 1, target |-> 5]}

MCDayBars == {[low |-> 2, high |-> 4, close |-> 4], [low |-> 1, high |-> 5, close |-> 2],
              [low |-> 2, high |-> 5, close |-> 4]}

MCStrategy == [t \in Tickers |-> "momentum"]

MCRegime == <<"bull", "bear", "bull">>
=============================================================================
