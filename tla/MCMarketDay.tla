---------------------------- MODULE MCMarketDay -----------------------------
(* A universe of one symbol, which is held; one theme seed and one symbol   *)
(* that only the whole-market screen knows.  Fundamentals live 16 hours, so *)
(* that they expire within the bound.                                       *)
EXTENDS MarketDay

MCTables == {"bars", "quotes", "fundamentals", "earnings"}

MCTtl == [t \in Tables |-> IF t = "fundamentals" THEN 16 ELSE 20]

MCSessions == {"premarket", "boot", "ingest"}
=============================================================================
