--------------------------- MODULE MCAlertDelivery ---------------------------
(* AlertDelivery on a day with both swing scans, which share a cap, and a   *)
(* core scan.  The caps are one and two, and a run may have one signal more *)
(* than the larger cap, so a run can meet its cap alone or with another.    *)
EXTENDS AlertDelivery

MCJobs   == {"market_open_scan", "swing_open", "swing_midday"}
MCKindOf == [j \in MCJobs |-> IF j = "market_open_scan" THEN "signal" ELSE "swing_signal"]
MCCap    == [k \in Kinds |-> IF k = "signal" THEN 1 ELSE 2]
=============================================================================
