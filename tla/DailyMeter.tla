----------------------------- MODULE DailyMeter -----------------------------
(***************************************************************************)
(* What the daily cap on model calls promises, stated without a database:  *)
(* a permit scheme.  A client that has used less than Cap today may be     *)
(* granted at most Burst further calls; it uses them one at a time, and    *)
(* may hand the rest back.  The meter may forget use (a client that dies)  *)
(* and starts from zero every day.  LLMBudget implements it, with the rows *)
(* a database session can see of its own making as a client's use.         *)
(***************************************************************************)
EXTENDS Integers

CONSTANTS Clients,  \* who draws on the meter
          Cap,      \* use at which no further grant is made
          Burst     \* calls one grant allows

VARIABLES used,     \* used[c]: calls c is metered for today
          permits   \* permits[c]: calls c may still make under its grant

meterVars == <<used, permits>>

Init ==
    /\ used = [c \in Clients |-> 0]
    /\ permits = [c \in Clients |-> 0]

Grant(c) ==
    /\ permits[c] = 0
    /\ used[c] < Cap
    /\ permits' = [permits EXCEPT ![c] = Burst]
    /\ UNCHANGED used

\* One call is made; the client keeps the rest of its grant or returns it.
Use(c) ==
    /\ permits[c] > 0
    /\ used' = [used EXCEPT ![c] = @ + 1]
    /\ permits' \in {[permits EXCEPT ![c] = @ - 1], [permits EXCEPT ![c] = 0]}

\* The client ends abnormally: its permits are gone and some of its use may be.
Forget(c) ==
    /\ \E n \in 0 .. used[c] : used' = [used EXCEPT ![c] = n]
    /\ permits' = [permits EXCEPT ![c] = 0]

NewDay ==
    /\ used' = [c \in Clients |-> 0]
    /\ UNCHANGED permits

Next == NewDay \/ \E c \in Clients : Grant(c) \/ Use(c) \/ Forget(c)

Spec == Init /\ [][Next]_meterVars
=============================================================================
