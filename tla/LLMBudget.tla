------------------------------ MODULE LLMBudget ------------------------------
(***************************************************************************)
(* The LLM spend meter (sentinel/providers/llm/client.py) under the        *)
(* database sessions that share it: the scan jobs of the worker process    *)
(* and the requests of the api process.  Every paid attempt is a row of    *)
(* api_usage, flushed into the session that made the call and visible to   *)
(* the others only when that session commits (scheduler/jobs.py, get_db in *)
(* db/base.py).  complete_json reads the meter once, then makes up to      *)
(* MaxRetries attempts.                                                    *)
(*                                                                         *)
(* A charge is a vector over the three meters _check_budget reads.  A      *)
(* transport error costs one call and nothing else; a reply costs one of   *)
(* ReplyCharges (a model with unknown pricing costs 0).                    *)
(***************************************************************************)
EXTENDS Integers

CONSTANTS Sessions,      \* database sessions that may call the model
          Budget,        \* [Meters -> Nat]: the daily caps; 0 calls = no cap on calls
          MaxRetries,    \* policy.max_retries: attempts of one complete_json
          ReplyCharges,  \* charges a reply may have
          MaxCharge,     \* an upper bound of one attempt's charge, per meter
          MaxAborts      \* bound: sessions rolled back in one day

Meters == {"cost", "calls", "tokens"}
Usage  == [Meters -> Nat]

ASSUME BudgetAssumption ==
    /\ Budget \in Usage
    /\ MaxRetries \in Nat \ {0}
    /\ MaxAborts \in Nat
    /\ MaxCharge \in [Meters -> Nat \ {0}]
    /\ ReplyCharges \subseteq {c \in Usage : c["calls"] = 1}
    /\ \A c \in ReplyCharges, m \in Meters : c[m] <= MaxCharge[m]

VARIABLES ledger,    \* usage of today's committed api_usage rows
          pending,   \* pending[s]: usage of today's rows s has flushed, not committed
          phase,     \* phase[s]: where session s is
          attempts,  \* attempts[s]: attempts left to the complete_json in progress
          degraded,  \* degraded[s]: the open session fell back to deterministic output
          written,   \* history: the part of ledger that s committed
          late,      \* history: late[s]: attempts s made with the ledger over a cap
          spent,     \* history: usage paid for today, on record or not
          aborts     \* history: sessions rolled back today

vars == <<ledger, pending, phase, attempts, degraded, written, late, spent, aborts>>

Zero       == [m \in Meters |-> 0]
Plus(u, v) == [m \in Meters |-> u[m] + v[m]]

TransportCharge == [Zero EXCEPT !["calls"] = 1]

\* A meter without a cap never stops a call: only the call count has that form.
Capped(m) == m # "calls" \/ Budget["calls"] > 0

\* Mutant of Exhausted: the test stops only above the cap.
ExhaustedAboveCap(usage) == \E m \in Meters : Capped(m) /\ usage[m] > Budget[m]

\* _check_budget's three tests, on the usage a session can see.
Exhausted(usage) == \E m \in Meters : Capped(m) /\ usage[m] >= Budget[m]

\* Mutant of Visible: the session sums its own rows only.
VisibleOwnOnly(s) == pending[s]

\* The rows a query of session s returns: everything committed, and its own.
Visible(s) == Plus(ledger, pending[s])

Init ==
    /\ ledger = Zero
    /\ pending = [s \in Sessions |-> Zero]
    /\ phase = [s \in Sessions |-> "closed"]
    /\ attempts = [s \in Sessions |-> 0]
    /\ degraded = [s \in Sessions |-> FALSE]
    /\ written = [s \in Sessions |-> Zero]
    /\ late = [s \in Sessions |-> 0]
    /\ spent = Zero
    /\ aborts = 0

\* A job wrapper or a request opens its session.
OpenSession(s) ==
    /\ phase[s] = "closed"
    /\ phase' = [phase EXCEPT ![s] = "open"]
    /\ UNCHANGED <<ledger, pending, attempts, degraded, written, late, spent, aborts>>

\* complete_json passes _check_budget and enters its attempt loop.
StartCall(s) ==
    /\ phase[s] = "open"
    /\ ~Exhausted(Visible(s))
    /\ phase' = [phase EXCEPT ![s] = "calling"]
    /\ attempts' = [attempts EXCEPT ![s] = MaxRetries]
    /\ UNCHANGED <<ledger, pending, degraded, written, late, spent, aborts>>

\* _check_budget raises: the caller degrades to its deterministic fallback.
RefuseCall(s) ==
    /\ phase[s] = "open"
    /\ Exhausted(Visible(s))
    /\ degraded' = [degraded EXCEPT ![s] = TRUE]
    /\ UNCHANGED <<ledger, pending, phase, attempts, written, late, spent, aborts>>

\* An attempt of session s: the provider is paid, and _record_usage adds and
\* flushes the row in the session.
Pay(s, charge) ==
    /\ pending' = [pending EXCEPT ![s] = Plus(@, charge)]
    /\ spent' = Plus(spent, charge)
    /\ late' = IF Exhausted(ledger) THEN [late EXCEPT ![s] = @ + 1] ELSE late

\* Mutant of FailAttempt: a failed attempt is tried again without being counted.
FailAttemptUncounted(s, charge) ==
    /\ phase[s] = "calling"
    /\ Pay(s, charge)
    /\ UNCHANGED <<ledger, phase, attempts, degraded, written, aborts>>

\* An attempt that brought no valid reply; the last one raises LLMError.
FailAttempt(s, charge) ==
    /\ phase[s] = "calling"
    /\ Pay(s, charge)
    /\ attempts' = [attempts EXCEPT ![s] = @ - 1]
    /\ IF attempts[s] > 1
       THEN UNCHANGED <<phase, degraded>>
       ELSE /\ phase' = [phase EXCEPT ![s] = "open"]
            /\ degraded' = [degraded EXCEPT ![s] = TRUE]
    /\ UNCHANGED <<ledger, written, aborts>>

TransportError(s) == FailAttempt(s, TransportCharge)

InvalidReply(s) == \E charge \in ReplyCharges : FailAttempt(s, charge)

ValidReply(s) ==
    /\ phase[s] = "calling"
    /\ \E charge \in ReplyCharges : Pay(s, charge)
    /\ attempts' = [attempts EXCEPT ![s] = 0]
    /\ phase' = [phase EXCEPT ![s] = "open"]
    /\ UNCHANGED <<ledger, degraded, written, aborts>>

\* The job or the request ends normally: its rows become everyone's.
CommitSession(s) ==
    /\ phase[s] = "open"
    /\ ledger' = Plus(ledger, pending[s])
    /\ written' = [written EXCEPT ![s] = Plus(@, pending[s])]
    /\ pending' = [pending EXCEPT ![s] = Zero]
    /\ phase' = [phase EXCEPT ![s] = "closed"]
    /\ degraded' = [degraded EXCEPT ![s] = FALSE]
    /\ UNCHANGED <<attempts, late, spent, aborts>>

\* Mutant of RollbackSession: the flushed rows survive the rollback.
RollbackKeepsRows(s) ==
    /\ phase[s] # "closed"
    /\ aborts < MaxAborts
    /\ aborts' = aborts + 1
    /\ attempts' = [attempts EXCEPT ![s] = 0]
    /\ phase' = [phase EXCEPT ![s] = "closed"]
    /\ degraded' = [degraded EXCEPT ![s] = FALSE]
    /\ UNCHANGED <<ledger, pending, written, late, spent>>

\* An exception leaves the job or the request, or its process dies: the rows
\* go, what they paid for does not come back.
RollbackSession(s) ==
    /\ phase[s] # "closed"
    /\ aborts < MaxAborts
    /\ aborts' = aborts + 1
    /\ pending' = [pending EXCEPT ![s] = Zero]
    /\ attempts' = [attempts EXCEPT ![s] = 0]
    /\ phase' = [phase EXCEPT ![s] = "closed"]
    /\ degraded' = [degraded EXCEPT ![s] = FALSE]
    /\ UNCHANGED <<ledger, written, late, spent>>

\* Midnight UTC: the sums start from rows of the new day only.
Midnight ==
    /\ ledger' = Zero
    /\ pending' = [s \in Sessions |-> Zero]
    /\ written' = [s \in Sessions |-> Zero]
    /\ late' = [s \in Sessions |-> 0]
    /\ spent' = Zero
    /\ aborts' = 0
    /\ UNCHANGED <<phase, attempts, degraded>>

Next ==
    \/ Midnight
    \/ \E s \in Sessions :
          \/ OpenSession(s) \/ StartCall(s) \/ RefuseCall(s)
          \/ TransportError(s) \/ InvalidReply(s) \/ ValidReply(s)
          \/ CommitSession(s) \/ RollbackSession(s)

Spec == Init /\ [][Next]_vars
-----------------------------------------------------------------------------
(* Types.  A session that is not in an attempt loop has no attempts left,  *)
(* and only an open session has flushed rows (client.py:157-177).          *)
TypeOK ==
    /\ ledger \in Usage
    /\ pending \in [Sessions -> Usage]
    /\ phase \in [Sessions -> {"closed", "open", "calling"}]
    /\ attempts \in [Sessions -> 0 .. MaxRetries]
    /\ degraded \in [Sessions -> BOOLEAN]
    /\ written \in [Sessions -> Usage]
    /\ late \in [Sessions -> Nat]
    /\ spent \in Usage
    /\ aborts \in 0 .. MaxAborts
    /\ \A s \in Sessions : phase[s] = "calling" <=> attempts[s] > 0
    /\ \A s \in Sessions : phase[s] = "closed" => pending[s] = Zero

(* What the meter has on record of session s's work today. *)
Recorded(s) == Plus(written[s], pending[s])

(* The cap that really holds.  _check_budget runs once per complete_json   *)
(* (client.py:195), so one session overshoots a cap by at most the         *)
(* attempts of one call; sessions that cannot see one another each do so.  *)
SessionOvershootBounded ==
    \A s \in Sessions, m \in Meters :
        Capped(m) => Recorded(s)[m] < Budget[m] + MaxRetries * MaxCharge[m]

(* Degradation needs no operator action and has no override                *)
(* (client.py:6-10): once the day's committed usage is over a cap, a       *)
(* session makes at most the attempts of the one call it was already in,   *)
(* whatever it commits, rolls back or reopens before midnight.             *)
DegradedUntilMidnight ==
    \A s \in Sessions : late[s] <= MaxRetries

(* The permit scheme this implements, with a session's own rows as its use.*)
CallMeter ==
    INSTANCE DailyMeter
        WITH Clients <- Sessions,
             Cap     <- Budget["calls"],
             Burst   <- MaxRetries,
             used    <- [s \in Sessions |-> Recorded(s)["calls"]],
             permits <- attempts

ImplementsCallMeter == CallMeter!Spec
=============================================================================
