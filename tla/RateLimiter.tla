----------------------------- MODULE RateLimiter ----------------------------
(***************************************************************************)
(* The budget of calls to one provider (sentinel/data/rate_limit.py),      *)
(* shared by the API and the worker: a counter in Redis per window of time,*)
(* named by the clock of the caller.  A request computes the name of its   *)
(* counter, and Redis counts it up to Delay later, possibly in a window    *)
(* that is over; the counter disappears a window's length after it was     *)
(* last counted up, by a denied call too.  The first exception of Redis    *)
(* sends a process to a window of its own, until it restarts.              *)
(*                                                                         *)
(* A caller that is denied sleeps and tries again up to its deadline       *)
(* (wait_and_acquire).  Time is counted in ticks.                          *)
(***************************************************************************)
EXTENDS Integers, FiniteSets, FiniteSetsExt, Functions

CONSTANTS Procs, Callers,
          ProcessOf,       \* ProcessOf[c]: the process of thread c
          Limit, Window,   \* BUDGETS[provider]
          MaxWait,         \* max_wait of the callers
          Nap,             \* the longest sleep between two tries
          Delay,           \* the longest round trip to Redis
          MaxTime, MaxFaults  \* bounds

ASSUME LimitAssumption == Limit \in Nat \ {0} /\ Window \in Nat \ {0}

ASSUME TimeAssumption ==
    MaxWait \in Nat /\ Nap \in Nat \ {0} /\ Delay \in Nat /\ MaxTime \in Nat /\ MaxFaults \in Nat

ASSUME ThreadsAssumption == ProcessOf \in [Callers -> Procs]

VARIABLES now,
          counter,   \* counter[k]: the count of window k in Redis and when it expires
          failed,    \* processes with _redis_failed
          local,     \* local[p]: count and start of the window of process p
          call,      \* call[c]: where thread c is in wait_and_acquire
          faults,
          admitted,  \* history: calls let through at t, for a window's length
          lapses     \* history: how often a process went over to its own window

limiterVars == <<now, counter, failed, local, call, faults, admitted, lapses>>

Times == 0 .. MaxTime

Idle == [step |-> "idle"]

Unused == [count |-> 0, start |-> 0]

NoCounter == [count |-> 0, expires |-> 0]

LimiterInit ==
    /\ now = 0
    /\ counter = [k \in Times |-> NoCounter]
    /\ failed = {}
    /\ local = [p \in Procs |-> Unused]
    /\ call = [c \in Callers |-> Idle]
    /\ faults = 0
    /\ admitted = [t \in Times |-> 0]
    /\ lapses = 0

-----------------------------------------------------------------------------
Admit(c) ==
    /\ call' = [call EXCEPT ![c] = Idle]
    /\ admitted' = [admitted EXCEPT ![now] = @ + 1]

\* Mutant of Deadline: every try has the whole of max_wait before it.
DeadlineAnew(c) == now + MaxWait

Deadline(c) == call[c].since + MaxWait

\* RateLimitExceeded: raised when the budget comes too late, slept on otherwise.
Deny(c, retryAfter) ==
    /\ call' = [call EXCEPT ![c] =
           IF now + retryAfter > Deadline(c) THEN Idle
           ELSE [step |-> "asleep", since |-> call[c].since,
                 wake |-> now + Min({retryAfter, Nap})]]
    /\ UNCHANGED admitted

\* _LocalWindow.acquire: the window of a process starts with a call.
AcquireLocal(c) ==
    LET p == ProcessOf[c]
        fresh == local[p].count = 0 \/ now - local[p].start >= Window
        count == IF fresh THEN 0 ELSE local[p].count
        start == IF fresh THEN now ELSE local[p].start
    IN  IF count >= Limit
        THEN Deny(c, Window - (now - start)) /\ UNCHANGED local
        ELSE Admit(c) /\ local' = [local EXCEPT ![p] = [count |-> count + 1, start |-> start]]

\* wait_and_acquire begins; the first try is due at once.
Ask(c) ==
    /\ call[c] = Idle
    /\ call' = [call EXCEPT ![c] = [step |-> "asleep", since |-> now, wake |-> now]]
    /\ UNCHANGED <<now, counter, failed, local, faults, admitted, lapses>>

Due(c) == call[c].step = "asleep" /\ call[c].wake <= now

\* acquire, in a process that gave Redis up.
TryLocal(c) ==
    /\ Due(c)
    /\ ProcessOf[c] \in failed
    /\ AcquireLocal(c)
    /\ UNCHANGED <<now, counter, failed, faults, lapses>>

\* acquire: the counter is named and the request sent.
Send(c) ==
    /\ Due(c)
    /\ ProcessOf[c] \notin failed
    /\ call' = [call EXCEPT ![c] = [step |-> "sent", since |-> call[c].since,
                                    window |-> now \div Window, at |-> now]]
    /\ UNCHANGED <<now, counter, failed, local, faults, admitted, lapses>>

\* INCR and EXPIRE.
Incremented(k) == [count |-> counter[k].count + 1, expires |-> now + Window]

\* Mutant of OverBudget: the call after the last one passes, too.
OverBudgetByOne(count) == count > Limit + 1

OverBudget(count) == count > Limit

Counted(c) ==
    LET k == call[c].window IN
    /\ call[c].step = "sent"
    /\ counter' = [counter EXCEPT ![k] = Incremented(k)]
    /\ IF OverBudget(counter[k].count + 1) THEN Deny(c, Window - (now % Window)) ELSE Admit(c)
    /\ UNCHANGED <<now, failed, local, faults, lapses>>

\* The first ping or the request raises; the counter may have gone up.
RedisFails(c) ==
    LET k == call[c].window IN
    /\ call[c].step = "sent"
    /\ faults < MaxFaults
    /\ faults' = faults + 1
    /\ \/ UNCHANGED counter
       \/ counter' = [counter EXCEPT ![k] = Incremented(k)]
    /\ failed' = failed \cup {ProcessOf[c]}
    /\ lapses' = IF ProcessOf[c] \in failed THEN lapses ELSE lapses + 1
    /\ AcquireLocal(c)
    /\ UNCHANGED now

\* A process is restarted: it forgets its window and tries Redis again.
Restart(p) ==
    /\ faults < MaxFaults
    /\ faults' = faults + 1
    /\ failed' = failed \ {p}
    /\ local' = [local EXCEPT ![p] = Unused]
    /\ call' = [c \in Callers |-> IF ProcessOf[c] = p THEN Idle ELSE call[c]]
    /\ UNCHANGED <<now, counter, admitted, lapses>>

\* A thread wakes up when it is due; Redis answers or fails within Delay.
Tick ==
    /\ now < MaxTime
    /\ \A c \in Callers : ~Due(c) /\ (call[c].step = "sent" => now < call[c].at + Delay)
    /\ now' = now + 1
    /\ counter' = [k \in Times |-> IF counter[k].expires <= now' THEN NoCounter ELSE counter[k]]
    /\ admitted' = [t \in Times |-> IF t + Window <= now' THEN 0 ELSE admitted[t]]
    /\ UNCHANGED <<failed, local, call, faults, lapses>>

LimiterNext ==
    \/ \E c \in Callers : Ask(c) \/ TryLocal(c) \/ Send(c) \/ Counted(c) \/ RedisFails(c)
    \/ \E p \in Procs : Restart(p)
    \/ Tick

LimiterSpec == LimiterInit /\ [][LimiterNext]_limiterVars
-----------------------------------------------------------------------------
\* The calls let through in the window's length up to now.
Burst == SumFunctionOnSet(admitted, Times)

\* The windows a call counted in that time may have been named after.
WindowsNamed ==
    (now \div Window) - (Max({0, now - Window + 1 - Delay}) \div Window) + 1

(* "Free-tier limits with headroom" (rate_limit.py:15): what a provider    *)
(* sees in any stretch of the window's length, whatever the processes do.  *)
(* Its limit bounds each counter a call of that time may be counted in,    *)
(* which are two when Redis answers at once and more when it is late; and  *)
(* every process that lost Redis adds at most two windows of its own.      *)
BurstBounded == Burst <= Limit * WindowsNamed + (2 * Limit - 1) * lapses

(* A blocking acquire (wait_and_acquire) has an answer by its deadline and *)
(* the last round trip, however often it is denied and whichever window    *)
(* denies it.                                                              *)
AnsweredByDeadline ==
    \A c \in Callers : call[c] # Idle => now <= call[c].since + MaxWait + Delay
=============================================================================
