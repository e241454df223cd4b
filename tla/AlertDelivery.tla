---------------------------- MODULE AlertDelivery ----------------------------
(***************************************************************************)
(* How a scan's signals become Telegram messages, over one trading day     *)
(* (alerts/router.py, swing/alerts.py, pipeline/runner.py and the scan     *)
(* jobs of scheduler/jobs.py).  Two books alert: the core one from the     *)
(* open and the close scan, the swing one from its open and midday scans.  *)
(* A job runs in one database session that commits at its end and rolls    *)
(* back on any exception; a message, once sent, cannot be rolled back.     *)
(*                                                                         *)
(* A run's eligible signals (actionable, of an allowed action, confident   *)
(* enough) are numbered from 1 in the order they are tried, the most       *)
(* confident first; message 0 of a run is the ops alert of its failure.    *)
(***************************************************************************)
EXTENDS Integers, FiniteSets

CONSTANTS Jobs,         \* the scan jobs of a day
          KindOf,       \* [Jobs -> Kinds]: the kind of alert a job's run routes
          Cap,          \* [Kinds -> Nat]: max_alerts_per_day, swing_max_alerts_per_day
          MaxEligible   \* bound: eligible signals of one run

Kinds    == {"signal", "swing_signal"}
Ranks    == 1 .. MaxEligible
Messages == Jobs \X (0 .. MaxEligible)

ASSUME AlertAssumption ==
    /\ IsFiniteSet(Jobs)
    /\ KindOf \in [Jobs -> Kinds]
    /\ Cap \in [Kinds -> Nat]
    /\ MaxEligible \in Nat

VARIABLES phase,       \* phase[j]: how far today's run of j has come
          waiting,     \* waiting[j]: eligible signals the router has not tried
          rows,        \* rows[j]: alert rows j has flushed, not committed
          flags,       \* flags[j]: messages whose signal row j flagged alert_sent
          event,       \* event[j]: the system event j has flushed
          alerts,      \* today's committed alert rows
          flagged,     \* signals whose committed row has alert_sent
          audit,       \* <<job, event>> of today's committed system events
          received,    \* messages that reached the owner today
          raced        \* history: kinds of which a run could not see every message

vars == <<phase, waiting, rows, flags, event, alerts, flagged, audit, received, raced>>

session  == <<rows, flags, event>>
database == <<alerts, flagged, audit>>

Row == [message : Messages, ok : BOOLEAN]

OfKind(messages, k) == {m \in messages : m[2] > 0 /\ KindOf[m[1]] = k}

\* Mutant of Sent: failed attempts count as sent.
SentOrFailed(table) == {r.message : r \in table}

Sent(table) == {r.message : r \in {row \in table : row.ok}}

\* Mutant of SentToday: the session's own rows are not flushed before the count.
SentTodayCommitted(j) == Cardinality(OfKind(Sent(alerts), KindOf[j]))

\* alerts_sent_today, as the session of j sees the table.
SentToday(j) == Cardinality(OfKind(Sent(alerts \cup rows[j]), KindOf[j]))

BelowCap(j) == SentToday(j) + 1 <= Cap[KindOf[j]]

Init ==
    /\ phase = [j \in Jobs |-> "due"]
    /\ waiting = [j \in Jobs |-> {}]
    /\ rows = [j \in Jobs |-> {}]
    /\ flags = [j \in Jobs |-> {}]
    /\ event = [j \in Jobs |-> "none"]
    /\ alerts = {} /\ flagged = {} /\ audit = {}
    /\ received = {} /\ raced = {}

\* The scheduler fires j: at its hour, or late when the host slept through it.
StartRun(j) ==
    /\ phase[j] = "due"
    /\ phase' = [phase EXCEPT ![j] = "scanning"]
    /\ UNCHANGED <<waiting, session, database, received, raced>>

\* The scan is done and its signals are saved.  Without an eligible signal,
\* without Telegram credentials and in quiet hours there is nothing to send.
Route(j) ==
    /\ phase[j] = "scanning"
    /\ phase' = [phase EXCEPT ![j] = "routing"]
    /\ \E n \in 0 .. MaxEligible : waiting' = [waiting EXCEPT ![j] = 1 .. n]
    /\ UNCHANGED <<session, database, received, raced>>

\* A message leaves the process, and the attempt is flushed as a row.
Try(j, m, ok) ==
    /\ received' = IF ok THEN received \cup {m} ELSE received
    /\ rows' = [rows EXCEPT ![j] = @ \cup {[message |-> m, ok |-> ok]}]

\* Mutant of SendAlert: the signal is flagged whether the message left or not.
SendAlertFlagsAll(j) ==
    /\ phase[j] = "routing"
    /\ BelowCap(j)
    /\ \E rank \in waiting[j], ok \in BOOLEAN :
          /\ \A other \in waiting[j] : rank <= other
          /\ Try(j, <<j, rank>>, ok)
          /\ flags' = [flags EXCEPT ![j] = @ \cup {<<j, rank>>}]
          /\ waiting' = [waiting EXCEPT ![j] = @ \ {rank}]
    /\ UNCHANGED <<phase, event, database, raced>>

\* One turn of the router's loop, below the cap.
SendAlert(j) ==
    /\ phase[j] = "routing"
    /\ BelowCap(j)
    /\ \E rank \in waiting[j], ok \in BOOLEAN :
          /\ \A other \in waiting[j] : rank <= other
          /\ Try(j, <<j, rank>>, ok)
          /\ flags' = IF ok THEN [flags EXCEPT ![j] = @ \cup {<<j, rank>>}] ELSE flags
          /\ waiting' = [waiting EXCEPT ![j] = @ \ {rank}]
    /\ raced' = IF OfKind(received, KindOf[j]) \subseteq Sent(alerts \cup rows[j])
                THEN raced ELSE raced \cup {KindOf[j]}
    /\ UNCHANGED <<phase, event, database>>

\* The loop's break: what is still waiting is dropped.
CapReached(j) ==
    /\ phase[j] = "routing"
    /\ waiting[j] # {}
    /\ ~BelowCap(j)
    /\ waiting' = [waiting EXCEPT ![j] = {}]
    /\ UNCHANGED <<phase, session, database, received, raced>>

\* The run's audit event is the last thing its session flushes.
FinishRun(j) ==
    /\ phase[j] = "routing"
    /\ waiting[j] = {}
    /\ phase' = [phase EXCEPT ![j] = "finished"]
    /\ event' = [event EXCEPT ![j] = "run"]
    /\ UNCHANGED <<waiting, rows, flags, database, received, raced>>

\* Outside of caps and quiet hours, but not without credentials.
SendOpsAlert(j) ==
    \/ \E ok \in BOOLEAN : Try(j, <<j, 0>>, ok)
    \/ UNCHANGED <<received, rows>>

\* The core graph raises: run_scan adds an event, sends an ops alert and
\* raises again.
PipelineFails(j) ==
    /\ phase[j] = "scanning"
    /\ KindOf[j] = "signal"
    /\ phase' = [phase EXCEPT ![j] = "failed"]
    /\ event' = [event EXCEPT ![j] = "failed"]
    /\ SendOpsAlert(j)
    /\ UNCHANGED <<waiting, flags, database, raced>>

Close(j) ==
    /\ phase' = [phase EXCEPT ![j] = "done"]
    /\ waiting' = [waiting EXCEPT ![j] = {}]
    /\ rows' = [rows EXCEPT ![j] = {}]
    /\ flags' = [flags EXCEPT ![j] = {}]
    /\ event' = [event EXCEPT ![j] = "none"]
    /\ UNCHANGED <<received, raced>>

Commit(j) ==
    /\ phase[j] = "finished"
    /\ alerts' = alerts \cup rows[j]
    /\ flagged' = flagged \cup flags[j]
    /\ audit' = audit \cup {<<j, event[j]>>}
    /\ Close(j)

\* The wrapper's except clause after the scan or the router raised, or the
\* death of the worker: what the session flushed is gone.
Rollback(j) ==
    /\ phase[j] \in {"scanning", "routing", "failed", "finished"}
    /\ Close(j)
    /\ UNCHANGED database

\* ET midnight.  A run that is still due was missed beyond its grace time.
NewDay ==
    /\ \A j \in Jobs : phase[j] \in {"due", "done"}
    /\ phase' = [j \in Jobs |-> "due"]
    /\ alerts' = {} /\ flagged' = {} /\ audit' = {}
    /\ received' = {} /\ raced' = {}
    /\ UNCHANGED <<waiting, session>>

Next ==
    \/ NewDay
    \/ \E j \in Jobs :
          \/ StartRun(j) \/ Route(j) \/ SendAlert(j) \/ CapReached(j)
          \/ FinishRun(j) \/ PipelineFails(j) \/ Commit(j) \/ Rollback(j)

Spec == Init /\ [][Next]_vars
-----------------------------------------------------------------------------
(* The daily cap (router.py:114, swing/alerts.py:84) is exceeded in one way*)
(* only: a run sends while a message of its kind is out that it cannot see,*)
(* one a concurrent run has not committed or a rolled-back run lost.  Each *)
(* run sees its own rows (:132), so no day brings more than a cap per job. *)
CapKept ==
    \A k \in Kinds :
        Cardinality(OfKind(received, k))
            <= Cap[k] * (IF k \in raced THEN Cardinality({j \in Jobs : KindOf[j] = k}) ELSE 1)

(* The signals screen and the alert log agree: a stored signal is flagged  *)
(* alert_sent exactly when a successful row of it is stored, and then the  *)
(* owner has the message (router.py:123-136).                              *)
FlagsAgreeWithLog == flagged = Sent(alerts) /\ flagged \subseteq received

(* Separate caps (swing/alerts.py:1-3): a run drops a signal for the cap   *)
(* only on a day that brought the owner a full cap of messages of that     *)
(* book; neither the other book nor failed sends ever use it up.           *)
NeverStarved ==
    [][\A j \in Jobs :
          CapReached(j) =>
              Cardinality(OfKind(received, KindOf[j])) >= Cap[KindOf[j]]]_vars
=============================================================================
