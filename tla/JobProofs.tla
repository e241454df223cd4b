------------------------------ MODULE JobProofs ------------------------------
(***************************************************************************)
(* Proofs about the jobs of the scheduler: AlertDelivery, for any scan     *)
(* jobs, caps and numbers of eligible signals, and MarketDay, for any      *)
(* universe, lists, lifetimes of markers and overlap of jobs and requests. *)
(*                                                                         *)
(* The flags and the log agree because a session holds both until it       *)
(* commits; the cap is kept because a run sees its own rows, and all of    *)
(* its messages of the day are among them.                                 *)
(*                                                                         *)
(* A marker vouches for a row because a session marks only what it holds   *)
(* the row of, and commits both at one time; a sweep's list is topped up   *)
(* because its transaction finds the list before it asks for bars and      *)
(* quotes, and the scope of the calls grows with what was found.           *)
(***************************************************************************)
EXTENDS AlertDelivery, MarketDay, FiniteSetTheorems, FunctionTheorems, WellFoundedInduction, TLAPS

Phases == {"due", "scanning", "routing", "failed", "finished", "done"}

\* What the properties read, and what it depends on.
LogTypes ==
    /\ phase \in [Jobs -> Phases]
    /\ waiting \in [Jobs -> SUBSET Ranks]
    /\ rows \in [Jobs -> SUBSET Row]
    /\ flags \in [Jobs -> SUBSET Messages]
    /\ alerts \in SUBSET Row
    /\ flagged \in SUBSET Messages
    /\ received \in SUBSET Messages
    /\ raced \in SUBSET Kinds

\* A session's flags and rows agree, unless its run failed and will not commit;
\* a run that has not begun or is over holds neither.
SessionsAgree ==
    \A j \in Jobs :
        /\ phase[j] \in {"due", "done"} => rows[j] = {}
        /\ Sent(rows[j]) \subseteq received
        /\ phase[j] # "failed" => flags[j] = Sent(rows[j])

LogInv == SessionsAgree /\ FlagsAgreeWithLog

\* The messages run j of today has brought the owner.
OwnMessages(j) == {m \in received : m[1] = j /\ m[2] > 0}

\* A run has sent nothing before it routes, and then only what it sees.
OwnSeen ==
    \A j \in Jobs :
        /\ phase[j] \in {"due", "scanning"} => OwnMessages(j) = {}
        /\ phase[j] = "routing" => OwnMessages(j) \subseteq Sent(rows[j])

CapPerRun == \A j \in Jobs : Cardinality(OwnMessages(j)) <= Cap[KindOf[j]]

OneCapUnlessRaced == \A k \in Kinds \ raced : Cardinality(OfKind(received, k)) <= Cap[k]

CapInv == OwnSeen /\ CapPerRun /\ OneCapUnlessRaced

DeliveryInv == LogTypes /\ LogInv /\ CapInv

-----------------------------------------------------------------------------
(* What two tables hold together. *)
LEMMA SentOfUnion ==
    ASSUME NEW A, NEW B
    PROVE  Sent(A \cup B) = Sent(A) \cup Sent(B)
BY DEF Sent

\* What an attempt brings the owner.
Delivered(m, ok) == IF ok THEN {m} ELSE {}

(* An attempt reaches the owner and counts when it succeeded, and only in  *)
(* the session that made it.                                               *)
LEMMA TryRecords ==
    ASSUME LogTypes, NEW j \in Jobs, NEW m, NEW ok \in BOOLEAN, Try(j, m, ok)
    PROVE  /\ Delivered(m, ok) \subseteq {m}
           /\ received' = received \cup Delivered(m, ok)
           /\ Sent(rows'[j]) = Sent(rows[j]) \cup Delivered(m, ok)
           /\ \A i \in Jobs \ {j} : rows'[i] = rows[i]
<1>1. /\ rows'[j] = rows[j] \cup {[message |-> m, ok |-> ok]}
      /\ \A i \in Jobs \ {j} : rows'[i] = rows[i]
  BY DEF Try, LogTypes
<1>2. CASE ok = TRUE
  <2> DEFINE sent == [message |-> m, ok |-> ok]
  <2>1. sent.message = m /\ sent.ok
    BY <1>2
  <2> HIDE DEF sent
  <2>2. Sent({sent}) = {m}
    <3>1. {r \in {sent} : r.ok} = {sent}
      BY <2>1
    <3> QED BY <2>1, <3>1 DEF Sent
  <2>3. Sent(rows'[j]) = Sent(rows[j]) \cup {m}
    BY <1>1, <2>2, SentOfUnion DEF sent
  <2> QED BY <1>1, <1>2, <2>3 DEF Try, Delivered
<1>3. CASE ok = FALSE
  <2>1. Sent({[message |-> m, ok |-> ok]}) = {}
    BY <1>3 DEF Sent
  <2>2. Sent(rows'[j]) = Sent(rows[j])
    BY <1>1, <2>1, SentOfUnion
  <2> QED BY <1>1, <1>3, <2>2 DEF Try, Delivered
<1> QED BY <1>2, <1>3

(* There are finitely many messages. *)
LEMMA MessagesFinite ==
    ASSUME NEW M \in SUBSET Messages
    PROVE  /\ IsFiniteSet(M) /\ Cardinality(M) \in Nat
           /\ \A N \in SUBSET M : Cardinality(N) \in Nat /\ Cardinality(N) <= Cardinality(M)
<1>1. IsFiniteSet(0 .. MaxEligible)
  BY FS_Interval, AlertAssumption
<1>2. IsFiniteSet(Messages)
  BY <1>1, FS_Product, AlertAssumption DEF Messages
<1>3. IsFiniteSet(M)
  BY <1>2, FS_Subset
<1>4. \A N \in SUBSET M : IsFiniteSet(N) /\ Cardinality(N) <= Cardinality(M)
  BY <1>3, FS_Subset
<1> QED BY <1>3, <1>4, FS_CardinalityType

(* Some messages, and at most one more. *)
LEMMA OneMoreMessage ==
    ASSUME NEW M \in SUBSET Messages, NEW m \in Messages, NEW N \in SUBSET (M \cup {m})
    PROVE  Cardinality(N) <= Cardinality(M) + 1
<1>1. IsFiniteSet(M) /\ Cardinality(M) \in Nat
  BY MessagesFinite
<1>2. Cardinality(M \cup {m}) = IF m \in M THEN Cardinality(M) ELSE Cardinality(M) + 1
  BY <1>1, FS_AddElement
<1>3. Cardinality(N) <= Cardinality(M \cup {m}) /\ Cardinality(N) \in Nat
  BY MessagesFinite
<1> QED BY <1>1, <1>2, <1>3

(* Sent messages are messages. *)
LEMMA SentAreMessages ==
    ASSUME NEW T \in SUBSET Row
    PROVE  Sent(T) \in SUBSET Messages
BY DEF Sent, Row

-----------------------------------------------------------------------------
LEMMA TypesKept ==
    ASSUME LogTypes, [Next]_vars
    PROVE  LogTypes'
<1> USE DEF LogTypes, Phases
<1>1. CASE UNCHANGED vars
  BY <1>1 DEF vars
<1>2. CASE NewDay
  BY <1>2 DEF NewDay, session
<1>3. ASSUME NEW j \in Jobs, StartRun(j)
      PROVE  LogTypes'
  BY <1>3 DEF StartRun, session, database
<1>4. ASSUME NEW j \in Jobs, Route(j)
      PROVE  LogTypes'
  <2>1. PICK n \in 0 .. MaxEligible : waiting' = [waiting EXCEPT ![j] = 1 .. n]
    BY <1>4 DEF Route
  <2>2. 1 .. n \in SUBSET Ranks
    BY AlertAssumption DEF Ranks
  <2> QED BY <1>4, <2>1, <2>2 DEF Route, session, database
<1>5. ASSUME NEW j \in Jobs, SendAlert(j)
      PROVE  LogTypes'
  <2>1. PICK rank \in waiting[j], ok \in BOOLEAN :
            /\ Try(j, <<j, rank>>, ok)
            /\ flags' = IF ok THEN [flags EXCEPT ![j] = @ \cup {<<j, rank>>}] ELSE flags
            /\ waiting' = [waiting EXCEPT ![j] = @ \ {rank}]
    BY <1>5 DEF SendAlert
  <2>2. <<j, rank>> \in Messages
    BY AlertAssumption DEF Messages, Ranks
  <2>3. [message |-> <<j, rank>>, ok |-> ok] \in Row
    BY <2>2 DEF Row
  <2>4. rows' \in [Jobs -> SUBSET Row] /\ received' \in SUBSET Messages
    BY <2>1, <2>2, <2>3 DEF Try
  <2>5. flags' \in [Jobs -> SUBSET Messages]
    BY <2>1, <2>2
  <2>6. waiting' \in [Jobs -> SUBSET Ranks]
    BY <2>1
  <2>7. raced' \in SUBSET Kinds
    BY <1>5, AlertAssumption DEF SendAlert
  <2> QED BY <1>5, <2>4, <2>5, <2>6, <2>7 DEF SendAlert, database
<1>6. ASSUME NEW j \in Jobs, CapReached(j)
      PROVE  LogTypes'
  BY <1>6 DEF CapReached, session, database
<1>7. ASSUME NEW j \in Jobs, FinishRun(j)
      PROVE  LogTypes'
  BY <1>7 DEF FinishRun, database
<1>8. ASSUME NEW j \in Jobs, PipelineFails(j)
      PROVE  LogTypes'
  <2>1. <<j, 0>> \in Messages
    BY AlertAssumption DEF Messages
  <2>2. \A ok \in BOOLEAN : [message |-> <<j, 0>>, ok |-> ok] \in Row
    BY <2>1 DEF Row
  <2>3. rows' \in [Jobs -> SUBSET Row] /\ received' \in SUBSET Messages
    BY <1>8, <2>1, <2>2 DEF PipelineFails, SendOpsAlert, Try
  <2> QED BY <1>8, <2>3 DEF PipelineFails, database
<1>9. ASSUME NEW j \in Jobs, Commit(j)
      PROVE  LogTypes'
  BY <1>9 DEF Commit, Close
<1>10. ASSUME NEW j \in Jobs, Rollback(j)
       PROVE  LogTypes'
  BY <1>10 DEF Rollback, Close, database
<1> QED BY <1>1, <1>2, <1>3, <1>4, <1>5, <1>6, <1>7, <1>8, <1>9, <1>10 DEF Next

(* Closing a session empties it. *)
LEMMA CloseAgrees ==
    ASSUME LogTypes, SessionsAgree, NEW j \in Jobs, Close(j)
    PROVE  SessionsAgree'
BY DEF LogTypes, SessionsAgree, Close, Sent

LEMMA LogKept ==
    ASSUME LogTypes, LogInv, [Next]_vars
    PROVE  LogInv'
<1> USE DEF LogTypes, LogInv, SessionsAgree, FlagsAgreeWithLog
<1>1. CASE UNCHANGED vars
  BY <1>1 DEF vars
<1>2. CASE NewDay
  BY <1>2 DEF NewDay, session, Sent
<1>3. ASSUME NEW j \in Jobs, StartRun(j)
      PROVE  LogInv'
  BY <1>3 DEF StartRun, session, database
<1>4. ASSUME NEW j \in Jobs, Route(j)
      PROVE  LogInv'
  BY <1>4 DEF Route, session, database
<1>5. ASSUME NEW j \in Jobs, SendAlert(j)
      PROVE  LogInv'
  <2>1. PICK rank \in waiting[j], ok \in BOOLEAN :
            /\ Try(j, <<j, rank>>, ok)
            /\ flags' = IF ok THEN [flags EXCEPT ![j] = @ \cup {<<j, rank>>}] ELSE flags
    BY <1>5 DEF SendAlert
  <2>2. phase' = phase /\ alerts' = alerts /\ flagged' = flagged /\ phase[j] = "routing"
    BY <1>5 DEF SendAlert, database
  <2>3. /\ received' = received \cup Delivered(<<j, rank>>, ok)
        /\ Sent(rows'[j]) = Sent(rows[j]) \cup Delivered(<<j, rank>>, ok)
        /\ \A i \in Jobs \ {j} : rows'[i] = rows[i]
    BY <2>1, TryRecords
  <2>4. /\ flags'[j] = flags[j] \cup Delivered(<<j, rank>>, ok)
        /\ \A i \in Jobs \ {j} : flags'[i] = flags[i]
    BY <2>1 DEF Delivered
  <2> QED BY <2>2, <2>3, <2>4
<1>6. ASSUME NEW j \in Jobs, CapReached(j)
      PROVE  LogInv'
  BY <1>6 DEF CapReached, session, database
<1>7. ASSUME NEW j \in Jobs, FinishRun(j)
      PROVE  LogInv'
  BY <1>7 DEF FinishRun, database
<1>8. ASSUME NEW j \in Jobs, PipelineFails(j)
      PROVE  LogInv'
  <2>1. CASE UNCHANGED <<received, rows>>
    BY <1>8, <2>1 DEF PipelineFails, database
  <2>2. ASSUME NEW ok \in BOOLEAN, Try(j, <<j, 0>>, ok)
        PROVE  LogInv'
    <3>1. /\ received' = received \cup Delivered(<<j, 0>>, ok)
          /\ Sent(rows'[j]) = Sent(rows[j]) \cup Delivered(<<j, 0>>, ok)
          /\ \A i \in Jobs \ {j} : rows'[i] = rows[i]
      BY <2>2, TryRecords
    <3>2. phase' = [phase EXCEPT ![j] = "failed"] /\ UNCHANGED <<flags, alerts, flagged>>
      BY <1>8 DEF PipelineFails, database
    <3> QED BY <3>1, <3>2
  <2> QED BY <1>8, <2>1, <2>2 DEF PipelineFails, SendOpsAlert
<1>9. ASSUME NEW j \in Jobs, Commit(j)
      PROVE  LogInv'
  <2>1. SessionsAgree'
    BY <1>9, CloseAgrees DEF Commit
  <2>2. flags[j] = Sent(rows[j]) /\ Sent(rows[j]) \subseteq received
    BY <1>9 DEF Commit
  <2>3. Sent(alerts') = Sent(alerts) \cup Sent(rows[j]) /\ flagged' = flagged \cup flags[j]
    BY <1>9, SentOfUnion DEF Commit
  <2>4. received' = received
    BY <1>9 DEF Commit, Close
  <2> QED BY <2>1, <2>2, <2>3, <2>4
<1>10. ASSUME NEW j \in Jobs, Rollback(j)
       PROVE  LogInv'
  <2>1. SessionsAgree'
    BY <1>10, CloseAgrees DEF Rollback
  <2> QED BY <1>10, <2>1 DEF Rollback, Close, database
<1> QED BY <1>1, <1>2, <1>3, <1>4, <1>5, <1>6, <1>7, <1>8, <1>9, <1>10 DEF Next

-----------------------------------------------------------------------------
(* The caps depend on what a run sees and has sent only. *)
LEMMA CapsUndisturbed ==
    ASSUME CapInv, received' = received, raced \subseteq raced',
           \A j \in Jobs : phase'[j] \in {"due", "scanning"} => phase[j] \in {"due", "scanning"},
           \A j \in Jobs : phase'[j] = "routing" =>
               \/ phase[j] = "scanning"
               \/ phase[j] = "routing" /\ rows'[j] = rows[j]
    PROVE  CapInv'
<1>1. \A j \in Jobs : OwnMessages(j)' = OwnMessages(j)
  BY DEF OwnMessages
<1>2. \A k \in Kinds : OfKind(received', k) = OfKind(received, k)
  OBVIOUS
<1>3. OwnSeen'
  BY <1>1 DEF CapInv, OwnSeen
<1>4. CapPerRun'
  BY <1>1 DEF CapInv, CapPerRun
<1>5. OneCapUnlessRaced'
  BY <1>2 DEF CapInv, OneCapUnlessRaced
<1> QED BY <1>3, <1>4, <1>5 DEF CapInv

(* One turn of the router: what a run sees below the cap bounds what the   *)
(* run, and, unless messages are hidden from it, the book has sent.        *)
LEMMA SendKeepsCaps ==
    ASSUME LogTypes, LogInv, CapInv, NEW j \in Jobs, SendAlert(j)
    PROVE  CapInv'
<1> DEFINE seen == Sent(alerts \cup rows[j])
           kind == KindOf[j]
<1>1. PICK rank \in waiting[j], ok \in BOOLEAN : Try(j, <<j, rank>>, ok)
  BY DEF SendAlert
<1> DEFINE m == <<j, rank>>
<1>2. m \in Messages /\ m[1] = j /\ m[2] > 0 /\ kind \in Kinds /\ Cap[kind] \in Nat
  BY AlertAssumption DEF LogTypes, Messages, Ranks
<1>3. /\ received' = received \cup Delivered(m, ok) /\ Delivered(m, ok) \subseteq {m}
      /\ Sent(rows'[j]) = Sent(rows[j]) \cup Delivered(m, ok)
      /\ \A i \in Jobs \ {j} : rows'[i] = rows[i]
      /\ phase' = phase /\ phase[j] = "routing"
  BY <1>1, TryRecords DEF SendAlert
<1>4. received \in SUBSET Messages /\ received' \subseteq received \cup {m}
  BY <1>3 DEF LogTypes
<1>5. Cardinality(OfKind(seen, kind)) + 1 <= Cap[kind]
  BY DEF SendAlert, BelowCap, SentToday
<1>6. OfKind(seen, kind) \in SUBSET Messages /\ Cardinality(OfKind(seen, kind)) \in Nat
  <2>1. seen \in SUBSET Messages
    BY SentAreMessages DEF LogTypes
  <2>2. OfKind(seen, kind) \in SUBSET Messages
    BY <2>1 DEF OfKind
  <2> QED BY <2>2, MessagesFinite
<1>7. OwnSeen'
  <2>1. OwnMessages(j)' \subseteq Sent(rows'[j])
    BY <1>3 DEF OwnMessages, CapInv, OwnSeen
  <2>2. ASSUME NEW i \in Jobs \ {j}
        PROVE  OwnMessages(i)' = OwnMessages(i) /\ rows'[i] = rows[i]
    BY <1>2, <1>3 DEF OwnMessages
  <2> QED BY <1>3, <2>1, <2>2 DEF OwnSeen, CapInv
<1>8. CapPerRun'
  <2>1. ASSUME NEW i \in Jobs \ {j}
        PROVE  OwnMessages(i)' = OwnMessages(i)
    BY <1>2, <1>3 DEF OwnMessages
  <2>2. OwnMessages(j) \subseteq OfKind(seen, kind)
    <3>1. OwnMessages(j) \subseteq Sent(rows[j])
      BY <1>3 DEF CapInv, OwnSeen
    <3>2. Sent(rows[j]) \subseteq seen
      BY SentOfUnion
    <3> QED BY <3>1, <3>2 DEF OwnMessages, OfKind
  <2>3. OwnMessages(j)' \in SUBSET (OfKind(seen, kind) \cup {m})
    BY <1>3, <2>2 DEF OwnMessages
  <2>4. Cardinality(OwnMessages(j)') <= Cardinality(OfKind(seen, kind)) + 1
    BY <1>2, <1>6, <2>3, OneMoreMessage
  <2>5. Cardinality(OwnMessages(j)') \in Nat
    <3>1. OwnMessages(j)' \in SUBSET Messages
      BY <1>2, <1>6, <2>3
    <3> QED BY <3>1, MessagesFinite
  <2>6. Cardinality(OwnMessages(j)') <= Cap[kind]
    BY <1>2, <1>5, <1>6, <2>4, <2>5
  <2> QED BY <2>1, <2>6 DEF CapPerRun, CapInv
<1>9. OneCapUnlessRaced'
  <2> SUFFICES ASSUME NEW k \in Kinds, k \notin raced'
               PROVE  Cardinality(OfKind(received', k)) <= Cap[k]
    BY DEF OneCapUnlessRaced
  <2>1. k \notin raced
    BY DEF SendAlert
  <2>2. CASE k # kind
    <3>1. OfKind(received', k) = OfKind(received, k)
      BY <1>2, <1>3, <2>2 DEF OfKind
    <3> QED BY <2>1, <3>1 DEF CapInv, OneCapUnlessRaced
  <2>3. CASE k = kind
    <3>1. OfKind(received, kind) \subseteq seen
      BY <2>1, <2>3 DEF SendAlert
    <3>2. OfKind(received', kind) \in SUBSET (OfKind(seen, kind) \cup {m})
      BY <1>4, <3>1 DEF OfKind
    <3>3. Cardinality(OfKind(received', kind)) <= Cardinality(OfKind(seen, kind)) + 1
      BY <1>2, <1>6, <3>2, OneMoreMessage
    <3>4. Cardinality(OfKind(received', kind)) \in Nat
      <4>1. OfKind(received', kind) \in SUBSET Messages
        BY <1>2, <1>6, <3>2
      <4> QED BY <4>1, MessagesFinite
    <3> QED BY <1>2, <1>5, <1>6, <2>3, <3>3, <3>4
  <2> QED BY <2>2, <2>3
<1> QED BY <1>7, <1>8, <1>9 DEF CapInv

(* An ops alert is no message of a book. *)
LEMMA OpsAlertKeepsCaps ==
    ASSUME LogTypes, CapInv, NEW j \in Jobs, PipelineFails(j)
    PROVE  CapInv'
<1>1. received' \subseteq received \cup {<<j, 0>>} /\ received \subseteq received'
  BY DEF PipelineFails, SendOpsAlert, Try
<1>2. phase' = [phase EXCEPT ![j] = "failed"] /\ raced' = raced
  BY DEF PipelineFails
<1>3. \A i \in Jobs \ {j} : rows'[i] = rows[i]
  BY DEF PipelineFails, SendOpsAlert, Try, LogTypes
<1>4. \A i \in Jobs : OwnMessages(i)' = OwnMessages(i)
  BY <1>1 DEF OwnMessages
<1>5. \A k \in Kinds : OfKind(received', k) = OfKind(received, k)
  BY <1>1 DEF OfKind
<1>6. OwnSeen'
  BY <1>2, <1>3, <1>4 DEF LogTypes, CapInv, OwnSeen
<1>7. CapPerRun'
  BY <1>4 DEF CapInv, CapPerRun
<1>8. OneCapUnlessRaced'
  BY <1>2, <1>5 DEF CapInv, OneCapUnlessRaced
<1> QED BY <1>6, <1>7, <1>8 DEF CapInv

LEMMA CapsKept ==
    ASSUME LogTypes, LogInv, CapInv, [Next]_vars
    PROVE  CapInv'
<1> USE DEF LogTypes
<1>1. CASE UNCHANGED vars
  BY <1>1, CapsUndisturbed DEF vars
<1>2. CASE NewDay
  <2>1. received' = {} /\ \A j \in Jobs : phase'[j] = "due"
    BY <1>2 DEF NewDay
  <2>2. \A j \in Jobs : OwnMessages(j)' = {}
    BY <2>1 DEF OwnMessages
  <2>3. \A k \in Kinds : OfKind(received', k) = {}
    BY <2>1 DEF OfKind
  <2>4. Cardinality({}) = 0 /\ \A k \in Kinds : Cap[k] >= 0
    BY FS_EmptySet, AlertAssumption
  <2>5. \A j \in Jobs : KindOf[j] \in Kinds
    BY AlertAssumption
  <2> QED BY <2>1, <2>2, <2>3, <2>4, <2>5 DEF CapInv, OwnSeen, CapPerRun, OneCapUnlessRaced
<1>3. ASSUME NEW j \in Jobs, StartRun(j)
      PROVE  CapInv'
  BY <1>3, CapsUndisturbed DEF StartRun, session
<1>4. ASSUME NEW j \in Jobs, Route(j)
      PROVE  CapInv'
  BY <1>4, CapsUndisturbed DEF Route, session
<1>5. ASSUME NEW j \in Jobs, SendAlert(j)
      PROVE  CapInv'
  BY <1>5, SendKeepsCaps
<1>6. ASSUME NEW j \in Jobs, CapReached(j)
      PROVE  CapInv'
  BY <1>6, CapsUndisturbed DEF CapReached, session
<1>7. ASSUME NEW j \in Jobs, FinishRun(j)
      PROVE  CapInv'
  BY <1>7, CapsUndisturbed DEF FinishRun
<1>8. ASSUME NEW j \in Jobs, PipelineFails(j)
      PROVE  CapInv'
  BY <1>8, OpsAlertKeepsCaps
<1>9. ASSUME NEW j \in Jobs, Commit(j) \/ Rollback(j)
      PROVE  CapInv'
  BY <1>9, CapsUndisturbed DEF Commit, Rollback, Close
<1> QED BY <1>1, <1>2, <1>3, <1>4, <1>5, <1>6, <1>7, <1>8, <1>9 DEF Next

-----------------------------------------------------------------------------
LEMMA InitInv ==
    ASSUME Init
    PROVE  DeliveryInv
<1>1. LogTypes
  BY DEF Init, LogTypes, Phases
<1>2. LogInv
  BY DEF Init, LogInv, SessionsAgree, FlagsAgreeWithLog, Sent
<1>3. received = {} /\ Cardinality({}) = 0
  BY FS_EmptySet DEF Init
<1>4. \A j \in Jobs : OwnMessages(j) = {} /\ phase[j] = "due" /\ KindOf[j] \in Kinds
  BY <1>3, AlertAssumption DEF Init, OwnMessages
<1>5. \A k \in Kinds : OfKind(received, k) = {} /\ Cap[k] >= 0
  BY <1>3, AlertAssumption DEF OfKind
<1>6. CapInv
  BY <1>3, <1>4, <1>5 DEF CapInv, OwnSeen, CapPerRun, OneCapUnlessRaced
<1> QED BY <1>1, <1>2, <1>6 DEF DeliveryInv

LEMMA DeliveryInvariant == Spec => []DeliveryInv
<1>1. Init => DeliveryInv
  BY InitInv
<1>2. DeliveryInv /\ [Next]_vars => DeliveryInv'
  BY TypesKept, LogKept, CapsKept DEF DeliveryInv
<1> QED BY <1>1, <1>2, PTL DEF Spec

(* In every state the flags on the stored signals are the successful rows  *)
(* of the stored log, and the owner has those messages, however scans      *)
(* overlap, fail and roll back.                                            *)
THEOREM FlagsAndLogAgree == Spec => []FlagsAgreeWithLog
<1>1. DeliveryInv => FlagsAgreeWithLog
  BY DEF DeliveryInv, LogInv
<1> QED BY <1>1, DeliveryInvariant, PTL

(* A number each, and the numbers bound the union: the sets of messages of *)
(* the runs of a kind, each no larger than c.                              *)
LEMMA RunsShare ==
    ASSUME NEW M \in SUBSET Messages, NEW k \in Kinds, NEW c \in Nat,
           \A j \in Jobs : KindOf[j] = k =>
               Cardinality({m \in M : m[1] = j /\ m[2] > 0}) <= c
    PROVE  Cardinality(OfKind(M, k)) <= c * Cardinality({j \in Jobs : KindOf[j] = k})
<1> DEFINE runs == {j \in Jobs : KindOf[j] = k}
           own(j) == {m \in M : m[1] = j /\ m[2] > 0}
           count(j) == Bijection(own(j), 1 .. Cardinality(own(j)))
           number == [j \in runs |-> CHOOSE f \in count(j) : TRUE]
           place == [m \in OfKind(M, k) |-> <<m[1], number[m[1]][m]>>]
<1>1. ASSUME NEW j \in runs
      PROVE  /\ number[j] \in [own(j) -> 1 .. c]
             /\ \A m, n \in own(j) : number[j][m] = number[j][n] => m = n
  <2>1. own(j) \in SUBSET Messages
    OBVIOUS
  <2>2. IsFiniteSet(own(j)) /\ Cardinality(own(j)) \in Nat
    BY <2>1, MessagesFinite
  <2>3. ExistsBijection(1 .. Cardinality(own(j)), own(j))
    BY <2>2, FS_CardinalityType
  <2>4. ExistsBijection(own(j), 1 .. Cardinality(own(j)))
    BY <2>3, Fun_ExistsBijSymmetric
  <2>5. number[j] \in count(j)
    BY <2>4 DEF ExistsBijection
  <2>6. Cardinality(own(j)) <= c
    OBVIOUS
  <2>7. 1 .. Cardinality(own(j)) \subseteq 1 .. c
    BY <2>2, <2>6
  <2> QED BY <2>5, <2>7 DEF Bijection, Injection, IsInjective
<1>2. \A m \in OfKind(M, k) : m[1] \in runs /\ m \in own(m[1])
  BY DEF OfKind, Messages
<1> HIDE DEF runs, own, number
<1>3. ASSUME NEW m \in OfKind(M, k)
      PROVE  m[1] \in runs /\ number[m[1]][m] \in 1 .. c
  BY <1>1, <1>2
<1>4. ASSUME NEW m \in OfKind(M, k), NEW n \in OfKind(M, k), m[1] = n[1],
             number[m[1]][m] = number[n[1]][n]
      PROVE  m = n
  <2>1. m[1] \in runs /\ m \in own(m[1]) /\ n \in own(m[1])
    BY <1>2, <1>4
  <2> QED BY <1>1, <1>4, <2>1
<1>5. place \in Injection(OfKind(M, k), runs \X (1 .. c))
  <2>1. place \in [OfKind(M, k) -> runs \X (1 .. c)]
    BY <1>3
  <2>2. ASSUME NEW m \in OfKind(M, k), NEW n \in OfKind(M, k), place[m] = place[n]
        PROVE  m = n
    <3>1. m[1] = n[1] /\ number[m[1]][m] = number[n[1]][n]
      BY <2>2
    <3> QED BY <1>4, <3>1
  <2> QED BY <2>1, <2>2 DEF Injection, IsInjective
<1> USE DEF runs
<1>6. IsFiniteSet(runs) /\ Cardinality(runs) \in Nat
  BY FS_Subset, FS_CardinalityType, AlertAssumption
<1>7. IsFiniteSet(1 .. c) /\ Cardinality(1 .. c) = c
  BY FS_Interval
<1>8. /\ IsFiniteSet(runs \X (1 .. c))
      /\ Cardinality(runs \X (1 .. c)) = Cardinality(runs) * c
  BY <1>6, <1>7, FS_Product
<1>9. Cardinality(OfKind(M, k)) <= Cardinality(runs) * c
  BY <1>5, <1>8, FS_Injection
<1>10. Cardinality(runs) * c = c * Cardinality(runs)
  BY <1>6
<1> QED BY <1>9, <1>10

(* A day brings at most a cap of messages of a kind as long as every run   *)
(* saw them all, and never more than a cap per run.                        *)
THEOREM CapHolds == Spec => []CapKept
<1>1. ASSUME DeliveryInv, NEW k \in Kinds
      PROVE  Cardinality(OfKind(received, k))
                 <= Cap[k] * (IF k \in raced THEN Cardinality({j \in Jobs : KindOf[j] = k}) ELSE 1)
  <2>1. Cap[k] \in Nat /\ received \in SUBSET Messages
    BY <1>1, AlertAssumption DEF DeliveryInv, LogTypes
  <2>2. CASE k \notin raced
    BY <1>1, <2>1, <2>2 DEF DeliveryInv, CapInv, OneCapUnlessRaced
  <2>3. CASE k \in raced
    <3>1. \A j \in Jobs : KindOf[j] = k =>
              Cardinality({m \in received : m[1] = j /\ m[2] > 0}) <= Cap[k]
      BY <1>1 DEF DeliveryInv, CapInv, CapPerRun, OwnMessages
    <3> QED BY <2>1, <2>3, <3>1, RunsShare
  <2> QED BY <2>2, <2>3
<1>2. DeliveryInv => CapKept
  BY <1>1 DEF CapKept
<1> QED BY <1>2, DeliveryInvariant, PTL

(* A run that drops a signal for the cap does so on a day the owner has a  *)
(* cap of messages of its book, since what it sees has reached the owner.  *)
THEOREM NobodyStarves == Spec => NeverStarved
<1>1. ASSUME DeliveryInv, NEW j \in Jobs, CapReached(j)
      PROVE  Cardinality(OfKind(received, KindOf[j])) >= Cap[KindOf[j]]
  <2> DEFINE seen == Sent(alerts \cup rows[j])
             k == KindOf[j]
  <2>1. Cap[k] \in Nat /\ received \in SUBSET Messages
    BY <1>1, AlertAssumption DEF DeliveryInv, LogTypes
  <2>2. seen \subseteq received
    BY <1>1, SentOfUnion DEF DeliveryInv, LogInv, SessionsAgree, FlagsAgreeWithLog
  <2>3. OfKind(seen, k) \in SUBSET OfKind(received, k) /\ OfKind(received, k) \in SUBSET Messages
    BY <2>1, <2>2 DEF OfKind
  <2>4. /\ Cardinality(OfKind(seen, k)) \in Nat /\ Cardinality(OfKind(received, k)) \in Nat
        /\ Cardinality(OfKind(seen, k)) <= Cardinality(OfKind(received, k))
    BY <2>3, MessagesFinite
  <2>5. ~(Cardinality(OfKind(seen, k)) + 1 <= Cap[k])
    BY <1>1 DEF CapReached, BelowCap, SentToday
  <2> QED BY <2>1, <2>4, <2>5
<1>2. DeliveryInv /\ [Next]_vars =>
          [\A j \in Jobs :
              CapReached(j) => Cardinality(OfKind(received, KindOf[j])) >= Cap[KindOf[j]]]_vars
  BY <1>1
<1> QED BY <1>2, DeliveryInvariant, PTL DEF Spec, NeverStarved

-----------------------------------------------------------------------------
\* The market day.

ScopeKinds == {"universe", "deep", "seeds", "scan", "asked", "discovered", "none"}

Keys  == Tables \X Symbols
Lists == [at : Int, names : SUBSET Symbols, by : Sessions \cup {Nobody}]
Work  == [tx : Nat, stage : {"open", "call"}, left : SUBSET Nat, scope : SUBSET Symbols,
          rows : SUBSET Keys, partial : SUBSET Keys, marks : SUBSET Keys, found : Lists,
          missed : SUBSET Keys]

\* A session is in one of its transactions; it marks nothing but what it has
\* fetched, an empty earnings calendar aside; and finds a list for itself only.
Fits(p, j) ==
    /\ j \in Work
    /\ j.tx <= Len(Plan[p])
    /\ j.stage = "open" => j.left = {}
    /\ j.stage = "call" => j.tx > 0
    /\ j.found.by \in {p, Nobody}
    /\ \A key \in j.marks : key[1] # "earnings" => key \in j.rows
    /\ \A key \in j.partial : key[1] = "fundamentals"

JobsFit == job \in [Sessions -> Work] /\ \A p \in Sessions : Fits(p, job[p])

StoreTypes ==
    /\ clock \in Nat
    /\ row \in [Tables -> [Symbols -> Int]]
    /\ marker \in [Tables -> [Symbols -> Int]]
    /\ listed \in Lists

RowsPast ==
    \A t \in Tables, s \in Symbols : row[t][s] <= clock /\ marker[t][s] <= clock + Ttl[t]

VouchInv == StoreTypes /\ JobsFit /\ RowsPast /\ MarkersVouch

-----------------------------------------------------------------------------
(* A set of natural numbers has a least one (FiniteSetsExt.Min). *)
LEMMA LeastNumber ==
    ASSUME NEW S \in SUBSET Nat, S # {}
    PROVE  Min(S) \in S /\ \A n \in S : Min(S) <= n
<1> DEFINE less == OpToRel(<, Nat)
<1>1. PICK m \in S : \A n \in S : ~(<<n, m>> \in less)
  <2> HIDE DEF less
  <2> QED BY NatLessThanWellFounded, WFMin DEF less
<1>2. ASSUME NEW n \in S, n < m PROVE FALSE
  <2>1. <<n, m>> \in less
    BY <1>2 DEF OpToRel
  <2> QED BY <1>1, <2>1
<1>3. \A n \in S : m <= n
  BY <1>2
<1> QED BY <1>3 DEF Min

(* The clock stops within a day (scheduler/run.py:33-155). *)
LEMMA ClockGoesOn ==
    ASSUME clock \in Nat, Tick
    PROVE  clock' \in Nat /\ clock <= clock'
<1> DEFINE stops == {c \in clock + 1 .. clock + 24 : c % 24 \in Marks}
<1>1. PICK m \in Marks : m \in 0 .. 23
  BY MarketAssumption
<1> DEFINE d == (m - clock - 1) % 24
<1>2. d \in 0 .. 23 /\ (clock + 1 + d) % 24 = m
  BY <1>1
<1>3. clock + 1 + d \in stops
  BY <1>1, <1>2
<1>4. stops \in SUBSET Nat /\ stops # {}
  BY <1>3
<1>5. clock' = Min(stops)
  BY DEF Tick
<1> HIDE DEF stops
<1>6. clock' \in stops
  BY <1>4, <1>5, LeastNumber
<1> QED BY <1>6 DEF stops

(* Every plan is a sequence of transactions, and each of those of calls. *)
LEMMA PlanShape ==
    ASSUME NEW p \in Sessions
    PROVE  /\ Len(Plan[p]) \in Nat \ {0}
           /\ \A i \in 1 .. Len(Plan[p]) :
                 Plan[p][i].scope \in ScopeKinds /\ DOMAIN Plan[p][i].steps \subseteq Nat
<1>1. p \in {"premarket", "boot", "trend", "close", "post_close", "ingest", "research", "discover"}
  BY MarketAssumption DEF Plan
<1> DEFINE Shaped(body) == /\ Len(body) \in Nat \ {0}
                           /\ \A i \in 1 .. Len(body) :
                                 body[i].scope \in ScopeKinds /\ DOMAIN body[i].steps \subseteq Nat
<1>2. Shaped(PremarketBody)
  BY DEF PremarketBody, Tx, ScopeKinds
<1>3. Shaped(TrendCollectBody)
  BY DEF TrendCollectBody, Tx, ScopeKinds
<1>4. Shaped(CloseRefresh) /\ Shaped(PostClose) /\ Shaped(RunDiscovery)
  BY DEF CloseRefresh, PostClose, RunDiscovery, Tx, ScopeKinds
<1>5. Shaped(TriggerIngest)
  BY DEF TriggerIngest, Tx, ScopeKinds
<1>6. Shaped(EnsureSymbolData)
  BY DEF EnsureSymbolData, Tx, ScopeKinds
<1>7. Plan[p] \in {PremarketBody, TrendCollectBody, CloseRefresh, PostClose, TriggerIngest,
                   EnsureSymbolData, RunDiscovery}
  BY <1>1 DEF Plan
<1> QED BY <1>2, <1>3, <1>4, <1>5, <1>6, <1>7

(* What a scope or a call reaches for is a symbol. *)
LEMMA ScanSymbolsKnown ==
    ASSUME NEW list \in Lists
    PROVE  ScanSymbols(list) \subseteq Symbols
BY DEF ScanSymbols, Candidates, Lists, Symbols

LEMMA ScopesKnown ==
    ASSUME listed \in Lists, NEW kind \in ScopeKinds, NEW scope \in Scopes(kind)
    PROVE  scope \subseteq Symbols
<1>1. ScanSymbols(listed) \subseteq Symbols
  BY ScanSymbolsKnown
<1>2. Universe \subseteq Symbols /\ Seeds \subseteq Symbols /\ Spy \in Symbols
  BY DEF Universe, Symbols
<1>3. CASE kind = "deep"
  BY <1>1, <1>2, <1>3 DEF Scopes, DeepScopes
<1>4. CASE kind # "deep"
  BY <1>1, <1>2, <1>4 DEF Scopes, ScopeKinds
<1> QED BY <1>3, <1>4

LEMMA WantedKnown ==
    ASSUME listed \in Lists, JobsFit, NEW p \in Sessions, NEW t \in Tables
    PROVE  Wanted(p, t) \subseteq {t} \X Symbols
<1>1. ScanSymbols(listed) \subseteq Symbols /\ job[p].scope \subseteq Symbols
  BY ScanSymbolsKnown DEF JobsFit, Work
<1>2. Universe \subseteq Symbols /\ Spy \in Symbols
  BY DEF Universe, Symbols
<1>3. Targets(p, t) \subseteq Symbols
  BY <1>1, <1>2 DEF Targets
<1> QED BY <1>3 DEF Wanted

(* What a session is in after its transaction, one way or the other. *)
LEMMA OpeningFits ==
    ASSUME NEW p \in Sessions, NEW i \in Nat, i <= Len(Plan[p])
    PROVE  /\ Fits(p, Opening(i))
           /\ \A found \in Lists : found.by \in {p, Nobody} =>
                  Fits(p, [Opening(i) EXCEPT !.found = found])
<1>1. NoList \in Lists /\ NoList.by = Nobody
  BY DEF NoList, Lists, Never
<1> QED BY <1>1 DEF Fits, Opening, Work

LEMMA NextFits ==
    ASSUME JobsFit, NEW p \in Sessions
    PROVE  Fits(p, Idle) /\ Fits(p, Following(p)) /\ Fits(p, Failed(p))
<1>1. /\ job[p].found \in Lists /\ job[p].found.by \in {p, Nobody}
      /\ job[p].tx \in Nat /\ Len(Plan[p]) \in Nat \ {0}
  BY PlanShape DEF JobsFit, Fits, Work
<1>2. Fits(p, Idle)
  BY <1>1, OpeningFits DEF Idle
<1>3. Fits(p, Following(p))
  <2>1. CASE job[p].tx < Len(Plan[p])
    BY <1>1, <2>1, OpeningFits DEF Following
  <2>2. CASE ~(job[p].tx < Len(Plan[p]))
    BY <1>2, <2>2 DEF Following
  <2> QED BY <2>1, <2>2
<1> QED BY <1>2, <1>3 DEF Failed

(* One session goes on, the others stay where they are. *)
LEMMA OneGoesOn ==
    ASSUME JobsFit, NEW p \in Sessions, NEW next, Fits(p, next),
           Settle([job EXCEPT ![p] = next])
    PROVE  JobsFit'
<1>1. job' = [job EXCEPT ![p] = next] /\ next \in Work
  BY DEF Settle, Fits
<1> QED BY <1>1 DEF JobsFit

-----------------------------------------------------------------------------
(* The jobs stay in order, action by action. *)
LEMMA JobsStayFit ==
    ASSUME StoreTypes, JobsFit, [DayNext]_dayVars
    PROVE  JobsFit'
<1> USE DEF StoreTypes
<1>1. ASSUME NEW p \in Sessions, Start(p) PROVE JobsFit'
  <2>1. job' = [job EXCEPT ![p] = Opening(1)] \/ job' = job
    BY <1>1 DEF Start
  <2>2. 1 <= Len(Plan[p])
    BY PlanShape
  <2>3. Fits(p, Opening(1)) /\ Opening(1) \in Work
    BY <2>2, OpeningFits DEF Fits
  <2> QED BY <2>1, <2>3 DEF JobsFit
<1>2. ASSUME NEW p \in Sessions, Open(p) PROVE JobsFit'
  <2>1. job[p] \in Work /\ job[p].tx \in 1 .. Len(Plan[p]) /\ Fits(p, job[p])
    BY <1>2, PlanShape DEF Open, Running, JobsFit, Fits, Work
  <2>2. PICK scope \in Scopes(Plan[p][job[p].tx].scope) :
            Settle([job EXCEPT ![p].stage = "call", ![p].left = Followed(Steps(p)),
                               ![p].scope = scope])
    BY <1>2 DEF Open
  <2>3. scope \subseteq Symbols /\ Followed(Steps(p)) \subseteq Nat
    BY <2>1, PlanShape, ScopesKnown DEF Followed, Steps
  <2> DEFINE next == [job[p] EXCEPT !.stage = "call", !.left = Followed(Steps(p)),
                                    !.scope = scope]
  <2>4. /\ next \in Work /\ next.tx = job[p].tx /\ next.stage = "call"
        /\ next.found = job[p].found /\ next.marks = job[p].marks /\ next.rows = job[p].rows
        /\ next.partial = job[p].partial
    BY <2>1, <2>3 DEF Work
  <2>5. Settle([job EXCEPT ![p] = next])
    BY <2>2
  <2> HIDE DEF next
  <2>6. Fits(p, next)
    BY <2>1, <2>4 DEF Fits
  <2> QED BY <2>5, <2>6, OneGoesOn
<1>3. ASSUME NEW p \in Sessions, Discover(p) PROVE JobsFit'
  <2>1. job[p] \in Work /\ Fits(p, job[p]) /\ job[p].left # {}
    BY <1>3 DEF Discover, Calling, JobsFit, Fits
  <2>2. PICK names \in SUBSET ((Universe \cup Strangers) \ {Spy}) :
            LET found == [at |-> clock, names |-> names, by |-> p] IN
            Settle([job EXCEPT ![p].left = Rest(p), ![p].found = found,
                               ![p].scope = ScanSymbols(found)])
    BY <1>3 DEF Discover
  <2> DEFINE found == [at |-> clock, names |-> names, by |-> p]
             next == [job[p] EXCEPT !.left = Rest(p), !.found = found,
                                    !.scope = ScanSymbols(found)]
  <2>3. found \in Lists /\ found.by = p
    BY DEF Lists, Universe, Symbols
  <2>4. ScanSymbols(found) \subseteq Symbols
    BY <2>3, ScanSymbolsKnown
  <2>5. Rest(p) \subseteq Nat
    BY <2>1 DEF Rest, Work
  <2>6. Settle([job EXCEPT ![p] = next])
    BY <2>2
  <2> HIDE DEF found
  <2>7. Fits(p, next)
    BY <2>1, <2>3, <2>4, <2>5 DEF Fits, Work
  <2> HIDE DEF next
  <2> QED BY <2>6, <2>7, OneGoesOn
<1>4. ASSUME NEW p \in Sessions, Call(p) PROVE JobsFit'
  <2>a. PICK t \in Tables : \E r \in Replies(p, t) :
            LET got == Wanted(p, t) \ r.lost IN
            /\ Calling(p, t)
            /\ Settle([job EXCEPT ![p].left = Rest(p), ![p].missed = @ \cup r.lost,
                           ![p].rows = @ \cup (IF t = "earnings" THEN {} ELSE got),
                           ![p].partial = (@ \ got) \cup r.partial,
                           ![p].marks = @ \cup (IF Ingest[t].ttl THEN got ELSE {})])
    BY <1>4 DEF Call
  <2>0. PICK r \in Replies(p, t) :
            LET got == Wanted(p, t) \ r.lost IN
            /\ Calling(p, t)
            /\ Settle([job EXCEPT ![p].left = Rest(p), ![p].missed = @ \cup r.lost,
                           ![p].rows = @ \cup (IF t = "earnings" THEN {} ELSE got),
                           ![p].partial = (@ \ got) \cup r.partial,
                           ![p].marks = @ \cup (IF Ingest[t].ttl THEN got ELSE {})])
    BY <2>a
  <2> DEFINE lost == r.lost
             got == Wanted(p, t) \ lost
             next == [job[p] EXCEPT !.left = Rest(p), !.missed = @ \cup lost,
                         !.rows = @ \cup (IF t = "earnings" THEN {} ELSE got),
                         !.partial = (@ \ got) \cup r.partial,
                         !.marks = @ \cup (IF Ingest[t].ttl THEN got ELSE {})]
  <2>1. lost \in SUBSET Wanted(p, t) /\ r.partial \in SUBSET Wanted(p, t) /\ Calling(p, t)
    BY <2>0 DEF Replies
  <2>2. Settle([job EXCEPT ![p] = next])
    BY <2>0
  <2>3. job[p] \in Work /\ Fits(p, job[p]) /\ job[p].left # {}
    BY <2>1 DEF Calling, JobsFit, Fits
  <2>4. /\ got \subseteq {t} \X Symbols /\ lost \subseteq {t} \X Symbols
        /\ r.partial \subseteq {t} \X Symbols
    BY <2>1, WantedKnown
  <2>5. got \subseteq Keys /\ lost \subseteq Keys /\ r.partial \subseteq Keys
        /\ \A key \in got : key[1] = t
    BY <2>4 DEF Keys
  <2>6. Rest(p) \subseteq Nat
    BY <2>3 DEF Rest, Work
  <2>8. \A key \in r.partial : key[1] = "fundamentals"
    BY <2>0, <2>4 DEF Replies
  <2> HIDE DEF got, lost
  <2>7. Fits(p, next)
    BY <2>3, <2>5, <2>6, <2>8 DEF Fits, Work
  <2> HIDE DEF next
  <2> QED BY <2>2, <2>7, OneGoesOn
<1>5. ASSUME NEW p \in Sessions, Raise(p) \/ Deadlock(p) PROVE JobsFit'
  BY <1>5, NextFits, OneGoesOn DEF Raise, Deadlock
<1>6. ASSUME NEW p \in Sessions, CommitTx(p) PROVE JobsFit'
  <2>1. job' = [q \in Sessions |-> IF q = p THEN Following(p)
                                  ELSE IF Collides(p, q) THEN Failed(q) ELSE job[q]]
    BY <1>6 DEF CommitTx, Settle
  <2>2. \A q \in Sessions : Fits(q, job'[q])
    BY <2>1, NextFits DEF JobsFit
  <2> QED BY <2>1, <2>2 DEF JobsFit, Fits
<1>7. ASSUME Restart PROVE JobsFit'
  <2>1. job' = [p \in Sessions |-> IF p \in Worker THEN Idle ELSE job[p]]
    BY <1>7 DEF Restart, Settle
  <2>2. \A q \in Sessions : Fits(q, job'[q])
    BY <2>1, NextFits DEF JobsFit
  <2> QED BY <2>1, <2>2 DEF JobsFit, Fits
<1>8. CASE Purge \/ Tick \/ UNCHANGED dayVars
  BY <1>8 DEF Purge, Tick, dayVars, JobsFit
<1> QED BY <1>1, <1>2, <1>3, <1>4, <1>5, <1>6, <1>7, <1>8 DEF DayNext, Step

(* So do the clock and the stored rows. *)
LEMMA StoreStaysTyped ==
    ASSUME StoreTypes, JobsFit, [DayNext]_dayVars
    PROVE  StoreTypes'
<1>1. ASSUME NEW p \in Sessions, Start(p) \/ Open(p) \/ Discover(p) \/ Call(p) \/ Raise(p)
                                  \/ Deadlock(p)
      PROVE  StoreTypes'
  BY <1>1 DEF StoreTypes, Start, Open, Discover, Call, Raise, Deadlock, store
<1>2. ASSUME NEW p \in Sessions, CommitTx(p) PROVE StoreTypes'
  <2>1. clock' = clock /\ (listed' = listed \/ listed' = job[p].found) /\ job[p].found \in Lists
    BY <1>2 DEF CommitTx, JobsFit, Work
  <2>2. row' = [t \in Tables |-> [s \in Symbols |->
                  IF <<t, s>> \in job[p].rows \ job[p].partial THEN clock ELSE row[t][s]]]
    BY <1>2 DEF CommitTx
  <2>3. marker' = [t \in Tables |-> [s \in Symbols |->
                  IF <<t, s>> \in job[p].marks THEN clock + Ttl[t] ELSE marker[t][s]]]
    BY <1>2 DEF CommitTx
  <2>4. \A t \in Tables, s \in Symbols :
           clock \in Int /\ clock + Ttl[t] \in Int /\ row[t][s] \in Int /\ marker[t][s] \in Int
    BY MarketAssumption DEF StoreTypes
  <2> QED BY <2>1, <2>2, <2>3, <2>4 DEF StoreTypes
<1>3. CASE Restart \/ UNCHANGED dayVars
  BY <1>3 DEF StoreTypes, Restart, store, dayVars
<1>4. CASE Purge
  <2>1. marker' = [t \in Tables |-> [s \in Symbols |->
                     IF Live(t, s) THEN marker[t][s] ELSE Never]]
    BY <1>4 DEF Purge
  <2>2. \A t \in Tables, s \in Symbols : marker[t][s] \in Int /\ Never \in Int
    BY DEF StoreTypes, Never
  <2> QED BY <1>4, <2>1, <2>2 DEF Purge, StoreTypes
<1>5. CASE Tick
  BY <1>5, ClockGoesOn DEF StoreTypes, Tick, store
<1> QED BY <1>1, <1>2, <1>3, <1>4, <1>5 DEF DayNext, Step

(* A commit stores a row with every marker, at the same time, or leaves a gap. *)
LEMMA VouchKept ==
    ASSUME VouchInv, [DayNext]_dayVars
    PROVE  RowsPast' /\ MarkersVouch'
<1> USE DEF VouchInv, StoreTypes
<1>1. ASSUME NEW p \in Sessions, Start(p) \/ Open(p) \/ Discover(p) \/ Call(p) \/ Raise(p)
                                  \/ Deadlock(p)
      PROVE  RowsPast' /\ MarkersVouch'
  BY <1>1 DEF Start, Open, Discover, Call, Raise, Deadlock, store, RowsPast, MarkersVouch
<1>2. ASSUME NEW p \in Sessions, CommitTx(p) PROVE RowsPast' /\ MarkersVouch'
  <2> DEFINE whole == job[p].rows \ job[p].partial
  <2>1. \A t \in Tables, s \in Symbols :
           /\ row'[t][s] = IF <<t, s>> \in whole THEN clock ELSE row[t][s]
           /\ marker'[t][s] = IF <<t, s>> \in job[p].marks THEN clock + Ttl[t] ELSE marker[t][s]
           /\ row[t][s] \in Int /\ row[t][s] <= clock /\ Ttl[t] \in Nat
           /\ marker[t][s] \in Int /\ marker[t][s] <= clock + Ttl[t]
    BY <1>2, MarketAssumption DEF CommitTx, RowsPast
  <2>2. clock' = clock /\ clock \in Nat /\ gaps' = (gaps \ job[p].rows) \cup job[p].partial
    BY <1>2 DEF CommitTx
  <2>3. \A t \in Tables \ {"earnings"}, s \in Symbols :
           <<t, s>> \in job[p].marks => <<t, s>> \in whole \cup job[p].partial
    BY DEF JobsFit, Fits
  <2>4. RowsPast'
    <3>1. SUFFICES ASSUME NEW t \in Tables, NEW s \in Symbols
                   PROVE  row'[t][s] <= clock' /\ marker'[t][s] <= clock' + Ttl[t]
      BY DEF RowsPast
    <3>2. clock <= clock /\ clock + Ttl[t] <= clock + Ttl[t]
      <4>1. Ttl[t] \in Nat
        BY MarketAssumption
      <4> QED BY <2>2, <4>1
    <3> HIDE DEF whole
    <3> QED BY <2>1, <2>2, <3>2
  <2>5. ASSUME NEW t \in Tables \ {"earnings"}, NEW s \in Symbols, marker'[t][s] # Never
        PROVE  row'[t][s] >= marker'[t][s] - Ttl[t] \/ <<t, s>> \in gaps'
    <3>1. CASE <<t, s>> \in job[p].partial
      BY <2>2, <3>1
    <3>2. CASE <<t, s>> \in whole
      <4>1. row'[t][s] = clock /\ marker'[t][s] <= clock + Ttl[t]
        BY <2>1, <2>4, <2>2, <3>2 DEF RowsPast
      <4>2. marker'[t][s] \in Int
        <5>1. marker'[t][s] \in {clock + Ttl[t], marker[t][s]} /\ marker[t][s] \in Int
          BY <2>1
        <5>2. Ttl[t] \in Nat
          BY MarketAssumption
        <5> QED BY <2>2, <5>1, <5>2
      <4> QED BY <2>1, <2>2, <4>1, <4>2
    <3>3. CASE <<t, s>> \notin whole \cup job[p].partial
      <4>1. marker'[t][s] = marker[t][s] /\ row'[t][s] = row[t][s]
        BY <2>1, <2>3, <3>3
      <4>2. row[t][s] >= marker[t][s] - Ttl[t] \/ <<t, s>> \in gaps
        BY <2>5, <4>1 DEF MarkersVouch
      <4> QED BY <2>2, <3>3, <4>1, <4>2
    <3> QED BY <3>1, <3>2, <3>3
  <2> HIDE DEF whole
  <2> QED BY <2>4, <2>5 DEF MarkersVouch
<1>3. CASE Restart \/ UNCHANGED dayVars
  BY <1>3 DEF Restart, store, dayVars, RowsPast, MarkersVouch
<1>4. CASE Purge
  <2>1. \A t \in Tables, s \in Symbols : marker'[t][s] \in {marker[t][s], Never}
    BY <1>4 DEF Purge
  <2>2. row' = row /\ clock' = clock /\ gaps' = gaps
    BY <1>4 DEF Purge
  <2>3. \A t \in Tables : Never <= clock + Ttl[t]
    BY MarketAssumption DEF Never
  <2> QED BY <2>1, <2>2, <2>3 DEF RowsPast, MarkersVouch
<1>5. CASE Tick
  <2>1. clock <= clock' /\ clock' \in Nat /\ row' = row /\ marker' = marker /\ gaps' = gaps
    BY <1>5, ClockGoesOn DEF Tick, store
  <2>2. \A t \in Tables : Ttl[t] \in Nat
    BY MarketAssumption
  <2> QED BY <2>1, <2>2 DEF RowsPast, MarkersVouch
<1> QED BY <1>1, <1>2, <1>3, <1>4, <1>5 DEF DayNext, Step

LEMMA VouchInit == DayInit => VouchInv
<1> SUFFICES ASSUME DayInit PROVE VouchInv
  OBVIOUS
<1>1. NoList \in Lists /\ Never \in Int /\ Never <= 9
  BY DEF NoList, Lists, Never
<1>2. StoreTypes /\ RowsPast /\ MarkersVouch
  BY <1>1, MarketAssumption DEF DayInit, StoreTypes, RowsPast, MarkersVouch
<1>3. \A p \in Sessions : Fits(p, Idle) /\ Idle \in Work
  BY PlanShape, OpeningFits DEF Idle, Fits
<1>4. job = [p \in Sessions |-> Idle]
  BY DEF DayInit
<1> QED BY <1>2, <1>3, <1>4 DEF VouchInv, JobsFit

LEMMA VouchNext == VouchInv /\ [DayNext]_dayVars => VouchInv'
BY JobsStayFit, StoreStaysTyped, VouchKept DEF VouchInv

LEMMA VouchInvariant == DaySpec => []VouchInv
BY VouchInit, VouchNext, PTL DEF DaySpec

(* A freshness marker of a per-symbol table vouches for a fetch in full    *)
(* that is no older (cache.py:106-124), but for a row whose last fetch     *)
(* left a part out (ingest.py:214-240): for any universe, jobs and         *)
(* requests in any overlap, whatever the provider leaves out, failures,    *)
(* deadlocks and restarts.                                                 *)
THEOREM FreshMeansStored == DaySpec => []MarkersVouch
<1>1. VouchInv => MarkersVouch
  BY DEF VouchInv
<1> QED BY <1>1, VouchInvariant, PTL

-----------------------------------------------------------------------------
\* The third transaction of a sweep, in its five calls: until the list is
\* found the top-up of bars (2) and quotes (4) is ahead; then every name of it
\* is in scope, and fetched or missed once its call is over.
ToppingUp(p, j) ==
    p \in Sweeps /\ j.tx = 3 /\ j.stage = "call" =>
        /\ j.left \subseteq 1 .. 5
        /\ 1 \in j.left => {2, 4} \subseteq j.left
        /\ 1 \notin j.left =>
              /\ j.found.at = clock
              /\ j.found.names \subseteq j.scope
              /\ \A i \in {2, 4} : i \in j.left \/
                    \A s \in j.found.names :
                        <<PremarketBody[3].steps[i], s>> \in j.rows \cup j.missed

TopUpInv == \A p \in Sessions : ToppingUp(p, job[p])

(* The plan of a sweep. *)
LEMMA SweepPlan ==
    ASSUME NEW p \in Sweeps
    PROVE  /\ Len(Plan[p]) = 4
           /\ \A i \in 1 .. 4 : Plan[p][i].scope = "discovered" <=> i = 3
           /\ Plan[p][3] = PremarketBody[3]
           /\ DOMAIN PremarketBody[3].steps = 1 .. 5
           /\ PremarketBody[3].steps[1] = "discover" /\ PremarketBody[3].steps[2] = "bars"
           /\ PremarketBody[3].steps[3] = "fundamentals"
           /\ PremarketBody[3].steps[4] = "quotes"
           /\ PremarketBody[3].steps[5] = "short_interest"
<1>1. Plan[p] = PremarketBody
  BY DEF Sweeps, Plan
<1>2. /\ Len(PremarketBody) = 4
      /\ \A i \in 1 .. 4 : PremarketBody[i].scope = "discovered" <=> i = 3
      /\ PremarketBody[3].steps = <<"discover", "bars", "fundamentals", "quotes", "short_interest">>
  BY DEF PremarketBody, Tx
<1> QED BY <1>1, <1>2

(* A sweep's call for bars or quotes asks about everything in its scope. *)
LEMMA SweepAsksForAll ==
    ASSUME JobsFit, NEW p \in Sweeps \cap Sessions, NEW t \in {"bars", "quotes"},
           NEW s \in job[p].scope
    PROVE  <<t, s>> \in Wanted(p, t)
<1>1. Skips(p, t) = {}
  BY DEF Skips, Sweeps, Ingest, Bars, Quotes
<1>2. s \in Targets(p, t)
  BY DEF Targets, Sweeps, Ingest, Bars, Quotes
<1> QED BY <1>1, <1>2 DEF Wanted

(* A session that opens a transaction, or has none, tops nothing up. *)
LEMMA OpeningTopsNothing ==
    ASSUME NEW p \in Sessions
    PROVE  /\ Idle.stage = "open" /\ Following(p).stage = "open" /\ Failed(p).stage = "open"
           /\ \A i : Opening(i).stage = "open"
BY DEF Failed, Following, Idle, Opening

LEMMA OneTopsUp ==
    ASSUME JobsFit, TopUpInv, clock' = clock, NEW p \in Sessions, NEW next,
           ToppingUp(p, next), job' = [job EXCEPT ![p] = next]
    PROVE  TopUpInv'
<1>1. \A q \in Sessions : job'[q] = IF q = p THEN next ELSE job[q]
  BY DEF JobsFit
<1> QED BY <1>1 DEF TopUpInv, ToppingUp

LEMMA TopUpKept ==
    ASSUME {"bars", "quotes"} \subseteq Tables, VouchInv, TopUpInv, [DayNext]_dayVars
    PROVE  TopUpInv'
<1>0. JobsFit /\ clock \in Nat /\ listed \in Lists
  BY DEF VouchInv, StoreTypes
<1>1. ASSUME NEW p \in Sessions, Start(p) PROVE TopUpInv'
  <2>1. clock' = clock /\ (job' = [job EXCEPT ![p] = Opening(1)] \/ job' = job)
    BY <1>1 DEF Start
  <2>2. ToppingUp(p, Opening(1))
    BY OpeningTopsNothing DEF ToppingUp
  <2>3. CASE job' = job
    BY <2>1, <2>3 DEF TopUpInv, ToppingUp
  <2> QED BY <1>0, <2>1, <2>2, <2>3, OneTopsUp
<1>2. ASSUME NEW p \in Sessions, Open(p) PROVE TopUpInv'
  <2>1. PICK scope \in Scopes(Plan[p][job[p].tx].scope) :
            /\ job' = [job EXCEPT ![p].stage = "call", ![p].left = Followed(Steps(p)),
                                  ![p].scope = scope]
            /\ clock' = clock
    BY <1>2 DEF Open, Settle
  <2> DEFINE next == [job[p] EXCEPT !.stage = "call", !.left = Followed(Steps(p)),
                                    !.scope = scope]
  <2>2. job' = [job EXCEPT ![p] = next]
    BY <2>1
  <2>3. next.left = Followed(Steps(p)) /\ next.tx = job[p].tx
    BY <1>0 DEF JobsFit, Work
  <2>4. ToppingUp(p, next)
    <3> HIDE DEF next
    <3> SUFFICES ASSUME p \in Sweeps, next.tx = 3
                 PROVE  next.left \subseteq 1 .. 5 /\ {1, 2, 4} \subseteq next.left
      BY DEF ToppingUp
    <3>1. Steps(p) = PremarketBody[3].steps
      BY <2>3, SweepPlan DEF Steps
    <3> QED BY <2>3, <3>1, SweepPlan DEF Followed
  <2> HIDE DEF next
  <2> QED BY <1>0, <2>1, <2>2, <2>4, OneTopsUp
<1>3. ASSUME NEW p \in Sessions, Discover(p) PROVE TopUpInv'
  <2>1. PICK names \in SUBSET ((Universe \cup Strangers) \ {Spy}) :
            /\ LET found == [at |-> clock, names |-> names, by |-> p] IN
               job' = [job EXCEPT ![p].left = Rest(p), ![p].found = found,
                                  ![p].scope = ScanSymbols(found)]
            /\ clock' = clock
    BY <1>3 DEF Discover, Settle
  <2> DEFINE found == [at |-> clock, names |-> names, by |-> p]
             next == [job[p] EXCEPT !.left = Rest(p), !.found = found,
                                    !.scope = ScanSymbols(found)]
  <2>2. job' = [job EXCEPT ![p] = next]
    BY <2>1
  <2>3. /\ next.left = Rest(p) /\ next.tx = job[p].tx /\ next.stage = job[p].stage
        /\ next.found = found /\ next.scope = ScanSymbols(found)
    BY <1>0 DEF JobsFit, Work
  <2>4. names \subseteq ScanSymbols(found)
    BY <1>0 DEF ScanSymbols, Candidates
  <2>5. ToppingUp(p, next)
    <3> HIDE DEF next
    <3> SUFFICES ASSUME p \in Sweeps, job[p].tx = 3, job[p].stage = "call"
                 PROVE  /\ Rest(p) \subseteq 1 .. 5 /\ 1 \notin Rest(p) /\ {2, 4} \subseteq Rest(p)
      BY <2>3, <2>4 DEF ToppingUp
    <3>1. Steps(p) = PremarketBody[3].steps
      BY SweepPlan DEF Steps
    <3>2. job[p].left # {} /\ Steps(p)[Min(job[p].left)] = "discover"
      BY <1>3 DEF Discover, Calling
    <3>3. job[p].left \subseteq 1 .. 5 /\ (1 \in job[p].left => {2, 4} \subseteq job[p].left)
      BY DEF TopUpInv, ToppingUp
    <3>4. Min(job[p].left) \in job[p].left
      BY <3>2, <3>3, LeastNumber
    <3>5. Min(job[p].left) = 1
      BY <3>1, <3>2, <3>3, <3>4, SweepPlan
    <3> QED BY <3>3, <3>4, <3>5 DEF Rest
  <2> HIDE DEF next
  <2> QED BY <1>0, <2>1, <2>2, <2>5, OneTopsUp
<1>4. ASSUME NEW p \in Sessions, Call(p) PROVE TopUpInv'
  <2>a. PICK t \in Tables : \E r \in Replies(p, t) :
            LET got == Wanted(p, t) \ r.lost IN
            /\ Calling(p, t)
            /\ Settle([job EXCEPT ![p].left = Rest(p), ![p].missed = @ \cup r.lost,
                           ![p].rows = @ \cup (IF t = "earnings" THEN {} ELSE got),
                           ![p].partial = (@ \ got) \cup r.partial,
                           ![p].marks = @ \cup (IF Ingest[t].ttl THEN got ELSE {})])
    BY <1>4 DEF Call
  <2>0. PICK r \in Replies(p, t) :
            LET got == Wanted(p, t) \ r.lost IN
            /\ Calling(p, t)
            /\ Settle([job EXCEPT ![p].left = Rest(p), ![p].missed = @ \cup r.lost,
                           ![p].rows = @ \cup (IF t = "earnings" THEN {} ELSE got),
                           ![p].partial = (@ \ got) \cup r.partial,
                           ![p].marks = @ \cup (IF Ingest[t].ttl THEN got ELSE {})])
    BY <2>a
  <2> DEFINE lost == r.lost
             got == Wanted(p, t) \ lost
             next == [job[p] EXCEPT !.left = Rest(p), !.missed = @ \cup lost,
                         !.rows = @ \cup (IF t = "earnings" THEN {} ELSE got),
                         !.partial = (@ \ got) \cup r.partial,
                         !.marks = @ \cup (IF Ingest[t].ttl THEN got ELSE {})]
  <2>1. lost \in SUBSET Wanted(p, t) /\ r.partial \in SUBSET Wanted(p, t) /\ Calling(p, t)
    BY <2>0 DEF Replies
  <2>2. job' = [job EXCEPT ![p] = next] /\ clock' = clock
    <3>1. Settle([job EXCEPT ![p] = next])
      BY <2>0
    <3>2. clock' = clock
      BY <1>4 DEF Call
    <3> HIDE DEF next
    <3> QED BY <3>1, <3>2 DEF Settle
  <2>3. /\ next.left = Rest(p) /\ next.tx = job[p].tx /\ next.stage = job[p].stage
        /\ next.found = job[p].found /\ next.scope = job[p].scope
        /\ next.missed = job[p].missed \cup lost
        /\ next.rows = job[p].rows \cup (IF t = "earnings" THEN {} ELSE got)
    BY <1>0 DEF JobsFit, Work
  <2>4. ToppingUp(p, next)
    <3> HIDE DEF next
    <3> SUFFICES ASSUME p \in Sweeps, job[p].tx = 3, job[p].stage = "call"
                 PROVE  ToppingUp(p, next)
      BY <2>3 DEF ToppingUp
    <3>1. Steps(p) = PremarketBody[3].steps
      BY SweepPlan DEF Steps
    <3>2. job[p].left # {} /\ Steps(p)[Min(job[p].left)] = t
      BY <2>1 DEF Calling
    <3>3. ToppingUp(p, job[p]) /\ job[p].left \subseteq 1 .. 5
      BY DEF TopUpInv, ToppingUp
    <3>4. Min(job[p].left) \in job[p].left /\ \A n \in job[p].left : Min(job[p].left) <= n
      BY <3>2, <3>3, LeastNumber
    <3>5. Min(job[p].left) # 1
      BY <3>1, <3>2, SweepPlan, MarketAssumption DEF Ingest
    <3>6. 1 \notin job[p].left
      BY <3>3, <3>4, <3>5
    <3>7. ASSUME NEW i \in {2, 4}, i \notin Rest(p), NEW s \in job[p].found.names
          PROVE  <<PremarketBody[3].steps[i], s>> \in next.rows \cup next.missed
      <4>1. CASE i \notin job[p].left
        BY <2>3, <3>3, <3>6, <4>1 DEF ToppingUp
      <4>2. CASE i \in job[p].left
        <5>1. i = Min(job[p].left) /\ t = PremarketBody[3].steps[i] /\ t \in {"bars", "quotes"}
          BY <3>1, <3>2, <3>7, <4>2, SweepPlan DEF Rest
        <5>2. <<t, s>> \in Wanted(p, t)
          BY <1>0, <3>3, <3>6, <5>1, SweepAsksForAll DEF ToppingUp
        <5>3. t # "earnings"
          BY <5>1
        <5> QED BY <2>3, <5>1, <5>2, <5>3
      <4> QED BY <4>1, <4>2
    <3> QED BY <2>3, <3>3, <3>6, <3>7 DEF ToppingUp, Rest
  <2> HIDE DEF next
  <2> QED BY <1>0, <2>2, <2>4, OneTopsUp
<1>5. ASSUME NEW p \in Sessions, Raise(p) \/ Deadlock(p) PROVE TopUpInv'
  <2>1. job' = [job EXCEPT ![p] = Failed(p)] /\ clock' = clock
    BY <1>5 DEF Raise, Deadlock, Settle
  <2>2. ToppingUp(p, Failed(p))
    BY OpeningTopsNothing DEF ToppingUp
  <2> QED BY <1>0, <2>1, <2>2, OneTopsUp
<1>6. ASSUME NEW p \in Sessions, CommitTx(p) PROVE TopUpInv'
  <2>1. job' = [q \in Sessions |-> IF q = p THEN Following(p)
                                  ELSE IF Collides(p, q) THEN Failed(q) ELSE job[q]]
        /\ clock' = clock
    BY <1>6 DEF CommitTx, Settle
  <2>2. \A q \in Sessions : job'[q].stage = "open" \/ job'[q] = job[q]
    BY <2>1, OpeningTopsNothing
  <2> QED BY <2>1, <2>2 DEF TopUpInv, ToppingUp
<1>7. ASSUME Restart PROVE TopUpInv'
  <2>1. job' = [p \in Sessions |-> IF p \in Worker THEN Idle ELSE job[p]] /\ clock' = clock
    BY <1>7 DEF Restart, Settle
  <2>2. \A q \in Sessions : job'[q].stage = "open" \/ job'[q] = job[q]
    BY <2>1, OpeningTopsNothing
  <2> QED BY <2>1, <2>2 DEF TopUpInv, ToppingUp
<1>8. CASE Purge \/ UNCHANGED dayVars
  BY <1>8 DEF Purge, dayVars, TopUpInv, ToppingUp
<1>9. CASE Tick
  <2>1. job' = job /\ \A p \in Sessions : job[p].stage # "call"
    BY <1>9 DEF Tick
  <2> QED BY <2>1 DEF TopUpInv, ToppingUp
<1> QED BY <1>1, <1>2, <1>3, <1>4, <1>5, <1>6, <1>7, <1>8, <1>9 DEF DayNext, Step

LEMMA TopUpInit == DayInit => TopUpInv
<1> SUFFICES ASSUME DayInit, NEW p \in Sessions PROVE ToppingUp(p, job[p])
  BY DEF TopUpInv
<1>1. job[p].stage = "open"
  BY OpeningTopsNothing DEF DayInit
<1> QED BY <1>1 DEF ToppingUp

\* What PublishedToppedUp says of one step.
PublishesToppedUp ==
    \A p \in Sweeps \cap Sessions : listed' # listed /\ listed'.by = p =>
        \A s \in listed'.names, t \in {"bars", "quotes"} :
            row'[t][s] >= listed'.at \/ <<t, s>> \in job[p].missed

LEMMA CommitPublishes ==
    ASSUME {"bars", "quotes"} \subseteq Tables, VouchInv, TopUpInv, [DayNext]_dayVars
    PROVE  PublishesToppedUp
<1> SUFFICES ASSUME NEW b \in Sweeps \cap Sessions, listed' # listed, listed'.by = b,
                    NEW s \in listed'.names, NEW t \in {"bars", "quotes"}
             PROVE  row'[t][s] >= listed'.at \/ <<t, s>> \in job[b].missed
  BY DEF PublishesToppedUp
<1>1. PICK p \in Sessions : CommitTx(p)
  <2>1. \A p \in Sessions : Start(p) \/ Open(p) \/ Discover(p) \/ Call(p) \/ Raise(p)
            \/ Deadlock(p) => listed' = listed
    BY DEF Start, Open, Discover, Call, Raise, Deadlock, store
  <2>2. Restart \/ Purge \/ Tick \/ UNCHANGED dayVars => listed' = listed
    BY DEF Restart, Purge, Tick, store, dayVars
  <2> QED BY <2>1, <2>2 DEF DayNext, Step
<1>2. listed' = job[p].found /\ Plan[p][job[p].tx].scope = "discovered"
  BY <1>1 DEF CommitTx
<1>3. Fits(p, job[p]) /\ job[p] \in Work /\ clock \in Nat
  BY DEF VouchInv, JobsFit, StoreTypes
<1>4. b = p
  <2>1. b # Nobody
    BY DEF Sweeps, Nobody
  <2> QED BY <1>2, <1>3, <2>1 DEF Fits
<1>5. job[p].stage = "call" /\ job[p].tx = 3
  <2>1. job[p].stage = "call"
    BY <1>1 DEF CommitTx
  <2>2. job[p].tx \in 1 .. 4
    <3>1. Len(Plan[p]) = 4
      BY <1>4, SweepPlan
    <3> QED BY <1>3, <2>1, <3>1 DEF Fits, Work
  <2> QED BY <1>2, <1>4, <2>1, <2>2, SweepPlan
<1>6. ToppingUp(p, job[p])
  BY DEF TopUpInv
<1>7. job[p].left \cap 1 .. 5 = {}
  <2>1. \A i \in job[p].left : Steps(p)[i] = "brief"
    BY <1>1 DEF CommitTx
  <2> QED BY <1>4, <1>5, <2>1, SweepPlan DEF Steps
<1>8. job[p].found.at = clock /\ <<t, s>> \in job[p].rows \cup job[p].missed
  BY <1>2, <1>4, <1>5, <1>6, <1>7, SweepPlan DEF ToppingUp
<1>9. <<t, s>> \in job[p].rows => row'[t][s] = clock
  <2>1. s \in Symbols /\ t \in Tables
    BY <1>2, <1>3 DEF Work, Lists
  <2>2. <<t, s>> \notin job[p].partial
    BY <1>3 DEF Fits
  <2> QED BY <1>1, <2>1, <2>2 DEF CommitTx
<1> QED BY <1>2, <1>3, <1>4, <1>8, <1>9

(* A list that a sweep publishes comes with bars and a quote of every name *)
(* on it, but for what the provider did not give it (jobs.py:143): whatever*)
(* else runs, and whatever fails on the way.                               *)
THEOREM SweepsTopUp ==
    ASSUME {"bars", "quotes"} \subseteq Tables
    PROVE  DaySpec => PublishedToppedUp
<1>1. VouchInv /\ TopUpInv /\ [DayNext]_dayVars => TopUpInv'
  BY TopUpKept
<1>2. VouchInv /\ TopUpInv /\ [DayNext]_dayVars => [PublishesToppedUp]_dayVars
  BY CommitPublishes
<1>3. [PublishesToppedUp]_dayVars =>
        [\A p \in Sweeps \cap Sessions : listed' # listed /\ listed'.by = p =>
            \A s \in listed'.names, t \in {"bars", "quotes"} :
                row'[t][s] >= listed'.at \/ <<t, s>> \in job[p].missed]_dayVars
  BY DEF PublishesToppedUp
<1> QED BY <1>1, <1>2, <1>3, TopUpInit, VouchInvariant, PTL DEF DaySpec, PublishedToppedUp
=============================================================================
