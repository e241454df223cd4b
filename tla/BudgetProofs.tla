---------------------------- MODULE BudgetProofs ----------------------------
(***************************************************************************)
(* Proofs about what the system rations: LLMBudget, for any sessions,      *)
(* budgets, retry policy and prices; RateLimiter, for any processes,       *)
(* threads and budgets; and the capped list of Discovery, for any symbols, *)
(* facts and failures.                                                     *)
(*                                                                         *)
(* The bound on a session's overshoot is not inductive by itself: while an *)
(* attempt loop runs, what the session has on record must leave room for   *)
(* the attempts that are left (LoopRoom), and the check at the loop's      *)
(* entry bounds the session's record only because its committed rows are   *)
(* in the ledger it reads (OwnRowsInLedger).                               *)
(*                                                                         *)
(* A caller of the rate limiter has its answer by its deadline because a   *)
(* denied try only sleeps up to it, and time does not pass a thread that   *)
(* is due: the invariant bounds the present by what each thread waits      *)
(* for, its alarm or Redis.                                                *)
(*                                                                         *)
(* The sweep ranks by a strict order, in which each of finitely many names *)
(* has a rank of its own; a failure only takes points away, so it moves    *)
(* nobody past a name that lost none.                                      *)
(***************************************************************************)
EXTENDS LLMBudget, RateLimiter, Discovery, SumTheorems, TLAPS

\* A session's committed rows of today are part of the committed total.
OwnRowsInLedger ==
    \A s \in Sessions, m \in Meters : written[s][m] <= ledger[m]

\* In the loop, the record plus what the attempts left may add stays in bound.
LoopRoom ==
    \A s \in Sessions, m \in Meters :
        phase[s] = "calling" /\ Capped(m) =>
            /\ Budget[m] > 0
            /\ Recorded(s)[m] < Budget[m] + (MaxRetries - attempts[s]) * MaxCharge[m]

OvershootInv ==
    /\ TypeOK
    /\ OwnRowsInLedger
    /\ LoopRoom
    /\ SessionOvershootBounded

-----------------------------------------------------------------------------
(* Adding usage vectors is adding each meter, and stays a usage vector. *)
LEMMA PlusUsage ==
    ASSUME NEW u \in Usage, NEW v \in Usage
    PROVE  /\ Plus(u, v) \in Usage
           /\ \A m \in Meters : Plus(u, v)[m] = u[m] + v[m]
BY DEF Usage, Plus

LEMMA ZeroUsage == Zero \in Usage /\ \A m \in Meters : Zero[m] = 0
BY DEF Usage, Zero

(* An attempt's charge is a usage vector within MaxCharge. *)
LEMMA ChargeBounded ==
    ASSUME NEW charge \in ReplyCharges \cup {TransportCharge}
    PROVE  /\ charge \in Usage
           /\ \A m \in Meters : charge[m] <= MaxCharge[m]
<1> USE BudgetAssumption
<1>1. CASE charge \in ReplyCharges
  BY <1>1
<1>2. CASE charge = TransportCharge
  <2>1. TransportCharge = [m \in Meters |-> IF m = "calls" THEN 1 ELSE 0]
    BY DEF TransportCharge, Zero, Meters
  <2> QED BY <1>2, <2>1 DEF Usage
<1> QED BY <1>1, <1>2

(* Multiples of a meter's largest charge, as the loop counts them down. *)
LEMMA Multiples ==
    ASSUME NEW a \in Nat, NEW b \in Nat, a < b, NEW m \in Meters
    PROVE  /\ MaxCharge[m] \in Nat
           /\ a * MaxCharge[m] \in Nat
           /\ b * MaxCharge[m] \in Nat
           /\ (a + 1) * MaxCharge[m] = a * MaxCharge[m] + MaxCharge[m]
           /\ (a + 1) * MaxCharge[m] <= b * MaxCharge[m]
<1>1. MaxCharge[m] \in Nat
  BY BudgetAssumption
<1> DEFINE c == MaxCharge[m]
<1>2. c \in Nat
  BY <1>1
<1> HIDE DEF c
<1>3. /\ a * c \in Nat
      /\ b * c \in Nat
      /\ (a + 1) * c = a * c + c
      /\ (a + 1) * c <= b * c
  BY <1>2
<1> QED BY <1>1, <1>3 DEF c

-----------------------------------------------------------------------------
(* TypeOK is inductive by itself: rows are only flushed into open sessions *)
(* (client.py:157-177) and the attempt loop counts down to its exit.       *)
LEMMA TypeInit == Init => TypeOK
<1> SUFFICES ASSUME Init PROVE TypeOK
  OBVIOUS
<1> QED BY ZeroUsage, BudgetAssumption DEF Init, TypeOK

LEMMA PayTyped ==
    ASSUME TypeOK, NEW s \in Sessions,
           NEW charge \in ReplyCharges \cup {TransportCharge}, Pay(s, charge)
    PROVE  /\ pending' \in [Sessions -> Usage]
           /\ spent' \in Usage
           /\ late' \in [Sessions -> Nat]
           /\ \A r \in Sessions : r # s => pending'[r] = pending[r]
<1>1. Plus(pending[s], charge) \in Usage /\ Plus(spent, charge) \in Usage
  BY PlusUsage, ChargeBounded DEF TypeOK
<1>2. late' \in [Sessions -> Nat]
  BY DEF Pay, TypeOK
<1> QED BY <1>1, <1>2 DEF Pay, TypeOK

LEMMA TypeNext == TypeOK /\ [Next]_vars => TypeOK'
<1> SUFFICES ASSUME TypeOK, [Next]_vars PROVE TypeOK'
  OBVIOUS
<1> USE BudgetAssumption
<1>1. CASE UNCHANGED vars
  BY <1>1 DEF vars, TypeOK
<1>2. CASE Midnight
  BY <1>2, ZeroUsage DEF Midnight, TypeOK
<1>3. ASSUME NEW s \in Sessions, OpenSession(s) PROVE TypeOK'
  BY <1>3 DEF OpenSession, TypeOK
<1>4. ASSUME NEW s \in Sessions, StartCall(s) PROVE TypeOK'
  BY <1>4 DEF StartCall, TypeOK
<1>5. ASSUME NEW s \in Sessions, RefuseCall(s) PROVE TypeOK'
  BY <1>5 DEF RefuseCall, TypeOK
<1>6. ASSUME NEW s \in Sessions, NEW charge \in ReplyCharges \cup {TransportCharge},
             FailAttempt(s, charge)
      PROVE  TypeOK'
  <2>1. Pay(s, charge)
    BY <1>6 DEF FailAttempt
  <2>2. /\ attempts[s] \in 1 .. MaxRetries
        /\ attempts' = [attempts EXCEPT ![s] = attempts[s] - 1]
    BY <1>6 DEF FailAttempt, TypeOK
  <2>3. CASE attempts[s] > 1
    BY <1>6, <2>1, <2>2, <2>3, PayTyped DEF FailAttempt, TypeOK
  <2>4. CASE attempts[s] = 1
    <3>1. /\ phase' = [phase EXCEPT ![s] = "open"]
          /\ degraded' = [degraded EXCEPT ![s] = TRUE]
      BY <1>6, <2>4 DEF FailAttempt
    <3>2. degraded' \in [Sessions -> BOOLEAN]
      BY <3>1 DEF TypeOK
    <3>3. attempts' = [attempts EXCEPT ![s] = 0]
      BY <2>2, <2>4
    <3> QED BY <1>6, <2>1, <3>1, <3>2, <3>3, PayTyped DEF FailAttempt, TypeOK
  <2> QED BY <2>2, <2>3, <2>4
<1>7. ASSUME NEW s \in Sessions, ValidReply(s) PROVE TypeOK'
  <2>1. PICK charge \in ReplyCharges : Pay(s, charge)
    BY <1>7 DEF ValidReply
  <2> QED BY <1>7, <2>1, PayTyped DEF ValidReply, TypeOK
<1>8. ASSUME NEW s \in Sessions, CommitSession(s) PROVE TypeOK'
  <2>1. /\ Plus(ledger, pending[s]) \in Usage
        /\ Plus(written[s], pending[s]) \in Usage
    BY PlusUsage DEF TypeOK
  <2> QED BY <1>8, <2>1, ZeroUsage DEF CommitSession, TypeOK
<1>9. ASSUME NEW s \in Sessions, RollbackSession(s) PROVE TypeOK'
  BY <1>9, ZeroUsage DEF RollbackSession, TypeOK
<1> QED BY <1>1, <1>2, <1>3, <1>4, <1>5, <1>6, <1>7, <1>8, <1>9
        DEF Next, TransportError, InvalidReply

(* The meter's variables keep their types, and a session outside a call    *)
(* has no attempts left, in every behaviour (client.py:180-268).           *)
THEOREM TypeCorrect == Spec => []TypeOK
BY TypeInit, TypeNext, PTL DEF Spec

-----------------------------------------------------------------------------
LEMMA RecordedUsage ==
    ASSUME TypeOK, NEW s \in Sessions, NEW m \in Meters
    PROVE  /\ Recorded(s)[m] = written[s][m] + pending[s][m]
           /\ Visible(s)[m] = ledger[m] + pending[s][m]
           /\ written[s][m] \in Nat /\ pending[s][m] \in Nat /\ ledger[m] \in Nat
BY DEF TypeOK, Recorded, Visible, Plus, Usage

(* The bound leaves room for something, even under a zero budget. *)
LEMMA BoundPositive ==
    ASSUME NEW m \in Meters
    PROVE  Budget[m] + MaxRetries * MaxCharge[m] > 0
<1>1. /\ MaxCharge[m] \in Nat \ {0}
      /\ Budget[m] \in Nat
      /\ MaxRetries \in Nat /\ 0 < MaxRetries
  BY BudgetAssumption DEF Usage
<1>2. MaxRetries * MaxCharge[m] \in Nat /\ (0 + 1) * MaxCharge[m] <= MaxRetries * MaxCharge[m]
  BY <1>1, Multiples
<1>3. (0 + 1) * MaxCharge[m] = MaxCharge[m]
  BY <1>1
<1> QED BY <1>1, <1>2, <1>3

LEMMA OvershootInit == Init => OvershootInv
<1> SUFFICES ASSUME Init PROVE OvershootInv
  OBVIOUS
<1>1. TypeOK
  BY TypeInit
<1>2. \A s \in Sessions, m \in Meters : Recorded(s)[m] = 0
  BY ZeroUsage, PlusUsage DEF Init, Recorded
<1> QED BY <1>1, <1>2, BoundPositive, ZeroUsage
        DEF Init, OvershootInv, OwnRowsInLedger, LoopRoom, SessionOvershootBounded

(* What an attempt adds to the record is at most what LoopRoom kept free.  *)
LEMMA PayKeepsRoom ==
    ASSUME OvershootInv, TypeOK', NEW s \in Sessions,
           NEW charge \in ReplyCharges \cup {TransportCharge},
           phase[s] = "calling", Pay(s, charge),
           UNCHANGED <<ledger, written>>,
           attempts' \in {[attempts EXCEPT ![s] = attempts[s] - 1],
                          [attempts EXCEPT ![s] = 0]},
           \A r \in Sessions : r # s => phase'[r] = phase[r]
    PROVE  OvershootInv'
<1> USE DEF OvershootInv
<1>1. OwnRowsInLedger'
  BY DEF OwnRowsInLedger
<1>2. ASSUME NEW m \in Meters, Capped(m)
      PROVE  /\ Budget[m] > 0
             /\ Recorded(s)'[m]
                  < Budget[m] + (MaxRetries - (attempts[s] - 1)) * MaxCharge[m]
             /\ Recorded(s)'[m] < Budget[m] + MaxRetries * MaxCharge[m]
             /\ attempts'[s] > 0 => attempts'[s] = attempts[s] - 1
  <2>1. /\ Budget[m] > 0
        /\ Recorded(s)[m] < Budget[m] + (MaxRetries - attempts[s]) * MaxCharge[m]
    BY <1>2 DEF LoopRoom
  <2>2. attempts[s] \in 1 .. MaxRetries /\ MaxRetries \in Nat
    BY BudgetAssumption DEF TypeOK
  <2>3. Recorded(s)'[m] = Recorded(s)[m] + charge[m] /\ charge[m] <= MaxCharge[m]
    <3>1. pending'[s] = Plus(pending[s], charge)
      BY DEF Pay, TypeOK
    <3>2. charge[m] \in Nat /\ charge[m] <= MaxCharge[m]
      BY ChargeBounded DEF Usage
    <3>3. pending'[s][m] = pending[s][m] + charge[m]
      BY <3>1, ChargeBounded, PlusUsage DEF TypeOK
    <3>4. Recorded(s)'[m] = written[s][m] + pending'[s][m]
      BY DEF Recorded, Plus
    <3> QED BY <3>2, <3>3, <3>4, RecordedUsage
  <2> DEFINE a == MaxRetries - attempts[s]
  <2>4. a \in Nat /\ a < MaxRetries /\ a + 1 = MaxRetries - (attempts[s] - 1)
    BY <2>2
  <2>5. /\ (a + 1) * MaxCharge[m] = a * MaxCharge[m] + MaxCharge[m]
        /\ (a + 1) * MaxCharge[m] <= MaxRetries * MaxCharge[m]
        /\ a * MaxCharge[m] \in Nat
        /\ MaxCharge[m] \in Nat
        /\ MaxRetries * MaxCharge[m] \in Nat
    BY <2>2, <2>4, Multiples
  <2>6. /\ Budget[m] \in Nat
        /\ Recorded(s)[m] \in Nat /\ charge[m] \in Nat
    BY RecordedUsage, BudgetAssumption, ChargeBounded DEF Usage
  <2>7. Recorded(s)'[m] < Budget[m] + (a + 1) * MaxCharge[m]
    BY <2>1, <2>3, <2>5, <2>6
  <2>8. Recorded(s)'[m] < Budget[m] + MaxRetries * MaxCharge[m]
    BY <2>3, <2>5, <2>6, <2>7
  <2>9. attempts'[s] > 0 => attempts'[s] = attempts[s] - 1
    BY DEF TypeOK
  <2> QED BY <2>1, <2>4, <2>7, <2>8, <2>9
<1>3. ASSUME NEW r \in Sessions, r # s
      PROVE  Recorded(r)' = Recorded(r) /\ attempts'[r] = attempts[r]
  BY <1>3, PayTyped DEF Recorded, TypeOK
<1>4. LoopRoom'
  <2> SUFFICES ASSUME NEW r \in Sessions, NEW m \in Meters,
                      phase'[r] = "calling", Capped(m)
               PROVE  /\ Budget[m] > 0
                      /\ Recorded(r)'[m]
                           < Budget[m] + (MaxRetries - attempts'[r]) * MaxCharge[m]
    BY DEF LoopRoom
  <2>1. CASE r = s
    <3>1. attempts'[s] > 0
      BY <2>1 DEF TypeOK
    <3> QED BY <2>1, <3>1, <1>2
  <2>2. CASE r # s
    BY <2>2, <1>3 DEF LoopRoom
  <2> QED BY <2>1, <2>2
<1>5. SessionOvershootBounded'
  BY <1>2, <1>3 DEF SessionOvershootBounded
<1> QED BY <1>1, <1>4, <1>5

(* Steps that only touch other components, or no session's record at all.  *)
LEMMA OvershootFrame ==
    ASSUME OvershootInv, TypeOK', UNCHANGED <<ledger, pending, written>>,
           \A s \in Sessions : phase'[s] = "calling" =>
               phase[s] = "calling" /\ attempts'[s] = attempts[s]
    PROVE  OvershootInv'
<1> USE DEF OvershootInv
<1>1. \A s \in Sessions : Recorded(s)' = Recorded(s)
  BY DEF Recorded, Plus
<1> QED BY <1>1 DEF OwnRowsInLedger, LoopRoom, SessionOvershootBounded

LEMMA OvershootNext == OvershootInv /\ [Next]_vars => OvershootInv'
<1> SUFFICES ASSUME OvershootInv, [Next]_vars PROVE OvershootInv'
  OBVIOUS
<1> USE DEF OvershootInv
<1>0. TypeOK'
  BY TypeNext
<1>1. CASE UNCHANGED vars
  BY <1>0, <1>1, OvershootFrame DEF vars
<1>2. CASE Midnight
  <2>1. \A s \in Sessions, m \in Meters : Recorded(s)'[m] = 0
    BY <1>2, ZeroUsage, PlusUsage DEF Midnight, Recorded
  <2>3. ASSUME NEW s \in Sessions, NEW m \in Meters, phase'[s] = "calling", Capped(m)
        PROVE  Budget[m] > 0
                 /\ 0 < Budget[m] + (MaxRetries - attempts'[s]) * MaxCharge[m]
    <3>1. Budget[m] > 0 /\ Budget[m] \in Nat
      BY <1>2, <2>3, BudgetAssumption DEF Midnight, LoopRoom, Usage
    <3>2. MaxRetries - attempts'[s] \in Nat
      BY <1>0, BudgetAssumption DEF TypeOK
    <3>3. MaxCharge[m] \in Nat
      BY BudgetAssumption
    <3>4. \A i, j \in Nat : i * j >= 0
      OBVIOUS
    <3>5. (MaxRetries - attempts'[s]) * MaxCharge[m] >= 0
      BY <3>2, <3>3, <3>4
    <3>6. (MaxRetries - attempts'[s]) * MaxCharge[m] \in Int
      BY <3>2, <3>3
    <3> QED BY <3>1, <3>5, <3>6
  <2>4. OwnRowsInLedger'
    BY <1>2, ZeroUsage DEF Midnight, OwnRowsInLedger
  <2> QED BY <1>0, <2>1, BoundPositive, <2>3, <2>4 DEF LoopRoom, SessionOvershootBounded
<1>3. ASSUME NEW s \in Sessions, OpenSession(s) PROVE OvershootInv'
  BY <1>0, <1>3, OvershootFrame DEF OpenSession, TypeOK
<1>4. ASSUME NEW s \in Sessions, StartCall(s) PROVE OvershootInv'
  <2>1. \A r \in Sessions : Recorded(r)' = Recorded(r)
    BY <1>4 DEF StartCall, Recorded, Plus
  <2>2. ASSUME NEW m \in Meters, Capped(m)
        PROVE  /\ Budget[m] > 0
               /\ Recorded(s)[m] < Budget[m] + (MaxRetries - MaxRetries) * MaxCharge[m]
    <3>1. Visible(s)[m] < Budget[m]
      <4>1. ~(Visible(s)[m] >= Budget[m])
        BY <1>4, <2>2 DEF StartCall, Exhausted
      <4> QED BY <4>1, RecordedUsage, BudgetAssumption DEF Usage
    <3>2. Recorded(s)[m] < Budget[m] /\ Budget[m] > 0
      BY <3>1, RecordedUsage, BudgetAssumption DEF OwnRowsInLedger, Usage
    <3>3. (MaxRetries - MaxRetries) * MaxCharge[m] = 0
      BY BudgetAssumption
    <3> QED BY <3>2, <3>3, RecordedUsage, BudgetAssumption DEF Usage
  <2>3. LoopRoom'
    BY <1>4, <2>1, <2>2 DEF StartCall, LoopRoom, TypeOK
  <2> QED BY <1>0, <1>4, <2>1, <2>3 DEF StartCall, OwnRowsInLedger, SessionOvershootBounded
<1>5. ASSUME NEW s \in Sessions, RefuseCall(s) PROVE OvershootInv'
  BY <1>0, <1>5, OvershootFrame DEF RefuseCall, TypeOK
<1>6. ASSUME NEW s \in Sessions, NEW charge \in ReplyCharges \cup {TransportCharge},
             FailAttempt(s, charge)
      PROVE  OvershootInv'
  <2>1. \A r \in Sessions : r # s => phase'[r] = phase[r]
    BY <1>6 DEF FailAttempt, TypeOK
  <2> QED BY <1>0, <1>6, <2>1, PayKeepsRoom DEF FailAttempt
<1>7. ASSUME NEW s \in Sessions, ValidReply(s) PROVE OvershootInv'
  <2>1. PICK charge \in ReplyCharges : Pay(s, charge)
    BY <1>7 DEF ValidReply
  <2>2. \A r \in Sessions : r # s => phase'[r] = phase[r]
    BY <1>7 DEF ValidReply, TypeOK
  <2> QED BY <1>0, <1>7, <2>1, <2>2, PayKeepsRoom DEF ValidReply
<1>8. ASSUME NEW s \in Sessions, CommitSession(s) PROVE OvershootInv'
  <2>1. ASSUME NEW r \in Sessions, NEW m \in Meters
        PROVE  Recorded(r)'[m] = Recorded(r)[m] /\ written'[r][m] <= ledger'[m]
    <3>1. ledger'[m] = ledger[m] + pending[s][m]
      BY <1>8, PlusUsage DEF CommitSession, TypeOK
    <3>2. CASE r = s
      <4>1. written'[r][m] = written[r][m] + pending[r][m] /\ pending'[r][m] = 0
        BY <1>8, <3>2, PlusUsage, ZeroUsage DEF CommitSession, TypeOK
      <4>2. Recorded(r)'[m] = written'[r][m] + pending'[r][m]
        BY DEF Recorded, Plus
      <4> QED BY <3>1, <3>2, <4>1, <4>2, RecordedUsage DEF OwnRowsInLedger
    <3>3. CASE r # s
      <4>1. written'[r] = written[r] /\ pending'[r] = pending[r]
        BY <1>8, <3>3 DEF CommitSession, TypeOK
      <4>2. Recorded(r)' = Recorded(r)
        BY <4>1 DEF Recorded, Plus
      <4>3. /\ written[r][m] <= ledger[m]
            /\ written[r][m] \in Nat /\ ledger[m] \in Nat /\ pending[s][m] \in Nat
        BY RecordedUsage DEF OwnRowsInLedger
      <4> QED BY <3>1, <4>1, <4>2, <4>3
    <3> QED BY <3>2, <3>3
  <2>2. \A r \in Sessions : phase'[r] = "calling" => phase[r] = "calling"
    BY <1>8 DEF CommitSession, TypeOK
  <2> QED BY <1>0, <1>8, <2>1, <2>2
          DEF CommitSession, OwnRowsInLedger, LoopRoom, SessionOvershootBounded
<1>9. ASSUME NEW s \in Sessions, RollbackSession(s) PROVE OvershootInv'
  <2>1. ASSUME NEW r \in Sessions, NEW m \in Meters
        PROVE  /\ Recorded(r)'[m] <= Recorded(r)[m]
               /\ Recorded(r)'[m] \in Nat
               /\ r # s => Recorded(r)' = Recorded(r)
    <3>1. Recorded(r)'[m] = written[r][m] + pending'[r][m]
      BY <1>9 DEF RollbackSession, Recorded, Plus
    <3>2. CASE r = s
      <4>1. pending'[r][m] = 0
        BY <1>9, <3>2, ZeroUsage DEF RollbackSession, TypeOK
      <4> QED BY <3>1, <3>2, <4>1, RecordedUsage
    <3>3. CASE r # s
      <4>1. pending'[r] = pending[r]
        BY <1>9, <3>3 DEF RollbackSession, TypeOK
      <4>2. Recorded(r)' = Recorded(r)
        BY <1>9, <4>1 DEF RollbackSession, Recorded, Plus
      <4> QED BY <3>1, <4>1, <4>2, RecordedUsage
    <3> QED BY <3>2, <3>3
  <2>2. \A r \in Sessions : phase'[r] = "calling" =>
            r # s /\ phase[r] = "calling" /\ attempts'[r] = attempts[r]
    BY <1>9 DEF RollbackSession, TypeOK
  <2>3. SessionOvershootBounded'
    <3> SUFFICES ASSUME NEW r \in Sessions, NEW m \in Meters, Capped(m)
                 PROVE  Recorded(r)'[m] < Budget[m] + MaxRetries * MaxCharge[m]
      BY DEF SessionOvershootBounded
    <3>1. Budget[m] + MaxRetries * MaxCharge[m] \in Int
      BY BudgetAssumption DEF Usage
    <3>2. /\ Recorded(r)[m] < Budget[m] + MaxRetries * MaxCharge[m]
          /\ Recorded(r)[m] \in Nat
      BY RecordedUsage DEF SessionOvershootBounded
    <3> QED BY <2>1, <3>1, <3>2
  <2> QED BY <1>0, <1>9, <2>1, <2>2, <2>3
          DEF RollbackSession, OwnRowsInLedger, LoopRoom
<1> QED BY <1>1, <1>2, <1>3, <1>4, <1>5, <1>6, <1>7, <1>8, <1>9
        DEF Next, TransportError, InvalidReply

(* For any sessions, budgets and prices, no session's usage on record      *)
(* passes a cap by more than one complete_json's attempts                  *)
(* (client.py:195, 215-266).                                               *)
THEOREM OvershootBounded == Spec => []SessionOvershootBounded
<1>1. OvershootInv => SessionOvershootBounded
  BY DEF OvershootInv
<1> QED BY <1>1, OvershootInit, OvershootNext, PTL DEF Spec

-----------------------------------------------------------------------------
(* Late attempts come out of the loop that was running when the cap was    *)
(* committed: together with the attempts left they fit in one call.        *)
LateInv ==
    /\ TypeOK
    /\ \A s \in Sessions : late[s] + attempts[s] <= MaxRetries
    /\ \A s \in Sessions : ~Exhausted(ledger) => late[s] = 0

LEMMA LateInit == Init => LateInv
<1> SUFFICES ASSUME Init PROVE LateInv
  OBVIOUS
<1> QED BY TypeInit, BudgetAssumption DEF Init, LateInv

(* A ledger over a cap stays over it when rows are added. *)
LEMMA ExhaustedGrows ==
    ASSUME NEW u \in Usage, NEW v \in Usage, Exhausted(u)
    PROVE  Exhausted(Plus(u, v))
<1>1. PICK m \in Meters : Capped(m) /\ u[m] >= Budget[m]
  BY DEF Exhausted
<1>2. u[m] \in Nat /\ v[m] \in Nat /\ Budget[m] \in Nat
  BY BudgetAssumption DEF Usage
<1>3. Plus(u, v)[m] >= Budget[m]
  BY <1>1, <1>2, PlusUsage
<1> QED BY <1>1, <1>3 DEF Exhausted

LEMMA LateAttempt ==
    ASSUME LateInv, TypeOK', NEW s \in Sessions,
           NEW charge \in ReplyCharges \cup {TransportCharge},
           phase[s] = "calling", Pay(s, charge), UNCHANGED ledger,
           attempts' \in {[attempts EXCEPT ![s] = attempts[s] - 1],
                          [attempts EXCEPT ![s] = 0]}
    PROVE  LateInv'
<1> USE DEF LateInv
<1>1. attempts[s] \in 1 .. MaxRetries /\ MaxRetries \in Nat /\ late[s] \in Nat
  BY BudgetAssumption DEF TypeOK
<1>2. attempts'[s] \in {attempts[s] - 1, 0}
  BY DEF TypeOK
<1>3. \A r \in Sessions : r # s => attempts'[r] = attempts[r]
  BY DEF TypeOK
<1>4. CASE Exhausted(ledger)
  <2>1. late' = [late EXCEPT ![s] = late[s] + 1]
    BY <1>4 DEF Pay
  <2>2. Exhausted(ledger)'
    BY <1>4 DEF Exhausted
  <2> QED BY <1>1, <1>2, <1>3, <2>1, <2>2 DEF TypeOK
<1>5. CASE ~Exhausted(ledger)
  <2>1. late' = late
    BY <1>5 DEF Pay
  <2> QED BY <1>1, <1>2, <1>3, <1>5, <2>1 DEF TypeOK, Exhausted
<1> QED BY <1>4, <1>5

LEMMA LateNext == LateInv /\ [Next]_vars => LateInv'
<1> SUFFICES ASSUME LateInv, [Next]_vars PROVE LateInv'
  OBVIOUS
<1> USE DEF LateInv
<1>0. TypeOK'
  BY TypeNext
<1>1. ASSUME UNCHANGED <<ledger, attempts, late>> PROVE LateInv'
  BY <1>0, <1>1 DEF Exhausted
<1>2. CASE Midnight
  BY <1>0, <1>2, BudgetAssumption DEF Midnight, TypeOK
<1>3. ASSUME NEW s \in Sessions, StartCall(s) PROVE LateInv'
  <2>1. ~Exhausted(ledger)
    BY <1>3, ExhaustedGrows DEF StartCall, Visible, TypeOK
  <2>2. late[s] = 0 /\ UNCHANGED <<ledger, late>>
    BY <1>3, <2>1 DEF StartCall
  <2> QED BY <1>0, <1>3, <2>1, <2>2, BudgetAssumption DEF StartCall, TypeOK, Exhausted
<1>4. ASSUME NEW s \in Sessions, NEW charge \in ReplyCharges \cup {TransportCharge},
             FailAttempt(s, charge)
      PROVE  LateInv'
  BY <1>0, <1>4, LateAttempt DEF FailAttempt
<1>5. ASSUME NEW s \in Sessions, ValidReply(s) PROVE LateInv'
  BY <1>0, <1>5, LateAttempt DEF ValidReply
<1>6. ASSUME NEW s \in Sessions, CommitSession(s) PROVE LateInv'
  <2>1. Exhausted(ledger) => Exhausted(ledger')
    BY <1>6, ExhaustedGrows DEF CommitSession, TypeOK
  <2>2. \A r \in Sessions : ~Exhausted(ledger') => late'[r] = 0
    BY <1>6, <2>1 DEF CommitSession
  <2> QED BY <1>0, <1>6, <2>2 DEF CommitSession, Exhausted
<1>7. ASSUME NEW s \in Sessions, RollbackSession(s) PROVE LateInv'
  <2>1. \A r \in Sessions : attempts'[r] \in {attempts[r], 0}
    BY <1>7 DEF RollbackSession, TypeOK
  <2>2. UNCHANGED <<ledger, late>>
    BY <1>7 DEF RollbackSession
  <2>3. \A r \in Sessions : late[r] \in Nat /\ attempts[r] \in Nat
    BY DEF TypeOK
  <2> QED BY <1>0, <2>1, <2>2, <2>3, BudgetAssumption DEF Exhausted
<1> QED BY <1>1, <1>2, <1>3, <1>4, <1>5, <1>6, <1>7
        DEF Next, TransportError, InvalidReply, OpenSession, RefuseCall, vars

(* For any sessions, budgets and prices: once the committed usage is over  *)
(* a cap, a session makes at most one call's attempts before midnight      *)
(* (client.py:6-10).                                                       *)
THEOREM DegradedHolds == Spec => []DegradedUntilMidnight
<1>1. LateInv => DegradedUntilMidnight
  <2> SUFFICES ASSUME LateInv, NEW s \in Sessions PROVE late[s] <= MaxRetries
    BY DEF DegradedUntilMidnight
  <2>1. late[s] \in Nat /\ attempts[s] \in Nat /\ late[s] + attempts[s] <= MaxRetries
    BY DEF LateInv, TypeOK
  <2> QED BY <2>1, BudgetAssumption
<1> QED BY <1>1, LateInit, LateNext, PTL DEF Spec

-----------------------------------------------------------------------------
(* Refinement of the permit scheme, on the call meter.                     *)
CallsOf == [s \in Sessions |-> Recorded(s)["calls"]]

LEMMA CallsIsMeter == "calls" \in Meters
BY DEF Meters

LEMMA CallsOfTyped == TypeOK => CallsOf \in [Sessions -> Nat]
<1> SUFFICES ASSUME TypeOK, NEW s \in Sessions PROVE Recorded(s)["calls"] \in Nat
  BY DEF CallsOf
<1> QED BY RecordedUsage, CallsIsMeter

LEMMA MeterInit == Init => CallMeter!Init
<1> SUFFICES ASSUME Init PROVE CallMeter!Init
  OBVIOUS
<1>1. \A s \in Sessions, m \in Meters : Recorded(s)[m] = 0
  BY ZeroUsage, PlusUsage DEF Init, Recorded
<1> QED BY <1>1, CallsIsMeter DEF Init, CallMeter!Init

(* A paid attempt is one use of a permit. *)
LEMMA AttemptIsUse ==
    ASSUME TypeOK, NEW s \in Sessions,
           NEW charge \in ReplyCharges \cup {TransportCharge},
           phase[s] = "calling", Pay(s, charge), UNCHANGED written,
           attempts' \in {[attempts EXCEPT ![s] = attempts[s] - 1],
                          [attempts EXCEPT ![s] = 0]}
    PROVE  CallMeter!Use(s)
<1>1. charge["calls"] = 1
  BY BudgetAssumption DEF TransportCharge, Zero, Meters
<1>2. attempts[s] > 0
  BY DEF TypeOK
<1>3. Recorded(s)'["calls"] = Recorded(s)["calls"] + 1
  <2>1. pending'[s] = Plus(pending[s], charge)
    BY DEF Pay, TypeOK
  <2>2. pending'[s]["calls"] = pending[s]["calls"] + 1
    BY <1>1, <2>1, CallsIsMeter DEF Plus
  <2>3. Recorded(s)'["calls"] = written[s]["calls"] + pending'[s]["calls"]
    BY CallsIsMeter DEF Recorded, Plus
  <2> QED BY <2>2, <2>3, RecordedUsage, CallsIsMeter
<1>4. \A r \in Sessions : r # s => Recorded(r)' = Recorded(r)
  BY PayTyped DEF Recorded, Plus
<1>5. CallsOf' = [CallsOf EXCEPT ![s] = CallsOf[s] + 1]
  BY <1>3, <1>4 DEF CallsOf
<1> QED BY <1>2, <1>5 DEF CallMeter!Use, CallsOf

LEMMA MeterNext ==
    ASSUME Budget["calls"] > 0, TypeOK, OwnRowsInLedger, [Next]_vars
    PROVE  [CallMeter!Next]_(CallMeter!meterVars)
<1> USE DEF CallMeter!Next, CallMeter!meterVars
<1>1. ASSUME UNCHANGED <<written, pending, attempts>>
      PROVE  UNCHANGED CallMeter!meterVars
  BY <1>1 DEF Recorded, Plus
<1>2. CASE Midnight
  <2>1. CallsOf' = [s \in Sessions |-> 0]
    BY <1>2, ZeroUsage, PlusUsage, CallsIsMeter DEF Midnight, CallsOf, Recorded
  <2>2. CallMeter!NewDay
    BY <1>2, <2>1 DEF Midnight, CallMeter!NewDay, CallsOf
  <2> QED BY <2>2
<1>3. ASSUME NEW s \in Sessions, StartCall(s) PROVE CallMeter!Grant(s)
  <2>1. attempts[s] = 0
    BY <1>3 DEF StartCall, TypeOK
  <2>2. ~(Visible(s)["calls"] >= Budget["calls"])
    BY <1>3, CallsIsMeter DEF StartCall, Exhausted, Capped
  <2>3. Recorded(s)["calls"] < Budget["calls"]
    BY <2>2, RecordedUsage, CallsIsMeter, BudgetAssumption DEF OwnRowsInLedger, Usage
  <2>4. CallsOf' = CallsOf
    BY <1>3 DEF StartCall, CallsOf, Recorded, Plus
  <2> QED BY <1>3, <2>1, <2>3, <2>4 DEF StartCall, CallMeter!Grant, CallsOf
<1>4. ASSUME NEW s \in Sessions, NEW charge \in ReplyCharges \cup {TransportCharge},
             FailAttempt(s, charge)
      PROVE  CallMeter!Use(s)
  BY <1>4, AttemptIsUse DEF FailAttempt
<1>5. ASSUME NEW s \in Sessions, ValidReply(s) PROVE CallMeter!Use(s)
  BY <1>5, AttemptIsUse DEF ValidReply
<1>6. ASSUME NEW s \in Sessions, CommitSession(s) PROVE UNCHANGED CallMeter!meterVars
  <2>1. ASSUME NEW r \in Sessions PROVE Recorded(r)'["calls"] = Recorded(r)["calls"]
    <3>1. CASE r = s
      <4>1. written'[r] = Plus(written[r], pending[r]) /\ pending'[r] = Zero
        BY <1>6, <3>1 DEF CommitSession, TypeOK
      <4>2. Recorded(r)'["calls"] = written'[r]["calls"] + pending'[r]["calls"]
        BY CallsIsMeter DEF Recorded, Plus
      <4>3. written'[r]["calls"] = written[r]["calls"] + pending[r]["calls"]
        BY <4>1, CallsIsMeter DEF Plus
      <4>4. pending'[r]["calls"] = 0
        BY <4>1, ZeroUsage, CallsIsMeter
      <4> QED BY <4>2, <4>3, <4>4, RecordedUsage, CallsIsMeter
    <3>2. CASE r # s
      BY <1>6, <3>2 DEF CommitSession, TypeOK, Recorded, Plus
    <3> QED BY <3>1, <3>2
  <2> QED BY <1>6, <2>1 DEF CommitSession
<1>7. ASSUME NEW s \in Sessions, RollbackSession(s) PROVE CallMeter!Forget(s)
  <2>1. Recorded(s)'["calls"] = written[s]["calls"]
    <3>1. Recorded(s)'["calls"] = written[s]["calls"] + pending'[s]["calls"]
      BY <1>7, CallsIsMeter DEF RollbackSession, Recorded, Plus
    <3>2. pending'[s]["calls"] = 0
      BY <1>7, ZeroUsage, CallsIsMeter DEF RollbackSession, TypeOK
    <3> QED BY <3>1, <3>2, RecordedUsage, CallsIsMeter
  <2>2. written[s]["calls"] \in 0 .. Recorded(s)["calls"]
    BY RecordedUsage, CallsIsMeter
  <2>3. \A r \in Sessions : r # s => Recorded(r)' = Recorded(r)
    BY <1>7 DEF RollbackSession, TypeOK, Recorded, Plus
  <2>4. CallsOf' = [CallsOf EXCEPT ![s] = written[s]["calls"]]
    BY <2>1, <2>3 DEF CallsOf
  <2> QED BY <1>7, <2>2, <2>4 DEF RollbackSession, CallMeter!Forget, CallsOf
<1>8. CASE UNCHANGED vars
  BY <1>1, <1>8 DEF vars
<1>9. ASSUME NEW s \in Sessions, OpenSession(s) \/ RefuseCall(s)
      PROVE  UNCHANGED CallMeter!meterVars
  BY <1>1, <1>9 DEF OpenSession, RefuseCall
<1> QED BY <1>2, <1>3, <1>4, <1>5, <1>6, <1>7, <1>8, <1>9
        DEF Next, TransportError, InvalidReply

(* Under a positive call cap, the meter of calls implements the permit     *)
(* scheme, session by session (client.py:113-131, 195, 215).               *)
THEOREM Refinement ==
    ASSUME Budget["calls"] > 0
    PROVE  Spec => ImplementsCallMeter
<1>1. OvershootInv => TypeOK /\ OwnRowsInLedger
  BY DEF OvershootInv
<1>2. OvershootInv /\ [Next]_vars => [CallMeter!Next]_(CallMeter!meterVars)
  BY <1>1, MeterNext
<1> QED BY <1>2, MeterInit, OvershootInit, OvershootNext, PTL
        DEF Spec, ImplementsCallMeter, CallMeter!Spec

-----------------------------------------------------------------------------
\* The provider rate limiter.
Asleep == [step : {"asleep"}, since : Nat, wake : Int]
Sent   == [step : {"sent"}, since : Nat, window : Int, at : Nat]

\* What AnsweredByDeadline reads, and the windows it depends on.
CallTypes ==
    /\ now \in Nat
    /\ local \in [Procs -> [count : Nat, start : Nat]]
    /\ call \in [Callers -> {Idle} \cup Asleep \cup Sent]

\* Nobody sleeps past the deadline.
AlarmInTime ==
    \A c \in Callers : call[c].step = "asleep" =>
        now <= Deadline(c) /\ call[c].wake <= Deadline(c)

\* Nobody asks Redis after the deadline, or waits for it longer than Delay.
SentInTime ==
    \A c \in Callers : call[c].step = "sent" =>
        call[c].at <= Deadline(c) /\ now <= call[c].at + Delay

WaitInv == CallTypes /\ AlarmInTime /\ SentInTime

-----------------------------------------------------------------------------
(* The shorter of two times. *)
LEMMA MinOfTwo ==
    ASSUME NEW a \in Int, NEW b \in Int
    PROVE  Min({a, b}) \in Int /\ Min({a, b}) <= a
<1> DEFINE IsMin(x) == x \in {a, b} /\ \A y \in {a, b} : x <= y
<1>1. \E x : IsMin(x)
  <2>1. CASE a <= b
    BY <2>1
  <2>2. CASE b <= a
    BY <2>2
  <2> QED BY <2>1, <2>2
<1>2. Min({a, b}) = CHOOSE x \in {a, b} : \A y \in {a, b} : x <= y
  BY DEF Min
<1>3. IsMin(Min({a, b}))
  BY <1>1, <1>2
<1> QED BY <1>3

(* What a thread is in the middle of, by its step. *)
LEMMA StepType ==
    ASSUME CallTypes, NEW c \in Callers
    PROVE  /\ call[c].step = "asleep" => call[c] \in Asleep
           /\ call[c].step = "sent" => call[c] \in Sent
           /\ call[c] # Idle => call[c].step \in {"asleep", "sent"}
BY DEF CallTypes, Asleep, Sent, Idle

(* A call that touches only thread c leaves the other threads as they are. *)
LEMMA OthersWait ==
    ASSUME WaitInv, now' = now, NEW c \in Callers,
           NEW next \in {Idle} \cup Asleep \cup Sent,
           call' = [call EXCEPT ![c] = next],
           next.step = "asleep" => now <= next.since + MaxWait /\ next.wake <= next.since + MaxWait,
           next.step = "sent" => next.at <= next.since + MaxWait /\ now <= next.at + Delay
    PROVE  AlarmInTime' /\ SentInTime' /\ call' \in [Callers -> {Idle} \cup Asleep \cup Sent]
<1>1. call'[c] = next /\ \A d \in Callers \ {c} : call'[d] = call[d]
  BY DEF WaitInv, CallTypes
<1>2. call' \in [Callers -> {Idle} \cup Asleep \cup Sent]
  BY DEF WaitInv, CallTypes
<1>3. AlarmInTime'
  <2> SUFFICES ASSUME NEW d \in Callers, call'[d].step = "asleep"
               PROVE  now <= call'[d].since + MaxWait /\ call'[d].wake <= call'[d].since + MaxWait
    BY DEF AlarmInTime, Deadline
  <2>1. CASE d = c
    BY <1>1, <2>1
  <2>2. CASE d # c
    BY <1>1, <2>2 DEF WaitInv, AlarmInTime, Deadline
  <2> QED BY <2>1, <2>2
<1>4. SentInTime'
  <2> SUFFICES ASSUME NEW d \in Callers, call'[d].step = "sent"
               PROVE  call'[d].at <= call'[d].since + MaxWait /\ now <= call'[d].at + Delay
    BY DEF SentInTime, Deadline
  <2>1. CASE d = c
    BY <1>1, <2>1
  <2>2. CASE d # c
    BY <1>1, <2>2 DEF WaitInv, SentInTime, Deadline
  <2> QED BY <2>1, <2>2
<1> QED BY <1>2, <1>3, <1>4

(* A call that is let through ends the wait. *)
LEMMA AdmitKeeps ==
    ASSUME WaitInv, now' = now, NEW c \in Callers, Admit(c)
    PROVE  AlarmInTime' /\ SentInTime' /\ call' \in [Callers -> {Idle} \cup Asleep \cup Sent]
<1>1. Idle.step \notin {"asleep", "sent"}
  BY DEF Idle
<1> QED BY <1>1, OthersWait DEF Admit

(* A denied call gives up or sleeps no longer than to its deadline. *)
LEMMA DenyKeeps ==
    ASSUME WaitInv, now' = now, NEW c \in Callers, call[c].step \in {"asleep", "sent"},
           NEW retryAfter \in Nat, Deny(c, retryAfter)
    PROVE  AlarmInTime' /\ SentInTime' /\ call' \in [Callers -> {Idle} \cup Asleep \cup Sent]
<1> DEFINE wake == now + Min({retryAfter, Nap})
           rest == [step |-> "asleep", since |-> call[c].since, wake |-> wake]
<1>1. now \in Nat /\ call[c].since \in Nat /\ Nap \in Int /\ MaxWait \in Nat
  BY StepType, TimeAssumption DEF WaitInv, CallTypes, Asleep, Sent
<1>2. Min({retryAfter, Nap}) \in Int /\ Min({retryAfter, Nap}) <= retryAfter
  BY <1>1, MinOfTwo
<1>3. CASE now + retryAfter > Deadline(c)
  <2>1. Idle.step \notin {"asleep", "sent"}
    BY DEF Idle
  <2>2. call' = [call EXCEPT ![c] = Idle]
    BY <1>3 DEF Deny
  <2> QED BY <2>1, <2>2, OthersWait
<1>4. CASE ~(now + retryAfter > Deadline(c))
  <2>1. call' = [call EXCEPT ![c] = rest]
    BY <1>4 DEF Deny
  <2>2. now + retryAfter <= call[c].since + MaxWait
    BY <1>1, <1>4 DEF Deadline
  <2>3. rest \in Asleep
    BY <1>1, <1>2 DEF Asleep
  <2>4. now <= rest.since + MaxWait /\ rest.wake <= rest.since + MaxWait
    BY <1>1, <1>2, <2>2
  <2>5. rest.step # "sent"
    OBVIOUS
  <2> HIDE DEF rest
  <2> QED BY <2>1, <2>3, <2>4, <2>5, OthersWait
<1> QED BY <1>3, <1>4

(* A try in the window of the process. *)
LEMMA AcquireLocalKeeps ==
    ASSUME WaitInv, now' = now, NEW c \in Callers, call[c].step \in {"asleep", "sent"},
           AcquireLocal(c)
    PROVE  WaitInv'
<1> DEFINE p     == ProcessOf[c]
           fresh == local[p].count = 0 \/ now - local[p].start >= Window
           count == IF fresh THEN 0 ELSE local[p].count
           start == IF fresh THEN now ELSE local[p].start
<1>1. p \in Procs /\ Window \in Nat \ {0} /\ now \in Nat
      /\ local[p] \in [count : Nat, start : Nat]
  BY ThreadsAssumption, LimitAssumption DEF WaitInv, CallTypes
<1>2. count \in Nat /\ start \in Nat
  BY <1>1
<1>3. CASE count >= Limit
  <2>1. Deny(c, Window - (now - start)) /\ UNCHANGED local
    BY <1>3 DEF AcquireLocal
  <2>2. Window - (now - start) \in Nat
    BY <1>1
  <2> QED BY <2>1, <2>2, DenyKeeps DEF WaitInv, CallTypes
<1>4. CASE ~(count >= Limit)
  <2>1. Admit(c) /\ local' = [local EXCEPT ![p] = [count |-> count + 1, start |-> start]]
    BY <1>4 DEF AcquireLocal
  <2>2. local' \in [Procs -> [count : Nat, start : Nat]]
    BY <1>1, <1>2, <2>1 DEF WaitInv, CallTypes
  <2> QED BY <2>1, <2>2, AdmitKeeps DEF WaitInv, CallTypes
<1> QED BY <1>3, <1>4

-----------------------------------------------------------------------------
LEMMA WaitInit == LimiterInit => WaitInv
<1> SUFFICES ASSUME LimiterInit PROVE WaitInv
  OBVIOUS
<1>1. \A c \in Callers : call[c] = Idle
  BY DEF LimiterInit
<1>2. Idle.step \notin {"asleep", "sent"}
  BY DEF Idle
<1>3. CallTypes
  BY DEF LimiterInit, CallTypes, Unused
<1> QED BY <1>1, <1>2, <1>3 DEF WaitInv, AlarmInTime, SentInTime

LEMMA WaitNext == WaitInv /\ [LimiterNext]_limiterVars => WaitInv'
<1> SUFFICES ASSUME WaitInv, [LimiterNext]_limiterVars PROVE WaitInv'
  OBVIOUS
<1> USE TimeAssumption
<1>1. ASSUME NEW c \in Callers, Ask(c) PROVE WaitInv'
  <2> DEFINE asked == [step |-> "asleep", since |-> now, wake |-> now]
  <2>1. asked \in Asleep /\ now <= asked.since + MaxWait /\ asked.wake <= asked.since + MaxWait
    BY DEF WaitInv, CallTypes, Asleep
  <2>2. asked.step # "sent" /\ call' = [call EXCEPT ![c] = asked]
    BY <1>1 DEF Ask
  <2>3. now' = now /\ local' = local
    BY <1>1 DEF Ask
  <2> HIDE DEF asked
  <2> QED BY <2>1, <2>2, <2>3, OthersWait DEF WaitInv, CallTypes
<1>2. ASSUME NEW c \in Callers, TryLocal(c) PROVE WaitInv'
  BY <1>2, AcquireLocalKeeps DEF TryLocal, Due
<1>3. ASSUME NEW c \in Callers, Send(c) PROVE WaitInv'
  <2> DEFINE sent == [step |-> "sent", since |-> call[c].since,
                      window |-> now \div Window, at |-> now]
  <2>1. call[c].step = "asleep" /\ call[c] \in Asleep
    BY <1>3, StepType DEF Send, Due, WaitInv
  <2>2. now \div Window \in Int
    BY LimitAssumption DEF WaitInv, CallTypes
  <2>3. sent \in Sent
    BY <2>1, <2>2 DEF WaitInv, CallTypes, Asleep, Sent
  <2>4. sent.at <= sent.since + MaxWait /\ now <= sent.at + Delay
    BY <2>1 DEF WaitInv, CallTypes, AlarmInTime, Deadline
  <2>5. sent.step # "asleep" /\ call' = [call EXCEPT ![c] = sent]
    BY <1>3 DEF Send
  <2>6. now' = now /\ local' = local
    BY <1>3 DEF Send
  <2> HIDE DEF sent
  <2> QED BY <2>3, <2>4, <2>5, <2>6, OthersWait DEF WaitInv, CallTypes
<1>4. ASSUME NEW c \in Callers, Counted(c) PROVE WaitInv'
  <2>1. call[c].step = "sent" /\ now' = now /\ local' = local
    BY <1>4 DEF Counted
  <2>2. CASE OverBudget(counter[call[c].window].count + 1)
    <3>1. Deny(c, Window - (now % Window))
      BY <1>4, <2>2 DEF Counted
    <3>2. Window - (now % Window) \in Nat
      BY LimitAssumption DEF WaitInv, CallTypes
    <3> QED BY <2>1, <3>1, <3>2, DenyKeeps DEF WaitInv, CallTypes
  <2>3. CASE ~OverBudget(counter[call[c].window].count + 1)
    BY <1>4, <2>1, <2>3, AdmitKeeps DEF Counted, WaitInv, CallTypes
  <2> QED BY <2>2, <2>3
<1>5. ASSUME NEW c \in Callers, RedisFails(c) PROVE WaitInv'
  BY <1>5, AcquireLocalKeeps DEF RedisFails
<1>6. ASSUME NEW p \in Procs, Restart(p) PROVE WaitInv'
  <2>1. now' = now /\ local' = [local EXCEPT ![p] = Unused]
        /\ call' = [c \in Callers |-> IF ProcessOf[c] = p THEN Idle ELSE call[c]]
    BY <1>6 DEF Restart
  <2>2. CallTypes'
    BY <2>1 DEF WaitInv, CallTypes, Unused
  <2>3. \A c \in Callers : call'[c] = Idle \/ call'[c] = call[c]
    BY <2>1
  <2>4. Idle.step \notin {"asleep", "sent"}
    BY DEF Idle
  <2> QED BY <2>1, <2>2, <2>3, <2>4 DEF WaitInv, AlarmInTime, SentInTime, Deadline
<1>7. ASSUME Tick PROVE WaitInv'
  <2>1. now' = now + 1 /\ local' = local /\ call' = call
    BY <1>7 DEF Tick
  <2>2. CallTypes'
    BY <2>1 DEF WaitInv, CallTypes
  <2>3. AlarmInTime'
    <3> SUFFICES ASSUME NEW c \in Callers, call[c].step = "asleep"
                 PROVE  now + 1 <= call[c].since + MaxWait
                        /\ call[c].wake <= call[c].since + MaxWait
      BY <2>1 DEF AlarmInTime, Deadline
    <3>1. call[c] \in Asleep /\ now \in Nat
      BY StepType DEF WaitInv, CallTypes
    <3>2. ~(call[c].wake <= now)
      BY <1>7 DEF Tick, Due
    <3>3. call[c].wake <= call[c].since + MaxWait
      BY DEF WaitInv, AlarmInTime, Deadline
    <3> QED BY <3>1, <3>2, <3>3 DEF Asleep
  <2>4. SentInTime'
    <3> SUFFICES ASSUME NEW c \in Callers, call[c].step = "sent"
                 PROVE  call[c].at <= call[c].since + MaxWait /\ now + 1 <= call[c].at + Delay
      BY <2>1 DEF SentInTime, Deadline
    <3>1. call[c] \in Sent /\ now \in Nat
      BY StepType DEF WaitInv, CallTypes
    <3>2. now < call[c].at + Delay
      BY <1>7 DEF Tick
    <3>3. call[c].at <= call[c].since + MaxWait
      BY DEF WaitInv, SentInTime, Deadline
    <3> QED BY <3>1, <3>2, <3>3 DEF Sent
  <2> QED BY <2>2, <2>3, <2>4 DEF WaitInv
<1>8. CASE UNCHANGED limiterVars
  BY <1>8 DEF limiterVars, WaitInv, CallTypes, AlarmInTime, SentInTime, Deadline
<1> QED BY <1>1, <1>2, <1>3, <1>4, <1>5, <1>6, <1>7, <1>8 DEF LimiterNext

LEMMA WaitAnswered == WaitInv => AnsweredByDeadline
<1> SUFFICES ASSUME WaitInv, NEW c \in Callers, call[c] # Idle
             PROVE  now <= call[c].since + MaxWait + Delay
  BY DEF AnsweredByDeadline
<1>1. call[c] \in Asleep \/ call[c] \in Sent
  BY StepType DEF WaitInv
<1>2. now \in Nat /\ MaxWait \in Nat /\ Delay \in Nat
  BY TimeAssumption DEF WaitInv, CallTypes
<1>3. CASE call[c] \in Asleep
  BY <1>2, <1>3 DEF WaitInv, AlarmInTime, Deadline, Asleep
<1>4. CASE call[c] \in Sent
  BY <1>2, <1>4 DEF WaitInv, SentInTime, Deadline, Sent
<1> QED BY <1>1, <1>3, <1>4

(* A caller that waits for the budget has an answer by its deadline and    *)
(* the last round trip (rate_limit.py:120-135), for any budgets, numbers   *)
(* of threads, failures and restarts.                                      *)
THEOREM AnsweredInTime == LimiterSpec => []AnsweredByDeadline
<1>1. WaitInv => AnsweredByDeadline
  BY WaitAnswered
<1> QED BY WaitInit, WaitNext, <1>1, PTL DEF LimiterSpec

-----------------------------------------------------------------------------
(* What a provider sees.  The calls that still count are found in slots:   *)
(* those of Redis, Limit for each window it counted, and those of the      *)
(* lapses, each with two windows that a process counted by itself, the     *)
(* current one and the one before.  Of the one before, the first call no   *)
(* longer counts when the current one begins: hence one less than twice    *)
(* the limit.  Which slot holds which call is in no variable of the model, *)
(* so the invariant says that there is such an account of them.            *)

\* A call at x is in the window's length up to now.
Counts(x) == x + Window > now

SharedSlots == Times \X (1 .. Limit)

OwnSlots == (1 .. MaxFaults) \X ({0, 1} \X (1 .. Limit))

\* The slots that hold a call at t.
CallsAt(at, t) == {s \in DOMAIN at : at[s] = t}

\* A request under way was named after the window it was sent in.
SentNamed ==
    \A c \in Callers : call[c].step = "sent" =>
        call[c].at <= now /\ call[c].window = call[c].at \div Window

BurstTypes ==
    /\ now \in Times
    /\ counter \in [Times -> [count : Nat, expires : Nat]]
    /\ failed \subseteq Procs
    /\ faults \in 0 .. MaxFaults
    /\ lapses \in 0 .. faults
    /\ admitted \in [Times -> Nat]
    /\ SentNamed

\* A call counted in window k was sent in it, and its slot is below the count.
NamedInTime(k, x) == \E sent \in Times : k = sent \div Window /\ sent <= x /\ x <= sent + Delay

SharedFits(shared) ==
    /\ shared \in [SharedSlots -> Int]
    /\ \A k \in Times, n \in 1 .. Limit : Counts(shared[<<k, n>>]) =>
           /\ shared[<<k, n>>] <= now
           /\ n <= counter[k].count
           /\ shared[<<k, n>>] + Window <= counter[k].expires
           /\ NamedInTime(k, shared[<<k, n>>])

\* The slots of lapse i, when its process counts in window w, in the slots b.
WindowFits(own, i, b, w) ==
    /\ w.count \in 1 .. Limit
    /\ w.start <= now
    /\ own[<<i, <<b, 1>>>>] <= w.start
    /\ \A n \in 1 .. Limit :
           /\ n > w.count => ~Counts(own[<<i, <<b, n>>>>])
           /\ own[<<i, <<1 - b, n>>>>] <= w.start

LapsesApart(lapseOf) ==
    /\ lapseOf \in [Procs -> Int]
    /\ \A p \in failed : lapseOf[p] \in 1 .. lapses
    /\ \A p, q \in failed : p # q => lapseOf[p] # lapseOf[q]

OwnFits(own, lapseOf, turn) ==
    /\ own \in [OwnSlots -> Int]
    /\ turn \in [1 .. MaxFaults -> {0, 1}]
    /\ LapsesApart(lapseOf)
    /\ \A i \in 1 .. MaxFaults, b \in {0, 1}, n \in 1 .. Limit :
           /\ own[<<i, <<b, n>>>>] <= now
           /\ i > lapses => ~Counts(own[<<i, <<b, n>>>>])
    /\ \A i \in 1 .. MaxFaults : ~Counts(own[<<i, <<1 - turn[i], 1>>>>])
    /\ \A p \in Procs \ failed : local[p] = Unused
    /\ \A p \in failed : WindowFits(own, lapseOf[p], turn[lapseOf[p]], local[p])

AllInSlots(shared, own) ==
    \A t \in Times : admitted[t] =
        IF Counts(t) THEN Cardinality(CallsAt(shared, t)) + Cardinality(CallsAt(own, t)) ELSE 0

Accounted ==
    \E shared, own, lapseOf, turn :
        SharedFits(shared) /\ OwnFits(own, lapseOf, turn) /\ AllInSlots(shared, own)

BurstInv == WaitInv /\ BurstTypes /\ Accounted

-----------------------------------------------------------------------------
LEMMA SlotsFinite == IsFiniteSet(SharedSlots) /\ IsFiniteSet(OwnSlots) /\ IsFiniteSet(Times)
<1>1. IsFiniteSet(Times) /\ IsFiniteSet(1 .. Limit) /\ IsFiniteSet(1 .. MaxFaults)
  BY FS_Interval, TimeAssumption, LimitAssumption DEF Times
<1>2. IsFiniteSet({0, 1})
  <2>1. IsFiniteSet({0}) /\ {0, 1} = {0} \cup {1}
    BY FS_Singleton
  <2> QED BY <2>1, FS_AddElement
<1>3. IsFiniteSet({0, 1} \X (1 .. Limit))
  BY <1>1, <1>2, FS_Product
<1> QED BY <1>1, <1>3, FS_Product DEF SharedSlots, OwnSlots

(* A call put into a slot that held none of its time. *)
LEMMA SlotTaken ==
    ASSUME NEW S, IsFiniteSet(S), NEW at \in [S -> Int], NEW x \in S, NEW v \in Int, at[x] # v,
           NEW next \in [S -> Int], next[x] = v, \A s \in S \ {x} : next[s] = at[s]
    PROVE  /\ Cardinality(CallsAt(next, v)) = Cardinality(CallsAt(at, v)) + 1
           /\ \A t \in Int : t # v /\ t # at[x] => CallsAt(next, t) = CallsAt(at, t)
<1>1. CallsAt(next, v) = CallsAt(at, v) \cup {x} /\ x \notin CallsAt(at, v)
  BY DEF CallsAt
<1>2. IsFiniteSet(CallsAt(at, v))
  BY FS_Subset DEF CallsAt
<1>3. \A t \in Int : t # v /\ t # at[x] => CallsAt(next, t) = CallsAt(at, t)
  BY DEF CallsAt
<1> QED BY <1>1, <1>2, <1>3, FS_AddElement

LEMMA SlotsCounted ==
    ASSUME NEW S, IsFiniteSet(S), NEW at \in [S -> Int], NEW t
    PROVE  Cardinality(CallsAt(at, t)) \in Nat
<1>1. IsFiniteSet(CallsAt(at, t))
  BY FS_Subset DEF CallsAt
<1> QED BY <1>1, FS_CardinalityType

(* A call that is let through, into a slot whose call no longer counts. *)
LEMMA AdmittedIntoSlot ==
    ASSUME BurstTypes, now' = now, NEW c, Admit(c),
           NEW S, IsFiniteSet(S), NEW at \in [S -> Int], NEW x \in S, ~Counts(at[x]),
           NEW T, IsFiniteSet(T), NEW other \in [T -> Int], AllInSlots(at, other),
           NEW next, next = [at EXCEPT ![x] = now]
    PROVE  AllInSlots(next, other)' /\ AllInSlots(other, next)'
<1>1. now \in Times /\ now \in Int /\ Window \in Nat \ {0} /\ Counts(now) /\ at[x] \in Int
  BY LimitAssumption, TimeAssumption DEF BurstTypes, Times, Counts
<1>2. admitted'[now] = admitted[now] + 1 /\ \A t \in Times \ {now} : admitted'[t] = admitted[t]
  BY <1>1 DEF BurstTypes, Admit
<1>3. \A t \in Times : Counts(t)' = Counts(t)
  BY DEF Counts
<1>4. \A t \in Times : Counts(t) => t # at[x]
  OBVIOUS
<1>5. at[x] # now
  BY <1>1, <1>4
<1>6. next \in [S -> Int]
  BY <1>1
<1>7. /\ Cardinality(CallsAt(next, now)) = Cardinality(CallsAt(at, now)) + 1
      /\ \A t \in Int : t # now /\ t # at[x] => CallsAt(next, t) = CallsAt(at, t)
  <2>1. /\ now \in Int /\ at[x] # now
        /\ next \in [S -> Int] /\ next[x] = now /\ \A s \in S \ {x} : next[s] = at[s]
    BY <1>1, <1>5
  <2>2. IsFiniteSet(S) /\ at \in [S -> Int] /\ x \in S
    OBVIOUS
  <2> QED BY ONLY <2>1, <2>2, SlotTaken
<1>8. \A t \in Times : /\ Cardinality(CallsAt(at, t)) \in Nat
                       /\ Cardinality(CallsAt(next, t)) \in Nat
                       /\ Cardinality(CallsAt(other, t)) \in Nat
  BY <1>6, SlotsCounted
<1>9. ASSUME NEW t \in Times
      PROVE  /\ admitted'[t] = IF Counts(t)
                    THEN Cardinality(CallsAt(next, t)) + Cardinality(CallsAt(other, t)) ELSE 0
             /\ admitted'[t] = IF Counts(t)
                    THEN Cardinality(CallsAt(other, t)) + Cardinality(CallsAt(next, t)) ELSE 0
  <2>1. CASE t = now
    BY <1>1, <1>2, <1>7, <1>8, <2>1 DEF AllInSlots
  <2>2. CASE t # now
    <3>1. t \in Int
      BY TimeAssumption DEF Times
    <3>2. Counts(t) => CallsAt(next, t) = CallsAt(at, t)
      BY <1>4, <1>7, <2>2, <3>1
    <3> QED BY <1>2, <1>8, <2>2, <3>2 DEF AllInSlots
  <2> QED BY <2>1, <2>2
<1> QED BY <1>3, <1>9 DEF AllInSlots

LEMMA EitherOrder ==
    ASSUME NEW S, IsFiniteSet(S), NEW at \in [S -> Int],
           NEW T, IsFiniteSet(T), NEW other \in [T -> Int], AllInSlots(at, other)
    PROVE  AllInSlots(other, at)
<1>1. \A t \in Times : Cardinality(CallsAt(at, t)) \in Nat /\ Cardinality(CallsAt(other, t)) \in Nat
  BY SlotsCounted
<1> QED BY <1>1 DEF AllInSlots

-----------------------------------------------------------------------------
\* next is f but for its value at x.
Put(f, x, v, next) == next = [f EXCEPT ![x] = v]

\* The slot a process takes next: the m-th of lapse i's window in the slots b.
Vacant(own, lapseOf, p, i, b, m, start) ==
    /\ i \in 1 .. MaxFaults /\ b \in {0, 1} /\ m \in 1 .. Limit
    /\ start \in Int /\ start <= now
    /\ i <= lapses'
    /\ \A q \in failed \ {p} : lapseOf[q] # i
    /\ \A n \in 1 .. Limit : n >= m => ~Counts(own[<<i, <<b, n>>>>])
    /\ IF m = 1 THEN start = now ELSE own[<<i, <<b, 1>>>>] <= start
    /\ \A n \in 1 .. Limit : own[<<i, <<1 - b, n>>>>] <= start
    /\ ~Counts(own[<<i, <<1 - b, 1>>>>])

(* A call that a process counts itself, in the slot it takes next. *)
LEMMA OwnCall ==
    ASSUME BurstTypes, now' = now, NEW p \in Procs,
           NEW own, NEW lapseOf, NEW turn, OwnFits(own, lapseOf, turn),
           NEW i, NEW b, NEW m, NEW start, Vacant(own, lapseOf, p, i, b, m, start),
           local \in [Procs -> [count : Nat, start : Nat]],
           Put(local, p, [count |-> m, start |-> start], local'),
           failed' = failed \cup {p},
           lapses' \in Int, lapses <= lapses',
           NEW next, Put(own, <<i, <<b, m>>>>, now, next),
           NEW lapseOf2, Put(lapseOf, p, i, lapseOf2),
           NEW turn2, Put(turn, i, b, turn2)
    PROVE  OwnFits(next, lapseOf2, turn2)'
<1>a. /\ i \in 1 .. MaxFaults /\ b \in {0, 1} /\ m \in 1 .. Limit
      /\ start \in Int /\ start <= now /\ i <= lapses'
      /\ \A q \in failed \ {p} : lapseOf[q] # i
      /\ \A n \in 1 .. Limit : n >= m => ~Counts(own[<<i, <<b, n>>>>])
      /\ IF m = 1 THEN start = now ELSE own[<<i, <<b, 1>>>>] <= start
      /\ \A n \in 1 .. Limit : own[<<i, <<1 - b, n>>>>] <= start
      /\ ~Counts(own[<<i, <<1 - b, 1>>>>])
  BY DEF Vacant
<1>b. /\ next \in [OwnSlots -> Int] /\ next[<<i, <<b, m>>>>] = now
      /\ \A s \in OwnSlots : s # <<i, <<b, m>>>> => next[s] = own[s]
  <2>1. <<i, <<b, m>>>> \in OwnSlots
    BY <1>a DEF OwnSlots
  <2>2. now \in Int
    BY TimeAssumption DEF BurstTypes, Times
  <2> HIDE DEF OwnSlots
  <2> QED BY <2>1, <2>2 DEF OwnFits, Put
<1>c. /\ local' = [local EXCEPT ![p] = [count |-> m, start |-> start]]
      /\ lapseOf2 = [lapseOf EXCEPT ![p] = i]
      /\ turn2 = [turn EXCEPT ![i] = b]
  BY DEF Put
<1> USE <1>a, <1>b, <1>c
<1>1. now \in Int /\ Window \in Nat \ {0} /\ Limit \in Nat \ {0} /\ lapses \in Nat /\ MaxFaults \in Nat
  BY LimitAssumption, TimeAssumption DEF BurstTypes, Times
<1>2. \A x : Counts(x)' = Counts(x)
  BY DEF Counts
<1>3. ASSUME NEW j \in 1 .. MaxFaults, NEW c \in {0, 1}, NEW n \in 1 .. Limit
      PROVE  /\ <<j, <<c, n>>>> \in OwnSlots
             /\ next[<<j, <<c, n>>>>] = IF j = i /\ c = b /\ n = m THEN now ELSE own[<<j, <<c, n>>>>]
             /\ own[<<j, <<c, n>>>>] \in Int
  BY DEF OwnSlots, OwnFits
<1>4. turn2 \in [1 .. MaxFaults -> {0, 1}] /\ turn2[i] = b
      /\ \A j \in 1 .. MaxFaults : j # i => turn2[j] = turn[j]
  BY DEF OwnFits
<1>5. \A c \in {0, 1} : 1 - c \in {0, 1} /\ 1 - c # c
  OBVIOUS
<1>6. LapsesApart(lapseOf2)'
  <2>1. LapsesApart(lapseOf)
    BY DEF OwnFits
  <2>2. /\ lapseOf2 \in [Procs -> Int] /\ lapseOf2[p] = i
        /\ \A q \in Procs : q # p => lapseOf2[q] = lapseOf[q]
    BY <2>1 DEF LapsesApart
  <2>3. \A q \in failed : q \in Procs /\ lapseOf[q] \in 1 .. lapses
    BY <2>1 DEF LapsesApart, BurstTypes
  <2>4. \A q \in failed' : q # p => q \in failed /\ q \in Procs
    BY <2>3
  <2>5. \A q \in failed' : lapseOf2[q] \in 1 .. lapses'
    BY <1>1, <2>2, <2>3, <2>4
  <2>6. ASSUME NEW q \in failed', NEW r \in failed', q # r
        PROVE  lapseOf2[q] # lapseOf2[r]
    <3>1. CASE q = p
      BY <2>2, <2>4, <2>6, <3>1
    <3>2. CASE r = p
      BY <2>2, <2>4, <2>6, <3>2
    <3>3. CASE q # p /\ r # p
      BY <2>1, <2>2, <2>4, <2>6, <3>3 DEF LapsesApart
    <3> QED BY <3>1, <3>2, <3>3
  <2> QED BY <2>2, <2>5, <2>6 DEF LapsesApart
<1>7. \A j \in 1 .. MaxFaults, c \in {0, 1}, n \in 1 .. Limit :
          /\ next[<<j, <<c, n>>>>] <= now
          /\ j > lapses' => ~Counts(next[<<j, <<c, n>>>>])
  <2>1. ASSUME NEW j \in 1 .. MaxFaults, NEW c \in {0, 1}, NEW n \in 1 .. Limit
        PROVE  /\ own[<<j, <<c, n>>>>] <= now
               /\ j > lapses => ~Counts(own[<<j, <<c, n>>>>])
    BY DEF OwnFits
  <2>2. ASSUME NEW j \in 1 .. MaxFaults, NEW c \in {0, 1}, NEW n \in 1 .. Limit
        PROVE  /\ next[<<j, <<c, n>>>>] <= now
               /\ j > lapses' => ~Counts(next[<<j, <<c, n>>>>])
    <3>1. CASE j = i /\ c = b /\ n = m
      <4>1. next[<<j, <<c, n>>>>] = now
        BY <1>3, <3>1
      <4> QED BY <1>1, <3>1, <4>1
    <3>2. CASE ~(j = i /\ c = b /\ n = m)
      <4>1. next[<<j, <<c, n>>>>] = own[<<j, <<c, n>>>>]
        BY <1>3, <3>2
      <4>2. j > lapses' => j > lapses
        BY <1>1
      <4> QED BY <2>1, <4>1, <4>2
    <3> QED BY <3>1, <3>2
  <2> QED BY <2>2
<1>8. \A j \in 1 .. MaxFaults : ~Counts(next[<<j, <<1 - turn2[j], 1>>>>])
  <2> SUFFICES ASSUME NEW j \in 1 .. MaxFaults
               PROVE  ~Counts(next[<<j, <<1 - turn2[j], 1>>>>])
    OBVIOUS
  <2>1. 1 \in 1 .. Limit /\ turn2[j] \in {0, 1} /\ 1 - turn2[j] \in {0, 1}
    BY <1>1, <1>4, <1>5
  <2>2. CASE j = i
    BY <1>3, <1>4, <1>5, <2>1, <2>2
  <2>3. CASE j # i
    BY <1>3, <1>4, <2>1, <2>3 DEF OwnFits
  <2> QED BY <2>2, <2>3
<1>9. \A q \in Procs \ failed' : local'[q] = Unused
  BY DEF OwnFits
<1>10. ASSUME NEW q \in failed'
       PROVE  WindowFits(next, lapseOf2[q], turn2[lapseOf2[q]], local'[q])
  <2>1. q \in Procs /\ 1 \in 1 .. Limit
    BY <1>1 DEF BurstTypes
  <2>2. CASE q = p
    <3>1. lapseOf2[q] = i /\ local'[q] = [count |-> m, start |-> start]
      BY <2>1, <2>2 DEF OwnFits, LapsesApart
    <3>2. \A n \in 1 .. Limit :
            /\ next[<<i, <<1 - b, n>>>>] = own[<<i, <<1 - b, n>>>>]
            /\ n > m => next[<<i, <<b, n>>>>] = own[<<i, <<b, n>>>>]
      BY <1>3, <1>5
    <3>3. next[<<i, <<b, 1>>>>] <= start
      BY <1>1, <1>3, <2>1
    <3> DEFINE w == [count |-> m, start |-> start]
    <3>4. w.count = m /\ w.start = start
      OBVIOUS
    <3> HIDE DEF w
    <3>5. WindowFits(next, i, b, w)
      <4>1. \A n \in 1 .. Limit : n > m => ~Counts(next[<<i, <<b, n>>>>])
        <5> SUFFICES ASSUME NEW n \in 1 .. Limit, n > m
                     PROVE  ~Counts(next[<<i, <<b, n>>>>])
          OBVIOUS
        <5>1. next[<<i, <<b, n>>>>] = own[<<i, <<b, n>>>>]
          BY <3>2
        <5>2. n >= m
          OBVIOUS
        <5> QED BY <5>1, <5>2
      <4>2. \A n \in 1 .. Limit : next[<<i, <<1 - b, n>>>>] <= start
        BY <3>2
      <4> QED BY <3>3, <3>4, <4>1, <4>2 DEF WindowFits
    <3>6. local'[q] = w /\ turn2[lapseOf2[q]] = b
      BY <1>4, <3>1 DEF w
    <3> QED BY <3>1, <3>5, <3>6
  <2>3. CASE q # p
    <3>1. q \in failed /\ lapseOf2[q] = lapseOf[q] /\ local'[q] = local[q] /\ lapseOf[q] # i
      BY <2>1, <2>3 DEF OwnFits, LapsesApart
    <3> DEFINE j == lapseOf[q]
    <3>2. j \in 1 .. MaxFaults /\ turn2[j] = turn[j] /\ turn[j] \in {0, 1} /\ 1 - turn[j] \in {0, 1}
      <4>1. j \in 1 .. lapses /\ j # i
        BY <3>1 DEF OwnFits, LapsesApart
      <4>2. lapses \in Int /\ lapses <= MaxFaults
        BY <1>1 DEF BurstTypes
      <4>3. turn \in [1 .. MaxFaults -> {0, 1}]
        BY DEF OwnFits
      <4> HIDE DEF j
      <4>4. j \in 1 .. MaxFaults
        BY <1>1, <4>1, <4>2
      <4> QED BY <1>4, <1>5, <4>1, <4>3, <4>4
    <3>3. \A n \in 1 .. Limit, c \in {0, 1} : next[<<j, <<c, n>>>>] = own[<<j, <<c, n>>>>]
      BY <1>3, <3>1, <3>2
    <3>4. WindowFits(own, j, turn[j], local[q])
      BY <3>1 DEF OwnFits
    <3> HIDE DEF j
    <3>5. WindowFits(next, j, turn[j], local[q])
      BY <2>1, <3>2, <3>3, <3>4 DEF WindowFits
    <3> QED BY <3>1, <3>2, <3>5 DEF j
  <2> QED BY <2>2, <2>3
<1>11. \A q \in failed' : WindowFits(next, lapseOf2[q], turn2[lapseOf2[q]], local[q])'
  BY <1>2, <1>10 DEF WindowFits
<1> HIDE <1>a, <1>b, <1>c
<1> QED BY <1>b, <1>2, <1>4, <1>6, <1>7, <1>8, <1>9, <1>11 DEF OwnFits

(* A process that counts by itself has a slot for the call it lets through:
   in its window, in the other window when that one is over, or in a lapse
   of its own when it has just given up Redis. *)
LEMMA SlotFree ==
    ASSUME BurstTypes, now' = now, NEW p \in Procs,
           NEW own, NEW lapseOf, NEW turn, OwnFits(own, lapseOf, turn),
           lapses' = IF p \in failed THEN lapses ELSE lapses + 1,
           lapses' <= MaxFaults,
           NEW fresh \in BOOLEAN, fresh <=> local[p].count = 0 \/ now - local[p].start >= Window,
           local \in [Procs -> [count : Nat, start : Nat]],
           NEW m, NEW start,
           m = 1 + (IF fresh THEN 0 ELSE local[p].count), m <= Limit,
           start = IF fresh THEN now ELSE local[p].start
    PROVE  \E i, b : Vacant(own, lapseOf, p, i, b, m, start)
<1>1. now \in Int /\ Window \in Nat \ {0} /\ Limit \in Nat \ {0} /\ lapses \in Nat /\ MaxFaults \in Nat
  BY LimitAssumption, TimeAssumption DEF BurstTypes, Times
<1>2. local[p].count \in Nat /\ local[p].start \in Nat /\ 1 \in 1 .. Limit
  BY <1>1
<1>3. ASSUME NEW i \in 1 .. MaxFaults, NEW b \in {0, 1}, NEW n \in 1 .. Limit
      PROVE  /\ own[<<i, <<b, n>>>>] \in Int
             /\ own[<<i, <<b, n>>>>] <= now
             /\ i > lapses => ~Counts(own[<<i, <<b, n>>>>])
  BY DEF OwnFits, OwnSlots
<1>4. \A b \in {0, 1} : 1 - b \in {0, 1} /\ 1 - (1 - b) = b
  OBVIOUS
<1>5. LapsesApart(lapseOf) /\ turn \in [1 .. MaxFaults -> {0, 1}]
  BY DEF OwnFits
<1>6. CASE p \notin failed
  <2> DEFINE i == lapses + 1
  <2>1. local[p] = Unused
    BY <1>6 DEF OwnFits
  <2>2. m = 1 /\ start = now
    BY <1>1, <2>1 DEF Unused
  <2>3. i \in 1 .. MaxFaults /\ i <= lapses' /\ i > lapses
    BY <1>1, <1>6
  <2>4. \A q \in failed \ {p} : lapseOf[q] # i
    BY <1>1, <1>5 DEF LapsesApart
  <2> HIDE DEF i
  <2>5. \A n \in 1 .. Limit, b \in {0, 1} : own[<<i, <<b, n>>>>] <= now /\ ~Counts(own[<<i, <<b, n>>>>])
    BY <1>3, <2>3
  <2>6. 0 \in {0, 1} /\ 1 - 0 \in {0, 1}
    OBVIOUS
  <2> DEFINE other == 1 - 0
  <2>7. \A n \in 1 .. Limit :
           /\ ~Counts(own[<<i, <<0, n>>>>])
           /\ own[<<i, <<other, n>>>>] <= now
           /\ ~Counts(own[<<i, <<other, n>>>>])
    BY <2>5, <2>6
  <2> HIDE DEF other
  <2>8. Vacant(own, lapseOf, p, i, 0, m, start)
    <3>1. i \in 1 .. MaxFaults /\ 0 \in {0, 1} /\ m \in 1 .. Limit /\ start \in Int /\ start <= now
      BY <1>1, <1>2, <2>2, <2>3
    <3>2. /\ \A n \in 1 .. Limit : own[<<i, <<other, n>>>>] <= start
          /\ ~Counts(own[<<i, <<other, 1>>>>])
      BY <1>2, <2>2, <2>7
    <3>3. \A n \in 1 .. Limit : n >= m => ~Counts(own[<<i, <<0, n>>>>])
      BY <2>7
    <3> QED BY <2>2, <2>3, <2>4, <3>1, <3>2, <3>3 DEF Vacant, other
  <2> QED BY <2>8
<1>7. CASE p \in failed
  <2> DEFINE i == lapseOf[p]
             b == turn[i]
  <2>1. i \in 1 .. lapses /\ \A q \in failed \ {p} : lapseOf[q] # i
    BY <1>5, <1>7 DEF LapsesApart
  <2>2. WindowFits(own, i, b, local[p])
    BY <1>7 DEF OwnFits
  <2> HIDE DEF i
  <2>3. i \in 1 .. MaxFaults /\ i <= lapses'
    BY <1>1, <1>7, <2>1
  <2>4. b \in {0, 1}
    BY <1>5, <2>3
  <2>5. ~Counts(own[<<i, <<1 - b, 1>>>>])
    BY <2>3 DEF OwnFits
  <2> HIDE DEF b
  <2>6. /\ local[p].count \in 1 .. Limit
        /\ local[p].start <= now
        /\ own[<<i, <<b, 1>>>>] <= local[p].start
    BY <2>2 DEF WindowFits
  <2>7. \A n \in 1 .. Limit : n > local[p].count => ~Counts(own[<<i, <<b, n>>>>])
    BY <2>2 DEF WindowFits
  <2>8. \A n \in 1 .. Limit : own[<<i, <<1 - b, n>>>>] <= local[p].start
    BY <2>2 DEF WindowFits
  <2>9. CASE ~fresh
    <3>1. m = local[p].count + 1 /\ m \in 1 .. Limit /\ m # 1 /\ start = local[p].start
      BY <1>1, <1>2, <2>6, <2>9
    <3>2. \A n \in 1 .. Limit : n >= m => ~Counts(own[<<i, <<b, n>>>>])
      BY <1>2, <2>7, <3>1
    <3>3. Vacant(own, lapseOf, p, i, b, m, start)
      BY <1>2, <2>1, <2>3, <2>4, <2>5, <2>6, <2>8, <3>1, <3>2 DEF Vacant
    <3> QED BY <3>3
  <2>10. CASE fresh
    <3> DEFINE o == 1 - b
    <3>1. m = 1 /\ start = now /\ now - local[p].start >= Window
      BY <1>1, <1>2, <2>6, <2>10
    <3>2. o \in {0, 1} /\ 1 - o = b
      BY <1>4, <2>4
    <3>3. \A n \in 1 .. Limit : own[<<i, <<o, n>>>>] \in Int /\ own[<<i, <<o, n>>>>] <= local[p].start
      BY <1>3, <2>3, <2>8, <3>2
    <3> HIDE DEF o
    <3>4. \A n \in 1 .. Limit : ~Counts(own[<<i, <<o, n>>>>])
      <4> SUFFICES ASSUME NEW n \in 1 .. Limit PROVE ~Counts(own[<<i, <<o, n>>>>])
        OBVIOUS
      <4> DEFINE x == own[<<i, <<o, n>>>>]
      <4>1. x \in Int /\ x <= local[p].start
        BY <3>3
      <4> HIDE DEF x
      <4>2. ~(x + Window > now)
        BY <1>1, <1>2, <3>1, <4>1
      <4> QED BY <4>2 DEF Counts, x
    <3>5. ~Counts(own[<<i, <<b, 1>>>>])
      <4> DEFINE x == own[<<i, <<b, 1>>>>]
      <4>1. x \in Int /\ x <= local[p].start
        BY <1>2, <1>3, <2>3, <2>4, <2>6
      <4> HIDE DEF x
      <4>2. ~(x + Window > now)
        BY <1>1, <1>2, <3>1, <4>1
      <4> QED BY <4>2 DEF Counts, x
    <3>6. \A n \in 1 .. Limit : own[<<i, <<b, n>>>>] <= now
      BY <1>3, <2>3, <2>4
    <3>7. Vacant(own, lapseOf, p, i, o, m, start)
      BY <1>1, <1>2, <2>1, <2>3, <3>1, <3>2, <3>4, <3>5, <3>6 DEF Vacant
    <3> QED BY <3>7
  <2> QED BY <2>9, <2>10
<1> QED BY <1>6, <1>7

LEMMA AdmitTyped ==
    ASSUME BurstTypes, NEW c, Admit(c)
    PROVE  admitted' \in [Times -> Nat]
<1>1. now \in Times /\ admitted[now] + 1 \in Nat
  BY DEF BurstTypes
<1> QED BY <1>1 DEF BurstTypes, Admit

(* A try in the window of the process, which may just have given up Redis. *)
LEMMA LocalTry ==
    ASSUME WaitInv, BurstTypes, now' = now, NEW c \in Callers, AcquireLocal(c),
           NEW shared \in [SharedSlots -> Int],
           NEW own, NEW lapseOf, NEW turn, OwnFits(own, lapseOf, turn), AllInSlots(shared, own),
           failed' = failed \cup {ProcessOf[c]},
           lapses' = IF ProcessOf[c] \in failed THEN lapses ELSE lapses + 1,
           lapses' <= MaxFaults
    PROVE  /\ admitted' \in [Times -> Nat]
           /\ \E own2, lapseOf2, turn2 :
                  OwnFits(own2, lapseOf2, turn2)' /\ AllInSlots(shared, own2)'
<1> DEFINE p     == ProcessOf[c]
           fresh == local[p].count = 0 \/ now - local[p].start >= Window
           count == IF fresh THEN 0 ELSE local[p].count
           start == IF fresh THEN now ELSE local[p].start
<1>1. /\ now \in Int /\ Window \in Nat \ {0} /\ Limit \in Nat \ {0}
      /\ lapses \in Nat /\ MaxFaults \in Nat
  BY LimitAssumption, TimeAssumption DEF BurstTypes, Times
<1>2. p \in Procs /\ local \in [Procs -> [count : Nat, start : Nat]]
  BY ThreadsAssumption DEF WaitInv, CallTypes
<1>3. local[p].count \in Nat /\ local[p].start \in Nat
  BY <1>2
<1>4. own \in [OwnSlots -> Int]
  BY DEF OwnFits
<1>5. CASE count >= Limit
  <2>1. Deny(c, Window - (now - start)) /\ UNCHANGED local
    BY <1>5 DEF AcquireLocal
  <2>2. admitted' = admitted /\ local' = local
    BY <2>1 DEF Deny
  <2>3. p \in failed
    <3>1. ASSUME p \notin failed PROVE FALSE
      <4>1. local[p] = Unused
        BY <1>2, <3>1 DEF OwnFits
      <4>2. count = 0
        BY <4>1 DEF Unused
      <4> QED BY <1>1, <1>5, <4>2
    <3> QED BY <3>1
  <2>4. failed' = failed /\ lapses' = lapses
    BY <2>3
  <2>5. OwnFits(own, lapseOf, turn)' /\ AllInSlots(shared, own)'
    BY <2>2, <2>4 DEF OwnFits, LapsesApart, WindowFits, AllInSlots, Counts
  <2> QED BY <2>2, <2>5 DEF BurstTypes
<1>6. CASE ~(count >= Limit)
  <2>1. Admit(c) /\ local' = [local EXCEPT ![p] = [count |-> count + 1, start |-> start]]
    BY <1>6 DEF AcquireLocal
  <2> PICK m, begin : m = 1 + count /\ begin = start
    OBVIOUS
  <2>2. m \in 1 .. Limit /\ begin \in Int /\ m = count + 1
    BY <1>1, <1>3, <1>6
  <2>3. local' = [local EXCEPT ![p] = [count |-> m, start |-> begin]]
    BY <2>1, <2>2
  <2>4. admitted' \in [Times -> Nat]
    BY <2>1, AdmitTyped
  <2>5. \E i, b : Vacant(own, lapseOf, p, i, b, m, begin)
    <3>1. /\ m = 1 + (IF fresh THEN 0 ELSE local[p].count)
          /\ begin = IF fresh THEN now ELSE local[p].start
          /\ fresh \in BOOLEAN
          /\ fresh <=> local[p].count = 0 \/ now - local[p].start >= Window
      OBVIOUS
    <3>2. m <= Limit
      BY <1>1, <2>2
    <3> HIDE DEF fresh, start, count, p
    <3> QED BY <1>2, <3>1, <3>2, SlotFree DEF p
  <2> HIDE DEF start, count, fresh
  <2>6. PICK i, b : Vacant(own, lapseOf, p, i, b, m, begin)
    BY <2>5
  <2> PICK next : next = [own EXCEPT ![<<i, <<b, m>>>>] = now]
    OBVIOUS
  <2> PICK lapseOf2, turn2 : lapseOf2 = [lapseOf EXCEPT ![p] = i] /\ turn2 = [turn EXCEPT ![i] = b]
    OBVIOUS
  <2> DEFINE x == <<i, <<b, m>>>>
  <2>7. x \in OwnSlots /\ ~Counts(own[x])
    <3>1. i \in 1 .. MaxFaults /\ b \in {0, 1} /\ m \in 1 .. Limit /\ ~Counts(own[x])
      BY <1>1, <2>6 DEF Vacant
    <3> QED BY <3>1 DEF OwnSlots
  <2>8. OwnFits(next, lapseOf2, turn2)'
    <3>1. lapses' \in Int /\ lapses <= lapses'
      BY <1>1
    <3>2. Put(lapseOf, p, i, lapseOf2) /\ Put(turn, i, b, turn2)
      BY DEF Put
    <3>3. failed' = failed \cup {p}
      OBVIOUS
    <3>4. Put(own, <<i, <<b, m>>>>, now, next) /\ Put(local, p, [count |-> m, start |-> begin], local')
      BY <2>3 DEF Put
    <3> HIDE DEF p
    <3> QED BY <1>2, <2>6, <3>1, <3>2, <3>3, <3>4, OwnCall
  <2>9. AllInSlots(shared, next)'
    <3>1. AllInSlots(own, shared)
      BY <1>4, SlotsFinite, EitherOrder
    <3>2. next = [own EXCEPT ![x] = now]
      OBVIOUS
    <3> HIDE DEF x, p
    <3> QED BY <1>4, <2>1, <2>7, <3>1, <3>2, SlotsFinite, AdmittedIntoSlot
  <2> QED BY <2>4, <2>8, <2>9
<1> QED BY <1>5, <1>6

-----------------------------------------------------------------------------
(* A request that Redis has not answered names a window it was sent in.    *)
LEMMA NamedSince ==
    ASSUME WaitInv, BurstTypes, NEW c \in Callers, call[c].step = "sent"
    PROVE  call[c].window \in Times /\ NamedInTime(call[c].window, now)
<1> DEFINE at == call[c].at
<1>1. at \in Nat /\ at <= now /\ now <= at + Delay /\ call[c].window = at \div Window
  BY StepType DEF WaitInv, SentInTime, BurstTypes, SentNamed, Sent
<1>2. now \in Nat /\ now <= MaxTime /\ MaxTime \in Nat /\ Delay \in Nat /\ Window \in Nat \ {0}
  BY TimeAssumption, LimitAssumption DEF BurstTypes, Times
<1> HIDE DEF at
<1>3. at \div Window \in Int /\ 0 <= at \div Window /\ at \div Window <= at
  <2>1. Window * 0 <= at /\ at <= Window * at
    <3>1. \A q \in Nat : at <= (q + 1) * at
      BY <1>1
    <3>2. Window - 1 \in Nat /\ (Window - 1) + 1 = Window
      BY <1>2
    <3>3. at <= Window * at
      BY <3>1, <3>2
    <3> QED BY <1>1, <1>2, <3>3
  <2> QED BY <1>1, <1>2, <2>1, QuotientBetween
<1>4. at \in Times
  BY <1>1, <1>2 DEF Times
<1>5. NamedInTime(at \div Window, now)
  BY <1>1, <1>4 DEF NamedInTime
<1> QED BY <1>1, <1>2, <1>3, <1>5 DEF Times

(* Counting a window up keeps the account of the calls that Redis let      *)
(* through, and makes room for one more.                                   *)
LEMMA CountedUp ==
    ASSUME WaitInv, BurstTypes, now' = now, NEW c \in Callers, call[c].step = "sent",
           NEW k, k = call[c].window,
           counter' = [counter EXCEPT ![k] = Incremented(k)],
           NEW shared, SharedFits(shared)
    PROVE  /\ counter' \in [Times -> [count : Nat, expires : Nat]]
           /\ SharedFits(shared)'
           /\ counter[k].count + 1 \in 1 .. Limit =>
                 /\ ~Counts(shared[<<k, counter[k].count + 1>>])
                 /\ \A next : Put(shared, <<k, counter[k].count + 1>>, now, next) => SharedFits(next)'
<1>1. k \in Times /\ NamedInTime(k, now)
  BY NamedSince
<1>2. now \in Nat /\ Window \in Nat \ {0} /\ Counts(now)
  BY LimitAssumption DEF BurstTypes, Times, Counts
<1>3. counter[k].count \in Nat /\ counter[k].expires \in Nat
  BY <1>1 DEF BurstTypes
<1> DEFINE n0 == counter[k].count + 1
<1>4. Incremented(k) \in [count : Nat, expires : Nat]
      /\ Incremented(k).count = n0 /\ Incremented(k).expires = now + Window
  BY <1>2, <1>3 DEF Incremented
<1>5. counter' \in [Times -> [count : Nat, expires : Nat]] /\ counter'[k] = Incremented(k)
      /\ \A l \in Times : l # k => counter'[l] = counter[l]
  BY <1>1, <1>4 DEF BurstTypes
<1>6. \A x : Counts(x)' = Counts(x)
  BY DEF Counts
<1>7. shared \in [SharedSlots -> Int]
  BY DEF SharedFits
<1>8. ASSUME NEW l \in Times, NEW n \in 1 .. Limit, Counts(shared[<<l, n>>])
      PROVE  /\ shared[<<l, n>>] <= now
             /\ n <= counter'[l].count
             /\ shared[<<l, n>>] + Window <= counter'[l].expires
             /\ NamedInTime(l, shared[<<l, n>>])
  <2>1. /\ shared[<<l, n>>] <= now
        /\ n <= counter[l].count
        /\ shared[<<l, n>>] + Window <= counter[l].expires
        /\ NamedInTime(l, shared[<<l, n>>])
    BY <1>8 DEF SharedFits
  <2>2. CASE l # k
    BY <1>5, <2>1, <2>2
  <2>3. CASE l = k
    <3>1. shared[<<l, n>>] \in Int
      BY <1>7 DEF SharedSlots
    <3>2. counter'[l].count = n0 /\ counter'[l].expires = now + Window /\ counter[l].count \in Nat
      BY <1>3, <1>4, <1>5, <2>3
    <3> QED BY <1>2, <2>1, <2>3, <3>1, <3>2
  <2> QED BY <2>2, <2>3
<1>9. SharedFits(shared)'
  BY <1>6, <1>7, <1>8 DEF SharedFits, NamedInTime
<1>10. ASSUME n0 \in 1 .. Limit
       PROVE  /\ ~Counts(shared[<<k, n0>>])
              /\ \A next : Put(shared, <<k, n0>>, now, next) => SharedFits(next)'
  <2>1. ~(n0 <= counter[k].count)
    BY <1>3
  <2> HIDE DEF n0
  <2>2. ~Counts(shared[<<k, n0>>])
    BY <1>1, <1>10, <2>1 DEF SharedFits
  <2>3. <<k, n0>> \in SharedSlots
    BY <1>1, <1>10 DEF SharedSlots
  <2>4. ASSUME NEW next, Put(shared, <<k, n0>>, now, next)
        PROVE  SharedFits(next)'
    <3>1. /\ next \in [SharedSlots -> Int] /\ next[<<k, n0>>] = now
          /\ \A s \in SharedSlots : s # <<k, n0>> => next[s] = shared[s]
      BY <1>2, <1>7, <2>3, <2>4 DEF Put
    <3>2. ASSUME NEW l \in Times, NEW n \in 1 .. Limit, Counts(next[<<l, n>>])
          PROVE  /\ next[<<l, n>>] <= now
                 /\ n <= counter'[l].count
                 /\ next[<<l, n>>] + Window <= counter'[l].expires
                 /\ NamedInTime(l, next[<<l, n>>])
      <4>1. CASE l = k /\ n = n0
        <5>1. counter'[l].count = n0 /\ counter'[l].expires = now + Window /\ next[<<l, n>>] = now
          BY <1>4, <1>5, <3>1, <4>1 DEF n0
        <5> QED BY <1>1, <1>2, <1>10, <4>1, <5>1
      <4>2. CASE ~(l = k /\ n = n0)
        <5>1. <<l, n>> \in SharedSlots /\ <<l, n>> # <<k, n0>>
          BY <4>2 DEF SharedSlots
        <5>2. next[<<l, n>>] = shared[<<l, n>>]
          BY <3>1, <5>1
        <5> QED BY <1>8, <3>2, <5>2
      <4> QED BY <4>1, <4>2
    <3> QED BY <1>6, <3>1, <3>2 DEF SharedFits, NamedInTime
  <2> QED BY <2>2, <2>4
<1> QED BY <1>5, <1>9, <1>10

-----------------------------------------------------------------------------
(* A call that touches only thread c, and does not send it to Redis. *)
LEMMA OthersSent ==
    ASSUME BurstTypes, WaitInv, now' = now, NEW c \in Callers,
           Admit(c) \/ \E retryAfter \in Int : Deny(c, retryAfter)
    PROVE  SentNamed'
<1>1. Idle.step # "sent" /\ \A s, w : [step |-> "asleep", since |-> s, wake |-> w].step # "sent"
  BY DEF Idle
<1>2. PICK next : next.step # "sent" /\ call' = [call EXCEPT ![c] = next]
  <2>1. CASE Admit(c)
    BY <1>1, <2>1 DEF Admit
  <2>2. ASSUME NEW r \in Int, Deny(c, r)
        PROVE  \E next : next.step # "sent" /\ call' = [call EXCEPT ![c] = next]
    <3> DEFINE rest == [step |-> "asleep", since |-> call[c].since, wake |-> now + Min({r, Nap})]
    <3>1. rest.step # "sent"
      OBVIOUS
    <3>2. call' = [call EXCEPT ![c] = Idle] \/ call' = [call EXCEPT ![c] = rest]
      BY <2>2 DEF Deny
    <3> HIDE DEF rest
    <3> QED BY <1>1, <3>1, <3>2
  <2> QED BY <2>1, <2>2
<1>3. \A d \in Callers : call'[d] = IF d = c THEN next ELSE call[d]
  BY <1>2 DEF WaitInv, CallTypes
<1> QED BY <1>2, <1>3 DEF BurstTypes, SentNamed

(* A try in the window of the process admits or denies. *)
LEMMA TryEnds ==
    ASSUME WaitInv, BurstTypes, NEW c \in Callers, AcquireLocal(c)
    PROVE  Admit(c) \/ \E retryAfter \in Int : Deny(c, retryAfter)
<1> DEFINE p     == ProcessOf[c]
           fresh == local[p].count = 0 \/ now - local[p].start >= Window
           count == IF fresh THEN 0 ELSE local[p].count
           start == IF fresh THEN now ELSE local[p].start
<1>1. Admit(c) \/ Deny(c, Window - (now - start))
  BY DEF AcquireLocal
<1>2. p \in Procs /\ local[p] \in [count : Nat, start : Nat] /\ now \in Int /\ Window \in Int
  BY ThreadsAssumption, LimitAssumption DEF WaitInv, CallTypes
<1>3. Window - (now - start) \in Int
  BY <1>2
<1> HIDE DEF start
<1> QED BY <1>1, <1>3

(* Nothing that the account is about. *)
LEMMA AccountStays ==
    ASSUME Accounted, UNCHANGED <<now, counter, failed, local, admitted, lapses>>
    PROVE  Accounted'
<1> PICK shared, own, lapseOf, turn :
        SharedFits(shared) /\ OwnFits(own, lapseOf, turn) /\ AllInSlots(shared, own)
  BY DEF Accounted
<1>1. SharedFits(shared)'
  BY DEF SharedFits, Counts, NamedInTime
<1>2. OwnFits(own, lapseOf, turn)'
  BY DEF OwnFits, LapsesApart, WindowFits, Counts
<1>3. AllInSlots(shared, own)'
  BY DEF AllInSlots, Counts
<1> QED BY <1>1, <1>2, <1>3 DEF Accounted

LEMMA BurstInit == LimiterInit => BurstInv
<1> SUFFICES ASSUME LimiterInit PROVE BurstInv
  OBVIOUS
<1> USE TimeAssumption, LimitAssumption
<1>1. now = 0 /\ failed = {} /\ faults = 0 /\ lapses = 0 /\ local = [p \in Procs |-> Unused]
      /\ admitted = [t \in Times |-> 0] /\ counter = [k \in Times |-> NoCounter]
  BY DEF LimiterInit
<1>2. BurstTypes
  <2>1. SentNamed
    BY DEF LimiterInit, SentNamed, Idle
  <2> QED BY <1>1, <2>1 DEF BurstTypes, Times, NoCounter
<1>3. ~Counts(-Window)
  BY <1>1 DEF Counts
<1> DEFINE shared == [s \in SharedSlots |-> -Window]
           own == [s \in OwnSlots |-> -Window]
           lapseOf == [p \in Procs |-> 0]
           turn == [i \in 1 .. MaxFaults |-> 0]
<1>4. -Window \in Int /\ -Window <= 0
  OBVIOUS
<1>5. SharedFits(shared)
  <2>1. \A k \in Times, n \in 1 .. Limit : shared[<<k, n>>] = -Window
    BY DEF SharedSlots
  <2>2. shared \in [SharedSlots -> Int]
    BY <1>4
  <2> HIDE DEF shared
  <2> QED BY <1>3, <2>1, <2>2 DEF SharedFits
<1>6. OwnFits(own, lapseOf, turn)
  <2>1. \A i \in 1 .. MaxFaults, b \in {0, 1}, n \in 1 .. Limit : own[<<i, <<b, n>>>>] = -Window
    BY DEF OwnSlots
  <2>2. own \in [OwnSlots -> Int]
    BY <1>4
  <2>3. LapsesApart(lapseOf) /\ turn \in [1 .. MaxFaults -> {0, 1}]
        /\ \A i \in 1 .. MaxFaults : turn[i] \in {0, 1} /\ 1 - turn[i] \in {0, 1}
    BY <1>1 DEF LapsesApart
  <2>4. \A p \in Procs \ failed : local[p] = Unused
    BY <1>1
  <2>5. 1 \in 1 .. Limit
    OBVIOUS
  <2> HIDE DEF own, lapseOf, turn
  <2> QED BY <1>1, <1>3, <1>4, <2>1, <2>2, <2>3, <2>4, <2>5 DEF OwnFits
<1>7. AllInSlots(shared, own)
  <2> SUFFICES ASSUME NEW t \in Times
               PROVE  /\ Cardinality(CallsAt(shared, t)) = 0
                      /\ Cardinality(CallsAt(own, t)) = 0
    BY <1>1 DEF AllInSlots
  <2>1. t # -Window
    BY DEF Times
  <2>2. CallsAt(shared, t) = {} /\ CallsAt(own, t) = {}
    BY <2>1 DEF CallsAt
  <2> QED BY <2>2, FS_EmptySet
<1>8. Accounted
  <2> HIDE DEF shared, own, lapseOf, turn
  <2> QED BY <1>5, <1>6, <1>7 DEF Accounted
<1> QED BY <1>2, <1>8, WaitInit DEF BurstInv

(* A try in a process's own window, that has or has just given Redis up. *)
LEMMA TryKeepsAccount ==
    ASSUME WaitInv, BurstTypes, Accounted, now' = now, NEW c \in Callers, AcquireLocal(c),
           failed' = failed \cup {ProcessOf[c]},
           lapses' = IF ProcessOf[c] \in failed THEN lapses ELSE lapses + 1,
           faults' \in 0 .. MaxFaults, lapses' <= faults',
           \/ UNCHANGED counter
           \/ /\ call[c].step = "sent"
              /\ counter' = [counter EXCEPT ![call[c].window] = Incremented(call[c].window)]
    PROVE  BurstTypes' /\ Accounted'
<1>1. PICK shared, own, lapseOf, turn :
        SharedFits(shared) /\ OwnFits(own, lapseOf, turn) /\ AllInSlots(shared, own)
  BY DEF Accounted
<1>2. counter' \in [Times -> [count : Nat, expires : Nat]] /\ SharedFits(shared)'
  <2>1. CASE UNCHANGED counter
    BY <1>1, <2>1 DEF BurstTypes, SharedFits, Counts, NamedInTime
  <2>2. CASE /\ call[c].step = "sent"
             /\ counter' = [counter EXCEPT ![call[c].window] = Incremented(call[c].window)]
    <3> PICK k : k = call[c].window
      OBVIOUS
    <3>1. counter' = [counter EXCEPT ![k] = Incremented(k)]
      BY <2>2
    <3> QED BY <1>1, <2>2, <3>1, CountedUp
  <2> QED BY <2>1, <2>2
<1>3. shared \in [SharedSlots -> Int] /\ lapses' <= MaxFaults /\ lapses' \in 0 .. faults'
  BY <1>1, TimeAssumption DEF SharedFits, BurstTypes
<1>4. /\ admitted' \in [Times -> Nat]
      /\ \E own2, lapseOf2, turn2 : OwnFits(own2, lapseOf2, turn2)' /\ AllInSlots(shared, own2)'
  BY <1>1, <1>3, LocalTry
<1>5. Accounted'
  BY <1>2, <1>4 DEF Accounted
<1>6. SentNamed'
  BY TryEnds, OthersSent
<1>7. failed' \subseteq Procs
  BY ThreadsAssumption DEF BurstTypes
<1>8. now' \in Times
  BY DEF BurstTypes
<1> QED BY <1>2, <1>3, <1>4, <1>5, <1>6, <1>7, <1>8 DEF BurstTypes

LEMMA BurstNext == BurstInv /\ [LimiterNext]_limiterVars => BurstInv'
<1> SUFFICES ASSUME BurstInv, [LimiterNext]_limiterVars PROVE BurstTypes' /\ Accounted'
  BY WaitNext DEF BurstInv
<1> USE TimeAssumption, LimitAssumption
<1>0. WaitInv /\ BurstTypes /\ Accounted
  BY DEF BurstInv
<1>1. ASSUME NEW c \in Callers, Ask(c) PROVE BurstTypes' /\ Accounted'
  <2>1. UNCHANGED <<now, counter, failed, local, faults, admitted, lapses>>
    BY <1>1 DEF Ask
  <2>2. \A d \in Callers : call'[d] = call[d] \/ call'[d].step = "asleep"
    BY <1>0, <1>1 DEF Ask, WaitInv, CallTypes
  <2>3. SentNamed'
    BY <1>0, <2>1, <2>2 DEF SentNamed, BurstTypes
  <2> QED BY <1>0, <2>1, <2>3, AccountStays DEF BurstTypes
<1>2. ASSUME NEW c \in Callers, TryLocal(c) PROVE BurstTypes' /\ Accounted'
  <2>1. /\ AcquireLocal(c) /\ ProcessOf[c] \in failed
        /\ UNCHANGED <<now, counter, failed, faults, lapses>>
    BY <1>2 DEF TryLocal
  <2>2. failed' = failed \cup {ProcessOf[c]} /\ faults' \in 0 .. MaxFaults /\ lapses' <= faults'
    BY <1>0, <2>1 DEF BurstTypes
  <2> QED BY <1>0, <2>1, <2>2, TryKeepsAccount
<1>3. ASSUME NEW c \in Callers, Send(c) PROVE BurstTypes' /\ Accounted'
  <2>1. UNCHANGED <<now, counter, failed, local, faults, admitted, lapses>>
    BY <1>3 DEF Send
  <2>2. \A d \in Callers : \/ call'[d] = call[d]
                           \/ call'[d].at = now /\ call'[d].window = now \div Window
    BY <1>0, <1>3 DEF Send, WaitInv, CallTypes
  <2>3. now \in Int
    BY <1>0 DEF BurstTypes, Times
  <2>4. SentNamed'
    <3> SUFFICES ASSUME NEW d \in Callers, call'[d].step = "sent"
                 PROVE  call'[d].at <= now /\ call'[d].window = call'[d].at \div Window
      BY <2>1 DEF SentNamed
    <3>1. CASE call'[d] = call[d]
      BY <1>0, <3>1 DEF SentNamed, BurstTypes
    <3>2. CASE call'[d].at = now /\ call'[d].window = now \div Window
      BY <2>3, <3>2
    <3> QED BY <2>2, <3>1, <3>2
  <2> QED BY <1>0, <2>1, <2>4, AccountStays DEF BurstTypes
<1>4. ASSUME NEW c \in Callers, Counted(c) PROVE BurstTypes' /\ Accounted'
  <2> PICK k : k = call[c].window
    OBVIOUS
  <2>1. /\ call[c].step = "sent"
        /\ counter' = [counter EXCEPT ![k] = Incremented(k)]
        /\ UNCHANGED <<now, failed, local, faults, lapses>>
        /\ IF OverBudget(counter[k].count + 1) THEN Deny(c, Window - (now % Window)) ELSE Admit(c)
    BY <1>4 DEF Counted
  <2>2. PICK shared, own, lapseOf, turn :
          SharedFits(shared) /\ OwnFits(own, lapseOf, turn) /\ AllInSlots(shared, own)
    BY <1>0 DEF Accounted
  <2>3. /\ counter' \in [Times -> [count : Nat, expires : Nat]]
        /\ SharedFits(shared)'
        /\ counter[k].count + 1 \in 1 .. Limit =>
              /\ ~Counts(shared[<<k, counter[k].count + 1>>])
              /\ \A next : Put(shared, <<k, counter[k].count + 1>>, now, next) => SharedFits(next)'
    BY <1>0, <2>1, <2>2, CountedUp
  <2>4. OwnFits(own, lapseOf, turn)'
    BY <2>1, <2>2 DEF OwnFits, LapsesApart, WindowFits, Counts
  <2>5. Window - (now % Window) \in Int
    BY <1>0 DEF BurstTypes, Times
  <2>6. SentNamed'
    BY <1>0, <2>1, <2>5, OthersSent
  <2>7. now' \in Times /\ failed' \subseteq Procs /\ faults' \in 0 .. MaxFaults /\ lapses' \in 0 .. faults'
    BY <1>0, <2>1 DEF BurstTypes
  <2>8. CASE OverBudget(counter[k].count + 1)
    <3>1. admitted' = admitted
      BY <2>1, <2>8 DEF Deny
    <3>2. AllInSlots(shared, own)'
      BY <2>1, <2>2, <3>1 DEF AllInSlots, Counts
    <3>3. Accounted'
      BY <2>3, <2>4, <3>2 DEF Accounted
    <3> QED BY <1>0, <2>3, <2>6, <2>7, <3>1, <3>3 DEF BurstTypes
  <2>9. CASE ~OverBudget(counter[k].count + 1)
    <3> PICK n : n = counter[k].count + 1
      OBVIOUS
    <3>1. Admit(c)
      BY <2>1, <2>9
    <3>2. k \in Times /\ n \in 1 .. Limit
      <4>1. k \in Times
        BY <1>0, <2>1, NamedSince
      <4>2. counter[k].count \in Nat
        BY <1>0, <4>1 DEF BurstTypes
      <4> QED BY <2>9, <4>1, <4>2 DEF OverBudget
    <3>3. <<k, n>> \in SharedSlots
      BY <3>2 DEF SharedSlots
    <3> PICK next : next = [shared EXCEPT ![<<k, n>>] = now]
      OBVIOUS
    <3>4. ~Counts(shared[<<k, n>>]) /\ SharedFits(next)'
      BY <2>3, <3>2 DEF Put
    <3>5. shared \in [SharedSlots -> Int] /\ own \in [OwnSlots -> Int]
      BY <2>2 DEF SharedFits, OwnFits
    <3>6. AllInSlots(next, own)'
      BY <1>0, <2>1, <2>2, <3>1, <3>3, <3>4, <3>5, SlotsFinite, AdmittedIntoSlot
    <3>7. Accounted'
      BY <2>4, <3>4, <3>6 DEF Accounted
    <3>8. admitted' \in [Times -> Nat]
      BY <1>0, <3>1, AdmitTyped
    <3> QED BY <2>3, <2>6, <2>7, <3>7, <3>8 DEF BurstTypes
  <2> QED BY <2>8, <2>9
<1>5. ASSUME NEW c \in Callers, RedisFails(c) PROVE BurstTypes' /\ Accounted'
  <2>1. /\ AcquireLocal(c)
        /\ failed' = failed \cup {ProcessOf[c]}
        /\ lapses' = IF ProcessOf[c] \in failed THEN lapses ELSE lapses + 1
        /\ faults < MaxFaults /\ faults' = faults + 1 /\ now' = now
        /\ \/ UNCHANGED counter
           \/ /\ call[c].step = "sent"
              /\ counter' = [counter EXCEPT ![call[c].window] = Incremented(call[c].window)]
    BY <1>5 DEF RedisFails
  <2>2. faults' \in 0 .. MaxFaults /\ lapses' <= faults'
    BY <1>0, <2>1 DEF BurstTypes
  <2> QED BY <1>0, <2>1, <2>2, TryKeepsAccount
<1>6. ASSUME NEW p \in Procs, Restart(p) PROVE BurstTypes' /\ Accounted'
  <2>1. /\ faults < MaxFaults /\ faults' = faults + 1
        /\ failed' = failed \ {p} /\ local' = [local EXCEPT ![p] = Unused]
        /\ call' = [c \in Callers |-> IF ProcessOf[c] = p THEN Idle ELSE call[c]]
        /\ UNCHANGED <<now, counter, admitted, lapses>>
    BY <1>6 DEF Restart
  <2>2. PICK shared, own, lapseOf, turn :
          SharedFits(shared) /\ OwnFits(own, lapseOf, turn) /\ AllInSlots(shared, own)
    BY <1>0 DEF Accounted
  <2>3. SharedFits(shared)' /\ AllInSlots(shared, own)'
    BY <2>1, <2>2 DEF SharedFits, AllInSlots, Counts, NamedInTime
  <2>4. local'[p] = Unused /\ \A q \in Procs : q # p => local'[q] = local[q]
    BY <1>0, <2>1 DEF WaitInv, CallTypes
  <2>5. OwnFits(own, lapseOf, turn)'
    <3>1. LapsesApart(lapseOf)'
      BY <2>1, <2>2 DEF OwnFits, LapsesApart
    <3>2. \A q \in Procs \ failed' : local'[q] = Unused
      BY <2>1, <2>2, <2>4 DEF OwnFits
    <3>3. \A q \in failed' : q \in failed /\ local'[q] = local[q]
      BY <1>0, <2>1, <2>4 DEF BurstTypes
    <3>4. (\A q \in failed : WindowFits(own, lapseOf[q], turn[lapseOf[q]], local[q]))'
      BY <2>1, <2>2, <3>3 DEF OwnFits, WindowFits, Counts
    <3>5. \A x : Counts(x)' = Counts(x)
      BY <2>1 DEF Counts
    <3> QED BY <2>1, <2>2, <3>1, <3>2, <3>4, <3>5 DEF OwnFits
  <2>6. SentNamed'
    <3>1. \A c \in Callers : call'[c] = call[c] \/ call'[c].step # "sent"
      BY <2>1 DEF Idle
    <3> QED BY <1>0, <2>1, <3>1 DEF BurstTypes, SentNamed
  <2>7. BurstTypes'
    BY <1>0, <2>1, <2>6 DEF BurstTypes
  <2> QED BY <2>3, <2>5, <2>7 DEF Accounted
<1>7. ASSUME Tick PROVE BurstTypes' /\ Accounted'
  <2>1. /\ now < MaxTime /\ now' = now + 1
        /\ counter' = [k \in Times |-> IF counter[k].expires <= now' THEN NoCounter ELSE counter[k]]
        /\ admitted' = [t \in Times |-> IF t + Window <= now' THEN 0 ELSE admitted[t]]
        /\ UNCHANGED <<failed, local, call, faults, lapses>>
    BY <1>7 DEF Tick
  <2>2. PICK shared, own, lapseOf, turn :
          SharedFits(shared) /\ OwnFits(own, lapseOf, turn) /\ AllInSlots(shared, own)
    BY <1>0 DEF Accounted
  <2>3. now \in Int /\ now' \in Times
    BY <1>0, <2>1 DEF BurstTypes, Times
  <2>4. \A x \in Int : Counts(x)' => Counts(x)
    BY <2>1, <2>3 DEF Counts
  <2>5. BurstTypes'
    <3>1. SentNamed'
      <4> SUFFICES ASSUME NEW c \in Callers, call[c].step = "sent"
                   PROVE  call[c].at <= now + 1 /\ call[c].window = call[c].at \div Window
        BY <2>1 DEF SentNamed
      <4>1. call[c].at \in Nat /\ call[c].at <= now /\ call[c].window = call[c].at \div Window
        BY <1>0, StepType DEF WaitInv, BurstTypes, SentNamed, Sent
      <4> QED BY <2>3, <4>1
    <3>2. counter' \in [Times -> [count : Nat, expires : Nat]] /\ admitted' \in [Times -> Nat]
      BY <1>0, <2>1 DEF BurstTypes, NoCounter
    <3> QED BY <1>0, <2>1, <2>3, <3>1, <3>2 DEF BurstTypes
  <2>6. SharedFits(shared)'
    <3>1. shared \in [SharedSlots -> Int]
      BY <2>2 DEF SharedFits
    <3>2. ASSUME NEW k \in Times, NEW n \in 1 .. Limit, Counts(shared[<<k, n>>])'
          PROVE  /\ shared[<<k, n>>] <= now'
                 /\ n <= counter'[k].count
                 /\ shared[<<k, n>>] + Window <= counter'[k].expires
                 /\ NamedInTime(k, shared[<<k, n>>])
      <4> DEFINE x == shared[<<k, n>>]
      <4>1. x \in Int
        BY <3>1 DEF SharedSlots
      <4>2. x <= now /\ n <= counter[k].count /\ x + Window <= counter[k].expires /\ NamedInTime(k, x)
        BY <2>2, <2>4, <3>2, <4>1 DEF SharedFits
      <4>3. x + Window > now'
        BY <3>2 DEF Counts
      <4> HIDE DEF x
      <4>4. counter[k].expires \in Nat
        BY <1>0 DEF BurstTypes
      <4>5. counter'[k] = counter[k]
        <5>1. ~(counter[k].expires <= now')
          BY <2>1, <2>3, <4>1, <4>2, <4>3, <4>4
        <5> QED BY <2>1, <5>1
      <4> QED BY <2>1, <2>3, <4>1, <4>2, <4>5 DEF x
    <3> QED BY <3>1, <3>2 DEF SharedFits, NamedInTime
  <2>7. OwnFits(own, lapseOf, turn)'
    <3>1. ASSUME NEW i \in 1 .. MaxFaults, NEW b \in {0, 1}, NEW n \in 1 .. Limit
          PROVE  own[<<i, <<b, n>>>>] \in Int
      BY <2>2 DEF OwnFits, OwnSlots
    <3>2. LapsesApart(lapseOf)'
      BY <2>1, <2>2 DEF OwnFits, LapsesApart
    <3>3. ASSUME NEW i \in 1 .. MaxFaults, NEW b \in {0, 1}, NEW n \in 1 .. Limit
          PROVE  /\ own[<<i, <<b, n>>>>] <= now'
                 /\ i > lapses' => ~(Counts(own[<<i, <<b, n>>>>])')
      BY <2>1, <2>2, <2>3, <2>4, <3>1 DEF OwnFits
    <3>4. turn \in [1 .. MaxFaults -> {0, 1}] /\ \A b \in {0, 1} : 1 - b \in {0, 1}
      BY <2>2 DEF OwnFits
    <3>5. ASSUME NEW i \in 1 .. MaxFaults
          PROVE  ~(Counts(own[<<i, <<1 - turn[i], 1>>>>])')
      <4>1. own[<<i, <<1 - turn[i], 1>>>>] \in Int
        <5>1. 1 - turn[i] \in {0, 1} /\ 1 \in 1 .. Limit
          BY <3>4
        <5> QED BY <3>1, <5>1
      <4> QED BY <2>2, <2>4, <4>1 DEF OwnFits
    <3>6. ASSUME NEW p \in failed
          PROVE  WindowFits(own, lapseOf[p], turn[lapseOf[p]], local[p])'
      <4> PICK i, b : i = lapseOf[p] /\ b = turn[i]
        OBVIOUS
      <4>1. i \in 1 .. MaxFaults
        BY <1>0, <2>2 DEF OwnFits, LapsesApart, BurstTypes
      <4>2. b \in {0, 1} /\ 1 - b \in {0, 1}
        BY <3>4, <4>1
      <4>3. WindowFits(own, i, b, local[p])
        BY <2>2 DEF OwnFits
      <4>4. local[p].start \in Int /\ p \in Procs
        BY <1>0 DEF WaitInv, CallTypes, BurstTypes
      <4>5. ASSUME NEW n \in 1 .. Limit, n > local[p].count
            PROVE  ~(Counts(own[<<i, <<b, n>>>>])')
        BY <2>4, <3>1, <4>1, <4>2, <4>3, <4>5 DEF WindowFits
      <4> PICK w : w = local[p]
        OBVIOUS
      <4>6. local'[p] = w
        BY <2>1
      <4>7. WindowFits(own, i, b, w)'
        <5>1. w.start <= now'
          BY <2>1, <2>3, <4>3, <4>4 DEF WindowFits
        <5> QED BY <4>3, <4>5, <5>1 DEF WindowFits
      <4> QED BY <4>6, <4>7
    <3>7. \A p \in Procs \ failed : local[p] = Unused
      BY <2>2 DEF OwnFits
    <3>8. own \in [OwnSlots -> Int]
      BY <2>2 DEF OwnFits
    <3> QED BY <2>1, <3>2, <3>3, <3>4, <3>5, <3>6, <3>7, <3>8 DEF OwnFits
  <2>8. AllInSlots(shared, own)'
    <3> SUFFICES ASSUME NEW t \in Times
                 PROVE  admitted'[t] = IF Counts(t)'
                           THEN Cardinality(CallsAt(shared, t)) + Cardinality(CallsAt(own, t)) ELSE 0
      BY DEF AllInSlots
    <3>1. t \in Int /\ (Counts(t)' <=> ~(t + Window <= now'))
      BY <2>3 DEF Times, Counts
    <3> QED BY <2>1, <2>2, <2>4, <3>1 DEF AllInSlots
  <2> QED BY <2>5, <2>6, <2>7, <2>8 DEF Accounted
<1>8. CASE UNCHANGED limiterVars
  <2>1. UNCHANGED <<now, counter, failed, local, faults, admitted, lapses>> /\ call' = call
    BY <1>8 DEF limiterVars
  <2> QED BY <1>0, <2>1, AccountStays DEF BurstTypes, SentNamed
<1> QED BY <1>1, <1>2, <1>3, <1>4, <1>5, <1>6, <1>7, <1>8 DEF LimiterNext

-----------------------------------------------------------------------------
\* The slots whose calls still count.
CountingSlots(at) == {s \in DOMAIN at : at[s] \in Times /\ Counts(at[s])}

\* How many calls at each time are in the slots, of the times that count.
CallsPerTick(at) == [t \in Times |-> IF Counts(t) THEN Cardinality(CallsAt(at, t)) ELSE 0]

LEMMA SlotsAddUp ==
    ASSUME NEW S, IsFiniteSet(S), NEW at \in [S -> Int]
    PROVE  /\ SumFunctionOnSet(CallsPerTick(at), Times) = Cardinality(CountingSlots(at))
           /\ \A t \in Times : CallsPerTick(at)[t] \in Int
<1> DEFINE class == [t \in Times |-> IF Counts(t) THEN CallsAt(at, t) ELSE {}]
           all == CountingSlots(at)
           f == CallsPerTick(at)
<1>1. IsFiniteSet(all)
  BY FS_Subset DEF CountingSlots
<1>2. \A t \in Times : class[t] = {s \in all : at[s] = t}
  BY DEF CountingSlots, CallsAt
<1>3. \A s \in all : at[s] \in Times
  BY DEF CountingSlots
<1>4. \A t \in Times : f[t] = Cardinality(class[t])
  BY FS_EmptySet DEF CallsPerTick
<1>5. \A t \in Times : Cardinality(CallsAt(at, t)) \in Nat
  BY SlotsCounted
<1>6. \A t \in Times : f[t] \in Int
  BY <1>5 DEF CallsPerTick
<1> HIDE DEF class, all, f
<1>7. Splits(class, Times, all)
  BY <1>2, <1>3 DEF Splits
<1>8. SumFunctionOnSet(f, Times) = Cardinality(all)
  BY <1>1, <1>4, <1>7, SlotsFinite, SumOfCounts
<1> QED BY <1>6, <1>8 DEF f, all

LEMMA GreaterOfTwo ==
    ASSUME NEW a \in Int, NEW b \in Int
    PROVE  Max({a, b}) = IF a >= b THEN a ELSE b
BY DEF Max

(* The windows Redis counted the calls in were named in the time between. *)
LEMMA SharedCalls ==
    ASSUME WaitInv, BurstTypes, NEW shared, SharedFits(shared)
    PROVE  Cardinality(CountingSlots(shared)) \in Nat
           /\ WindowsNamed \in Nat
           /\ Cardinality(CountingSlots(shared)) <= Limit * WindowsNamed
<1> DEFINE first == Max({0, now - Window + 1 - Delay})
           low   == first \div Window
           high  == now \div Window
           cover == (low .. high) \X (1 .. Limit)
<1>1. now \in Nat /\ Window \in Nat \ {0} /\ Limit \in Nat \ {0} /\ Delay \in Nat
  BY LimitAssumption, TimeAssumption DEF BurstTypes, Times
<1>2. first = IF 0 >= now - Window + 1 - Delay THEN 0 ELSE now - Window + 1 - Delay
  BY <1>1, GreaterOfTwo
<1>3. first \in Int /\ first <= now
  BY <1>1, <1>2
<1> HIDE DEF first
<1>4. low \in Int /\ high \in Int /\ low <= high
  BY <1>1, <1>3, QuotientMonotone
<1>5. WindowsNamed = high - low + 1
  BY DEF WindowsNamed, first
<1>6. IsFiniteSet(cover) /\ Cardinality(cover) = (high - low + 1) * Limit
  <2> HIDE DEF low, high
  <2>1. IsFiniteSet(low .. high) /\ Cardinality(low .. high) = high - low + 1
    BY <1>4, FS_Interval
  <2>2. IsFiniteSet(1 .. Limit) /\ Cardinality(1 .. Limit) = Limit
    BY <1>1, FS_Interval
  <2> DEFINE windows == low .. high
             slots   == 1 .. Limit
  <2>3. /\ IsFiniteSet(windows) /\ Cardinality(windows) = high - low + 1
        /\ IsFiniteSet(slots) /\ Cardinality(slots) = Limit
        /\ cover = windows \X slots
    BY <2>1, <2>2
  <2> HIDE DEF windows, slots, cover
  <2>4. /\ IsFiniteSet(windows \X slots)
        /\ Cardinality(windows \X slots) = Cardinality(windows) * Cardinality(slots)
    BY ONLY <2>3, FS_Product
  <2> QED BY ONLY <2>3, <2>4
<1>7. CountingSlots(shared) \subseteq cover
  <2> SUFFICES ASSUME NEW k \in Times, NEW n \in 1 .. Limit, Counts(shared[<<k, n>>])
               PROVE  k \in low .. high
    BY DEF CountingSlots, SharedFits, SharedSlots
  <2> DEFINE x == shared[<<k, n>>]
  <2>1. x \in Int /\ x <= now /\ NamedInTime(k, x)
    BY DEF SharedFits, SharedSlots
  <2>2. x + Window > now
    BY DEF Counts
  <2> HIDE DEF x
  <2>3. PICK sent \in Times : k = sent \div Window /\ sent <= x /\ x <= sent + Delay
    BY <2>1 DEF NamedInTime
  <2>4. sent \in Nat /\ first <= sent /\ sent <= now
    BY <1>1, <1>2, <2>1, <2>2, <2>3, TimeAssumption DEF Times
  <2>5. k \in Int /\ low <= k /\ k <= high
    BY <1>1, <1>3, <2>3, <2>4, QuotientMonotone
  <2> QED BY <1>4, <2>5
<1> HIDE DEF cover, low, high
<1>8. Cardinality(CountingSlots(shared)) \in Nat /\ Cardinality(CountingSlots(shared)) <= Cardinality(cover)
  BY <1>6, <1>7, FS_Subset, FS_CardinalityType
<1>9. (high - low + 1) * Limit = Limit * WindowsNamed /\ WindowsNamed \in Nat
  BY <1>1, <1>4, <1>5
<1> QED BY <1>6, <1>8, <1>9

(* Of the slots of a lapse, one at least holds no call that counts. *)
LEMMA OwnCalls ==
    ASSUME BurstTypes, NEW own, NEW lapseOf, NEW turn, OwnFits(own, lapseOf, turn)
    PROVE  Cardinality(CountingSlots(own)) \in Nat
           /\ Cardinality(CountingSlots(own)) <= (2 * Limit - 1) * lapses
<1> DEFINE both  == {0, 1} \X (1 .. Limit)
           cover == (1 .. lapses) \X both
           hole  == [i \in 1 .. lapses |-> <<i, <<1 - turn[i], 1>>>>]
           holes == {hole[i] : i \in 1 .. lapses}
<1>1. Limit \in Nat \ {0} /\ lapses \in Nat /\ MaxFaults \in Nat /\ lapses <= MaxFaults
  BY LimitAssumption, TimeAssumption DEF BurstTypes
<1>2. IsFiniteSet(both) /\ Cardinality(both) = 2 * Limit
  <2> PICK two : two = {0, 1}
    OBVIOUS
  <2>1. IsFiniteSet({0}) /\ Cardinality({0}) = 1
    BY FS_Singleton
  <2>2. two = {0} \cup {1} /\ 1 \notin {0}
    OBVIOUS
  <2>3. IsFiniteSet(two) /\ Cardinality(two) = 2
    BY <2>1, <2>2, FS_AddElement
  <2>4. IsFiniteSet(1 .. Limit) /\ Cardinality(1 .. Limit) = Limit
    BY <1>1, FS_Interval
  <2>5. IsFiniteSet(two \X (1 .. Limit)) /\ Cardinality(two \X (1 .. Limit)) = 2 * Limit
    <3> PICK counts : counts = 1 .. Limit
      OBVIOUS
    <3>1. IsFiniteSet(counts) /\ Cardinality(counts) = Limit
      BY <2>4
    <3>2. IsFiniteSet(two \X counts) /\ Cardinality(two \X counts) = Cardinality(two) * Cardinality(counts)
      BY ONLY <2>3, <3>1, FS_Product
    <3> QED BY <2>3, <3>1, <3>2
  <2> QED BY <2>5
<1>3. IsFiniteSet(1 .. lapses) /\ Cardinality(1 .. lapses) = lapses
  BY <1>1, FS_Interval
<1>4. IsFiniteSet(cover) /\ Cardinality(cover) = lapses * (2 * Limit)
  <2> HIDE DEF both
  <2> QED BY <1>2, <1>3, FS_Product
<1>5. \A i \in 1 .. lapses : i \in 1 .. MaxFaults /\ 1 - turn[i] \in {0, 1} /\ 1 \in 1 .. Limit
  BY <1>1 DEF OwnFits
<1>6. holes \subseteq cover
  BY <1>5
<1>7. Cardinality(holes) = lapses
  <2>1. hole \in [1 .. lapses -> holes] /\ \A i \in 1 .. lapses : hole[i][1] = i
    OBVIOUS
  <2>2. \A h \in holes : \E i \in 1 .. lapses : hole[i] = h
    OBVIOUS
  <2> HIDE DEF hole, holes
  <2>3. hole \in Surjection(1 .. lapses, holes) /\ hole \in Injection(1 .. lapses, holes)
    BY <2>1, <2>2 DEF Surjection, Injection, IsInjective
  <2> QED BY <1>3, <2>3, FS_Surjection
<1>8. CountingSlots(own) \subseteq cover \ holes
  <2>1. ASSUME NEW s \in CountingSlots(own)
        PROVE  s \in cover /\ s \notin holes
    <3>1. s \in OwnSlots /\ Counts(own[s])
      BY DEF CountingSlots, OwnFits
    <3>2. PICK i \in 1 .. MaxFaults, b \in {0, 1}, n \in 1 .. Limit : s = <<i, <<b, n>>>>
      BY <3>1 DEF OwnSlots
    <3>3. Counts(own[<<i, <<b, n>>>>])
      BY <3>1, <3>2
    <3>4. i \in 1 .. lapses
      <4>1. ~(i > lapses)
        BY <3>3 DEF OwnFits
      <4> QED BY <1>1, <4>1
    <3>5. ~(b = 1 - turn[i] /\ n = 1)
      BY <3>3 DEF OwnFits
    <3>6. \A j \in 1 .. lapses : hole[j] # s
      <4> SUFFICES ASSUME NEW j \in 1 .. lapses, <<j, <<1 - turn[j], 1>>>> = <<i, <<b, n>>>>
                   PROVE  FALSE
        BY <3>2
      <4>1. j = i /\ <<1 - turn[j], 1>> = <<b, n>>
        OBVIOUS
      <4> QED BY <3>5, <4>1
    <3> QED BY <3>2, <3>4, <3>6
  <2> HIDE DEF cover, holes
  <2> QED BY <2>1
<1> HIDE DEF cover, holes
<1>9. Cardinality(cover \ holes) = lapses * (2 * Limit) - lapses /\ IsFiniteSet(cover \ holes)
  <2>1. cover \cap holes = holes
    BY <1>6
  <2> QED BY <1>4, <1>7, <2>1, FS_Difference
<1>10. Cardinality(CountingSlots(own)) \in Nat
       /\ Cardinality(CountingSlots(own)) <= lapses * (2 * Limit) - lapses
  BY <1>8, <1>9, FS_Subset, FS_CardinalityType
<1>11. lapses * (2 * Limit) - lapses = (2 * Limit - 1) * lapses
  BY <1>1
<1> QED BY <1>10, <1>11

LEMMA BurstCounted == BurstInv => BurstBounded
<1> SUFFICES ASSUME BurstInv PROVE BurstBounded
  OBVIOUS
<1>1. WaitInv /\ BurstTypes
  BY DEF BurstInv
<1> PICK shared, own, lapseOf, turn :
        SharedFits(shared) /\ OwnFits(own, lapseOf, turn) /\ AllInSlots(shared, own)
  BY DEF BurstInv, Accounted
<1>2. shared \in [SharedSlots -> Int] /\ own \in [OwnSlots -> Int]
  BY DEF SharedFits, OwnFits
<1>3. /\ SumFunctionOnSet(CallsPerTick(shared), Times) = Cardinality(CountingSlots(shared))
      /\ \A t \in Times : CallsPerTick(shared)[t] \in Int
  BY <1>2, SlotsFinite, SlotsAddUp
<1>4. /\ SumFunctionOnSet(CallsPerTick(own), Times) = Cardinality(CountingSlots(own))
      /\ \A t \in Times : CallsPerTick(own)[t] \in Int
  BY <1>2, SlotsFinite, SlotsAddUp
<1>5. \A t \in Times : admitted[t] = CallsPerTick(shared)[t] + CallsPerTick(own)[t]
  <2>1. \A t \in Times : Cardinality(CallsAt(shared, t)) \in Nat /\ Cardinality(CallsAt(own, t)) \in Nat
    BY <1>2, SlotsFinite, SlotsCounted
  <2> QED BY <2>1 DEF AllInSlots, CallsPerTick
<1>6. Burst = SumFunctionOnSet(CallsPerTick(shared), Times) + SumFunctionOnSet(CallsPerTick(own), Times)
  BY <1>3, <1>4, <1>5, SlotsFinite, SumAdd DEF Burst
<1>7. /\ Cardinality(CountingSlots(shared)) \in Nat /\ WindowsNamed \in Nat
      /\ Cardinality(CountingSlots(shared)) <= Limit * WindowsNamed
  BY <1>1, SharedCalls
<1>8. /\ Cardinality(CountingSlots(own)) \in Nat
      /\ Cardinality(CountingSlots(own)) <= (2 * Limit - 1) * lapses
  BY <1>1, OwnCalls
<1>9. Limit * WindowsNamed \in Int /\ (2 * Limit - 1) * lapses \in Int
  BY <1>1, <1>7, LimitAssumption DEF BurstTypes
<1> QED BY <1>3, <1>4, <1>6, <1>7, <1>8, <1>9 DEF BurstBounded

(* What a provider sees in any stretch of a window's length stays within   *)
(* the limit of each window Redis counted its calls in and what the        *)
(* processes that lost Redis add, for any number of processes, threads,    *)
(* failures and restarts, and any delay of Redis (rate_limit.py:15).       *)
THEOREM BurstStaysBounded == LimiterSpec => []BurstBounded
<1> QED BY BurstInit, BurstNext, BurstCounted, PTL DEF LimiterSpec

-----------------------------------------------------------------------------
\* A strict order in which any two of S compare.
Orders(order, S) ==
    /\ \A x \in S : <<x, x>> \notin order
    /\ \A x, y, z \in S : <<x, y>> \in order /\ <<y, z>> \in order => <<x, z>> \in order
    /\ \A x, y \in S : x # y => <<x, y>> \in order \/ <<y, x>> \in order

Rank(order, S, x) == Cardinality(Earlier(order, S, x))

(* Each of finitely many has a rank of its own, the earlier the lower, and *)
(* every rank is taken.                                                    *)
LEMMA Ranks ==
    ASSUME NEW S, IsFiniteSet(S), NEW order, Orders(order, S)
    PROVE  /\ Cardinality(S) \in Nat
           /\ \A x \in S : Rank(order, S, x) \in 0 .. Cardinality(S) - 1
           /\ \A x, y \in S : <<x, y>> \in order => Rank(order, S, x) < Rank(order, S, y)
           /\ \A x, y \in S : Rank(order, S, x) = Rank(order, S, y) => x = y
           /\ \A k \in 1 .. Cardinality(S) : \E x \in S : Rank(order, S, x) = k - 1
<1> DEFINE ahead(x) == Earlier(order, S, x)
           n == Cardinality(S)
           rank == [x \in S |-> Rank(order, S, x)]
<1>1. n \in Nat
  BY FS_CardinalityType
<1>2. ASSUME NEW x \in S
      PROVE  /\ IsFiniteSet(ahead(x)) /\ Rank(order, S, x) \in Nat /\ Rank(order, S, x) < n
             /\ ahead(x) \subseteq S /\ x \notin ahead(x)
  <2>1. ahead(x) \subseteq S /\ x \notin ahead(x)
    BY DEF Earlier, Orders
  <2> HIDE DEF ahead
  <2>2. IsFiniteSet(ahead(x)) /\ Cardinality(ahead(x)) <= n
        /\ (n = Cardinality(ahead(x)) => S = ahead(x))
    BY <2>1, FS_Subset
  <2>3. Cardinality(ahead(x)) \in Nat
    BY <2>2, FS_CardinalityType
  <2>4. Rank(order, S, x) = Cardinality(ahead(x))
    BY DEF Rank, ahead
  <2> QED BY <1>1, <2>1, <2>2, <2>3, <2>4
<1>3. ASSUME NEW x \in S, NEW y \in S, <<x, y>> \in order
      PROVE  Rank(order, S, x) < Rank(order, S, y)
  <2>1. ahead(x) \subseteq ahead(y) /\ x \in ahead(y)
    BY <1>3 DEF Earlier, Orders
  <2>2. x \notin ahead(x) /\ IsFiniteSet(ahead(y))
        /\ Rank(order, S, x) \in Nat /\ Rank(order, S, y) \in Nat
    BY <1>2
  <2>3. Rank(order, S, x) = Cardinality(ahead(x)) /\ Rank(order, S, y) = Cardinality(ahead(y))
    BY DEF Rank
  <2> HIDE DEF ahead
  <2>4. /\ Cardinality(ahead(x)) <= Cardinality(ahead(y))
        /\ Cardinality(ahead(y)) = Cardinality(ahead(x)) => ahead(y) = ahead(x)
    BY <2>1, <2>2, FS_Subset
  <2> QED BY <2>1, <2>2, <2>3, <2>4
<1>4. ASSUME NEW x \in S, NEW y \in S, Rank(order, S, x) = Rank(order, S, y)
      PROVE  x = y
  <2> SUFFICES ASSUME x # y PROVE FALSE
    OBVIOUS
  <2>1. <<x, y>> \in order \/ <<y, x>> \in order
    BY DEF Orders
  <2>2. Rank(order, S, x) \in Nat /\ Rank(order, S, y) \in Nat
    BY <1>2
  <2> QED BY <1>3, <1>4, <2>1, <2>2
<1> HIDE DEF ahead
<1>5. rank \in Injection(S, 0 .. n - 1)
  <2>1. rank \in [S -> 0 .. n - 1]
    BY <1>1, <1>2
  <2>2. \A x, y \in S : rank[x] = rank[y] => x = y
    BY <1>4
  <2> QED BY <2>1, <2>2 DEF Injection, IsInjective
<1>6. rank \in Surjection(S, 0 .. n - 1)
  <2>1. IsFiniteSet(0 .. n - 1) /\ Cardinality(0 .. n - 1) = n
    <3> HIDE DEF n
    <3>1. n \in Nat /\ n - 1 \in Int /\ (0 > n - 1 => n = 0) /\ n - 1 - 0 + 1 = n
      BY <1>1
    <3> QED BY <3>1, FS_Interval
  <2> HIDE DEF rank
  <2> QED BY <1>5, <2>1, FS_Injection
<1>7. ASSUME NEW k \in 1 .. n
      PROVE  \E x \in S : Rank(order, S, x) = k - 1
  <2>1. k - 1 \in 0 .. n - 1
    BY <1>1
  <2>2. PICK x \in S : rank[x] = k - 1
    BY <1>6, <2>1 DEF Surjection
  <2> QED BY <2>2
<1> QED BY <1>1, <1>2, <1>3, <1>4, <1>7

LEMMA LesserOfTwo ==
    ASSUME NEW a \in Int, NEW b \in Int
    PROVE  Min({a, b}) = IF a <= b THEN a ELSE b
BY DEF Min

(* The first n of S are those with fewer than n before them. *)
LEMMA BestAreFirst ==
    ASSUME NEW S, IsFiniteSet(S), NEW order, Orders(order, S), NEW n \in Nat
    PROVE  /\ Len(Best(n, S, order)) = IF n <= Cardinality(S) THEN n ELSE Cardinality(S)
           /\ Range(Best(n, S, order)) = {x \in S : Rank(order, S, x) < n}
<1> DEFINE size == Cardinality(S)
           best == Best(n, S, order)
           m == Min({n, size})
<1>1. /\ size \in Nat
      /\ \A x \in S : Rank(order, S, x) \in 0 .. size - 1
      /\ \A x, y \in S : Rank(order, S, x) = Rank(order, S, y) => x = y
      /\ \A k \in 1 .. size : \E x \in S : Rank(order, S, x) = k - 1
  BY Ranks
<1>2. m = (IF n <= size THEN n ELSE size) /\ m \in Nat /\ m <= n /\ m <= size
  BY <1>1, LesserOfTwo
<1>3. best = [k \in 1 .. m |-> CHOOSE x \in S : Rank(order, S, x) = k - 1]
  BY DEF Best, Rank
<1> HIDE DEF size, m
<1>4. ASSUME NEW k \in 1 .. m
      PROVE  best[k] \in S /\ Rank(order, S, best[k]) = k - 1
  <2>1. \E x \in S : Rank(order, S, x) = k - 1
    BY <1>1, <1>2
  <2>2. best[k] = CHOOSE x \in S : Rank(order, S, x) = k - 1
    BY <1>3
  <2> HIDE DEF best
  <2> QED BY <2>1, <2>2
<1>5. DOMAIN best = 1 .. m
  BY <1>3
<1> HIDE DEF best
<1>6. Range(best) = {x \in S : Rank(order, S, x) < n}
  <2>1. ASSUME NEW x \in Range(best)
        PROVE  x \in S /\ Rank(order, S, x) < n
    <3>1. PICK k \in 1 .. m : x = best[k]
      BY <1>5 DEF Range
    <3> QED BY <1>2, <1>4, <3>1
  <2>2. ASSUME NEW x \in S, Rank(order, S, x) < n
        PROVE  x \in Range(best)
    <3> DEFINE k == Rank(order, S, x) + 1
    <3>1. k \in 1 .. m /\ k - 1 = Rank(order, S, x)
      BY <1>1, <1>2, <2>2
    <3>2. best[k] = x
      BY <1>1, <1>4, <3>1
    <3> QED BY <1>5, <3>1, <3>2 DEF Range
  <2> QED BY <2>1, <2>2
<1>7. Len(best) = m
  <2>1. best \in [1 .. m -> S]
    <3>1. best = [k \in 1 .. m |-> best[k]]
      BY <1>3, <1>5
    <3> QED BY <1>4, <3>1
  <2>2. best \in Seq(S)
    BY <1>2, <2>1
  <2> QED BY <1>2, <1>5, <2>1, <2>2
<1> QED BY <1>2, <1>6, <1>7 DEF best, size

-----------------------------------------------------------------------------
SweepTypes == stored \in [Symbols -> Facts]

LEMMA MeasuresKnown ==
    ASSUME SweepTypes, NEW x \in Symbols, NEW m \in Measures
    PROVE  stored[x][m] \in Int
BY SweepAssumption DEF SweepTypes

LEMMA SymbolsFinite == IsFiniteSet(Symbols)
<1>1. IsFiniteSet(1 .. Len(Alphabet))
  BY SweepAssumption, FS_Interval
<1>2. Alphabet \in Surjection(1 .. Len(Alphabet), Symbols)
  BY SweepAssumption DEF Surjection, Symbols, Range
<1> QED BY <1>1, <1>2, FS_Surjection

LEMMA PlacesDiffer ==
    /\ \A x \in Symbols : Place(x) \in Nat
    /\ \A x, y \in Symbols : Place(x) = Place(y) => x = y
<1>1. DOMAIN Alphabet \subseteq Nat
  BY SweepAssumption
<1>2. ASSUME NEW x \in Symbols
      PROVE  Place(x) \in DOMAIN Alphabet /\ Alphabet[Place(x)] = x
  BY DEF Place, Symbols, Range
<1> QED BY <1>1, <1>2

LEMMA AtMostIsNat ==
    ASSUME NEW cap \in Nat, NEW n \in Int
    PROVE  AtMost(cap, n) \in Int /\ (n >= 0 => AtMost(cap, n) \in Nat)
BY LesserOfTwo DEF AtMost

LEMMA ActivityIsNumber ==
    ASSUME SweepTypes, NEW x \in Symbols, NEW down
    PROVE  Activity(x, down) \in Int
<1>1. stored[x].volume \in Int /\ stored[x].zscore \in Int
  BY MeasuresKnown DEF Measures
<1>2. AtMost(100, stored[x].volume) \in Int /\ AtMost(100, stored[x].zscore) \in Int
  BY <1>1, AtMostIsNat
<1> QED BY <1>2 DEF Activity, When

LEMMA AwardIsNat == \A cap, n : cap \in Nat /\ n \in Nat => AtMost(cap, n) \in Nat
BY LesserOfTwo DEF AtMost

(* No trigger takes points away, whatever is stored of a symbol. *)
LEMMA ScoresArePositive ==
    ASSUME SweepTypes, NEW x \in Symbols
    PROVE  /\ VolumeAndMoves(x) \in Nat /\ TechnicalSetups(x) \in Nat /\ SectorLeadership(x) \in Nat
           /\ EarningsSurprises(x) \in Nat /\ EarningsRevisions(x) \in Nat
           /\ HighImpactNews(x) \in Nat /\ InsiderClusters(x) \in Nat /\ FreshFilings(x) \in Nat
           /\ PullbackFromHigh(x) \in Nat /\ ElevatedShortInterest(x) \in Nat
           /\ FinvizScreen(x) \in Nat /\ TrendAlignment(x) \in Nat
<1> DEFINE f == stored[x]
           excess == f.return - BenchReturn
<1>1. /\ f.volume \in Int /\ f.zscore \in Int /\ f.return \in Int /\ f.below_high \in Int
      /\ f.surprise \in Int /\ f.beats \in Int /\ f.off_high \in Int /\ f.short \in Int /\ f.theme \in Int
  BY MeasuresKnown DEF Measures
<1>2. excess \in Int
  BY <1>1, SweepAssumption
<1> HIDE DEF f, excess
<1>3. VolumeAndMoves(x) \in Nat
  <2> DEFINE gain == 50 * f.volume
             second == 50 * f.zscore
  <2>1. f.volume >= 25 => gain \in Nat
    BY <1>1, <1>2
  <2>2. f.zscore >= 25 => second \in Nat
    BY <1>1, <1>2
  <2> HIDE DEF gain, second
  <2>3. f.volume >= 25 => AtMost(2500, gain) \in Nat
    BY <2>1, AwardIsNat
  <2>4. f.zscore >= 25 => AtMost(2500, second) \in Nat
    BY <2>2, AwardIsNat
  <2> QED BY <2>3, <2>4 DEF VolumeAndMoves, When, f, gain, second
<1>4. TechnicalSetups(x) \in Nat
  <2> DEFINE gain == 1000 + 25 * excess
             second == 1200 + 25 * f.volume
             third == 1200 + 50 * f.below_high
  <2>1. excess >= 10 => gain \in Nat
    BY <1>1, <1>2
  <2>2. f.volume >= 13 => second \in Nat
    BY <1>1, <1>2
  <2>3. f.below_high \in 5 .. 20 => third \in Nat
    BY <1>1, <1>2
  <2> HIDE DEF gain, second, third
  <2>4. excess >= 10 => AtMost(2500, gain) \in Nat
    BY <2>1, AwardIsNat
  <2>5. f.volume >= 13 => AtMost(2500, second) \in Nat
    BY <2>2, AwardIsNat
  <2>6. f.below_high \in 5 .. 20 => AtMost(2500, third) \in Nat
    BY <2>3, AwardIsNat
  <2> QED BY <2>4, <2>5, <2>6 DEF TechnicalSetups, When, f, gain, second, third, excess
<1>5. EarningsSurprises(x) \in Nat
  <2> DEFINE gain == 1000 + 50 * f.surprise
  <2>1. f.surprise >= 5 => gain \in Nat
    BY <1>1, <1>2
  <2> HIDE DEF gain
  <2>2. f.surprise >= 5 => AtMost(3000, gain) \in Nat
    BY <2>1, AwardIsNat
  <2> QED BY <2>2 DEF EarningsSurprises, When, f, gain
<1>6. EarningsRevisions(x) \in Nat
  <2> DEFINE gain == 1000 + 400 * f.beats
  <2>1. f.beats >= 2 => gain \in Nat
    BY <1>1, <1>2
  <2> HIDE DEF gain
  <2>2. f.beats >= 2 => AtMost(2500, gain) \in Nat
    BY <2>1, AwardIsNat
  <2> QED BY <2>2 DEF EarningsRevisions, When, f, gain
<1>7. PullbackFromHigh(x) \in Nat
  <2> DEFINE gain == 1000 + (1000 * f.off_high) \div 30
  <2>1. f.off_high \in 15 .. 45 => gain \in Nat
    BY <1>1, <1>2
  <2> HIDE DEF gain
  <2>2. f.off_high \in 15 .. 45 => AtMost(2500, gain) \in Nat
    BY <2>1, AwardIsNat
  <2> QED BY <2>2 DEF PullbackFromHigh, When, f, gain
<1>8. ElevatedShortInterest(x) \in Nat
  <2> DEFINE gain == (1000 * f.short) \div 15
  <2>1. f.short >= 15 => gain \in Nat
    BY <1>1, <1>2
  <2> HIDE DEF gain
  <2>2. f.short >= 15 => AtMost(2000, gain) \in Nat
    BY <2>1, AwardIsNat
  <2> QED BY <2>2 DEF ElevatedShortInterest, When, f, gain
<1>9. TrendAlignment(x) \in Nat
  <2> DEFINE gain == 600 + 25 * (f.theme - 55)
  <2>1. f.theme >= 55 => gain \in Nat
    BY <1>1, <1>2
  <2> HIDE DEF gain
  <2>2. f.theme >= 55 => AtMost(1800, gain) \in Nat
    BY <2>1, AwardIsNat
  <2> QED BY <2>2 DEF TrendAlignment, When, f, gain
<1>10. SectorLeadership(x) \in Nat /\ FreshFilings(x) \in Nat /\ FinvizScreen(x) \in Nat
      /\ InsiderClusters(x) \in Nat /\ HighImpactNews(x) \in Nat
  BY DEF SectorLeadership, FreshFilings, FinvizScreen, InsiderClusters, HighImpactNews, When
<1> QED BY <1>3, <1>4, <1>5, <1>6, <1>7, <1>8, <1>9, <1>10

Names == {Triggers[i] : i \in 1 .. 12}

LEMMA NamesFinite == IsFiniteSet(Names)
<1> DEFINE name(k) == {Triggers[i] : i \in 1 .. k}
<1>1. \A k \in Nat : IsFiniteSet(name(k))
  <2> HIDE DEF Triggers
  <2> TAKE k \in Nat
  <2>1. IsFiniteSet(1 .. k)
    BY FS_Interval
  <2>2. [i \in 1 .. k |-> Triggers[i]] \in Surjection(1 .. k, name(k))
    BY DEF Surjection
  <2> QED BY <2>1, <2>2, FS_Surjection
<1>2. Names = name(12)
  BY DEF Names
<1> HIDE DEF name
<1> QED BY <1>1, <1>2

LEMMA ScoreOfTrigger ==
    ASSUME SweepTypes, NEW x \in Symbols
    PROVE  DOMAIN Score(x) = Names /\ \A t \in Names : Score(x)[t] \in Nat
<1>1. Names = {"volume_and_moves", "technical_setups", "sector_leadership", "earnings_surprises",
      "earnings_revisions", "high_impact_news", "insider_clusters", "fresh_filings",
      "pullback_from_high", "elevated_short_interest", "finviz_screen", "trend_alignment"}
  <2>1. 1 .. 12 = {1, 2, 3, 4, 5, 6, 7, 8, 9, 10, 11, 12}
    OBVIOUS
  <2> QED BY <2>1 DEF Names, Triggers
<1>2. \A n : n \in Nat => Known(x, n) \in Nat
  BY DEF Known
<1>3. DOMAIN Score(x) = Names
  BY <1>1 DEF Score
<1>4. /\ Score(x).volume_and_moves \in Nat /\ Score(x).technical_setups \in Nat
      /\ Score(x).sector_leadership \in Nat /\ Score(x).earnings_surprises \in Nat
      /\ Score(x).earnings_revisions \in Nat /\ Score(x).high_impact_news \in Nat
      /\ Score(x).insider_clusters \in Nat /\ Score(x).fresh_filings \in Nat
      /\ Score(x).pullback_from_high \in Nat /\ Score(x).elevated_short_interest \in Nat
      /\ Score(x).finviz_screen \in Nat /\ Score(x).trend_alignment \in Nat
  BY <1>2, ScoresArePositive DEF Score
<1> QED BY <1>1, <1>3, <1>4

LEMMA EventsKnown ==
    ASSUME SweepTypes, NEW x \in Symbols, NEW down
    PROVE  /\ DOMAIN Events(x, down) = Names
           /\ \A t \in Names : /\ Score(x)[t] \in Nat
                                /\ Events(x, down)[t] = IF Sound(t, down) THEN Score(x)[t] ELSE 0
BY ScoreOfTrigger DEF Events, When

LEMMA TotalKnown ==
    ASSUME SweepTypes, NEW x \in Symbols, NEW down
    PROVE  /\ Total(x, down) = SumFunctionOnSet(Events(x, down), Names)
           /\ Total(x, down) \in Int
<1> DEFINE event == Events(x, down)
<1>1. DOMAIN event = Names /\ \A t \in Names : event[t] \in Int
  BY EventsKnown
<1>2. Total(x, down) = SumFunctionOnSet(event, Names)
  BY <1>1 DEF Total, SumFunction
<1> HIDE DEF event
<1>3. SumFunctionOnSet(event, Names) \in Int
  BY <1>1, NamesFinite, SumRecursion
<1> QED BY <1>2, <1>3 DEF event

(* A failure gives nobody points, and takes none from those it did not     *)
(* score.                                                                  *)
LEMMA FailureAddsNothing ==
    ASSUME SweepTypes, NEW x \in Symbols, NEW down
    PROVE  Total(x, down) <= Total(x, {})
<1> DEFINE with    == Events(x, down)
           without == Events(x, {})
<1>1. \A t \in Names : with[t] \in Int /\ without[t] \in Int /\ with[t] <= without[t]
  BY EventsKnown DEF Sound
<1>2. Total(x, down) = SumFunctionOnSet(with, Names) /\ Total(x, {}) = SumFunctionOnSet(without, Names)
  BY TotalKnown
<1> HIDE DEF with, without
<1> QED BY <1>1, <1>2, NamesFinite, SumLeq

LEMMA FailureSpares ==
    ASSUME SweepTypes, NEW x \in Symbols, NEW down, "series" \notin down,
           \A t \in down : Score(x)[t] = 0
    PROVE  Total(x, down) = Total(x, {})
<1> DEFINE with    == Events(x, down)
           without == Events(x, {})
<1>1. \A t \in Names : with[t] \in Int /\ with[t] = without[t]
  BY EventsKnown DEF Sound
<1>2. Total(x, down) = SumFunctionOnSet(with, Names) /\ Total(x, {}) = SumFunctionOnSet(without, Names)
  BY TotalKnown
<1> HIDE DEF with, without
<1> QED BY <1>1, <1>2, NamesFinite, SumEqual

-----------------------------------------------------------------------------
(* Who precedes whom: the score, then the activity, then the alphabet.     *)
LEMMA RankingMeans ==
    ASSUME NEW down, NEW x \in Symbols, NEW y \in Symbols
    PROVE  <<x, y>> \in Ranking(down) <=>
              \/ Total(x, down) > Total(y, down)
              \/ Total(x, down) = Total(y, down) /\ Activity(x, down) > Activity(y, down)
              \/ Total(x, down) = Total(y, down) /\ Activity(x, down) = Activity(y, down)
                 /\ Place(x) < Place(y)
BY DEF Ranking, Before, Totals, Activities

LEMMA RankingOrders ==
    ASSUME SweepTypes, NEW down, NEW S \in SUBSET Symbols
    PROVE  IsFiniteSet(S) /\ Orders(Ranking(down), S)
<1> DEFINE total(x)    == Total(x, down)
           activity(x) == Activity(x, down)
           order       == Ranking(down)
<1>1. \A x \in S : total(x) \in Int /\ activity(x) \in Int /\ Place(x) \in Nat
  BY TotalKnown, ActivityIsNumber, PlacesDiffer
<1>2. \A x, y \in S : <<x, y>> \in order <=>
              \/ total(x) > total(y)
              \/ total(x) = total(y) /\ activity(x) > activity(y)
              \/ total(x) = total(y) /\ activity(x) = activity(y) /\ Place(x) < Place(y)
  BY RankingMeans
<1>3. \A x, y \in S : Place(x) = Place(y) => x = y
  BY PlacesDiffer
<1>4. IsFiniteSet(S)
  BY SymbolsFinite, FS_Subset
<1> HIDE DEF total, activity, order
<1>5. Orders(order, S)
  <2>1. \A x \in S : <<x, x>> \notin order
    BY <1>1, <1>2
  <2>2. \A x, y, z \in S : <<x, y>> \in order /\ <<y, z>> \in order => <<x, z>> \in order
    BY <1>1, <1>2
  <2>3. \A x, y \in S : x # y => <<x, y>> \in order \/ <<y, x>> \in order
    BY <1>1, <1>2, <1>3
  <2> QED BY <2>1, <2>2, <2>3 DEF Orders
<1> QED BY <1>4, <1>5 DEF order

(* What may be listed, and what is. *)
Listable(down) == {x \in Scored(down) : PassesQualityGate(x, down)}

LEMMA ListIsFirst ==
    ASSUME SweepTypes, NEW down
    PROVE  LET S     == Listable(down)
               order == Ranking(down)
               n     == Cardinality(S)
           IN  /\ S = {x \in Symbols : Total(x, down) > 0 /\ PassesQualityGate(x, down)}
               /\ IsFiniteSet(S) /\ Orders(order, S) /\ n \in Nat
               /\ Len(ListWith(down)) = IF MaxCandidates <= n THEN MaxCandidates ELSE n
               /\ Range(ListWith(down)) = {x \in S : Rank(order, S, x) < MaxCandidates}
<1> DEFINE S     == Listable(down)
           order == Ranking(down)
<1>1. S = {x \in Symbols : Total(x, down) > 0 /\ PassesQualityGate(x, down)}
  BY DEF Listable, Scored, Totals
<1>2. IsFiniteSet(S) /\ Orders(order, S)
  BY <1>1, RankingOrders
<1>3. ListWith(down) = Best(MaxCandidates, S, order)
  BY DEF ListWith, Listable
<1>4. MaxCandidates \in Nat
  BY SweepAssumption
<1> HIDE DEF S, order
<1>5. Cardinality(S) \in Nat
  BY <1>2, FS_CardinalityType
<1>6. /\ Len(ListWith(down)) = IF MaxCandidates <= Cardinality(S) THEN MaxCandidates ELSE Cardinality(S)
      /\ Range(ListWith(down)) = {x \in S : Rank(order, S, x) < MaxCandidates}
  BY <1>2, <1>3, <1>4, BestAreFirst
<1> QED BY <1>1, <1>2, <1>5, <1>6 DEF S, order

-----------------------------------------------------------------------------
SweepInv ==
    /\ SweepTypes
    /\ Swept => candidates = ListWith(broken)

LEMMA SweepInvInit == SweepInit => SweepInv
BY DEF SweepInit, SweepInv, SweepTypes, Swept

(* What a sweep computes depends on what is stored, and on nothing else of *)
(* its state.                                                              *)
LEMMA ScoresUnchanged ==
    ASSUME NEW x, UNCHANGED stored
    PROVE  Series(x)' = Series(x) /\ Rich(x)' = Rich(x) /\ Score(x)' = Score(x)
<1>1. \A y : Series(y)' = Series(y) /\ Rich(y)' = Rich(y)
  BY DEF Series, Rich
<1>2. VolumeAndMoves(x)' = VolumeAndMoves(x) /\ TechnicalSetups(x)' = TechnicalSetups(x)
  BY <1>1 DEF VolumeAndMoves, TechnicalSetups
<1>3. /\ EarningsSurprises(x)' = EarningsSurprises(x) /\ EarningsRevisions(x)' = EarningsRevisions(x)
      /\ HighImpactNews(x)' = HighImpactNews(x) /\ InsiderClusters(x)' = InsiderClusters(x)
      /\ FreshFilings(x)' = FreshFilings(x) /\ PullbackFromHigh(x)' = PullbackFromHigh(x)
      /\ ElevatedShortInterest(x)' = ElevatedShortInterest(x)
      /\ FinvizScreen(x)' = FinvizScreen(x) /\ TrendAlignment(x)' = TrendAlignment(x)
  BY DEF EarningsSurprises, EarningsRevisions, HighImpactNews, InsiderClusters, FreshFilings,
         PullbackFromHigh, ElevatedShortInterest, FinvizScreen, TrendAlignment
<1>4. Sectors' = Sectors /\ \A s : Members(s)' = Members(s)
  BY <1>1 DEF Sectors, Members
<1>5. \A s : Median(s)' = Median(s)
  BY <1>4 DEF Median
<1>6. \A s : Leading(s)' = Leading(s)
  BY <1>4, <1>5 DEF Leading
<1>7. SectorLeadership(x)' = SectorLeadership(x)
  BY <1>1, <1>5, <1>6 DEF SectorLeadership
<1>8. Score(x)' = Score(x)
  BY <1>2, <1>3, <1>7 DEF Score
<1> QED BY <1>1, <1>8

LEMMA ListUnchanged ==
    ASSUME NEW down, UNCHANGED stored
    PROVE  ListWith(down)' = ListWith(down)
<1>1. \A x : Series(x)' = Series(x) /\ Rich(x)' = Rich(x) /\ Score(x)' = Score(x)
  BY ScoresUnchanged
<1>2. \A x : Events(x, down)' = Events(x, down)
  BY <1>1 DEF Events
<1>3. \A x : Total(x, down)' = Total(x, down)
  BY <1>2 DEF Total
<1>4. \A x : Activity(x, down)' = Activity(x, down)
  BY <1>1 DEF Activity
<1>5. Totals(down)' = Totals(down) /\ Activities(down)' = Activities(down)
  BY <1>3, <1>4 DEF Totals, Activities
<1>6. \A x : PassesQualityGate(x, down)' = PassesQualityGate(x, down)
  BY <1>1 DEF PassesQualityGate
<1>7. Scored(down)' = Scored(down) /\ Ranking(down)' = Ranking(down)
  BY <1>5 DEF Scored, Ranking
<1> QED BY <1>6, <1>7 DEF ListWith

LEMMA SweepInvStep == SweepInv /\ [SweepNext]_sweepVars => SweepInv'
<1> SUFFICES ASSUME SweepInv, [SweepNext]_sweepVars PROVE SweepInv'
  OBVIOUS
<1>1. UNCHANGED <<stored, broken>>
  BY DEF SweepNext, Discover, FocusSet, sweepVars
<1>2. PICK down : down = broken
  OBVIOUS
<1>3. ListWith(down)' = ListWith(down) /\ broken' = down
  BY <1>1, <1>2, ListUnchanged
<1>4. candidates' = candidates \/ candidates' = ListWith(down)
  BY <1>2 DEF SweepNext, Discover, FocusSet, sweepVars
<1>5. SweepTypes'
  BY <1>1 DEF SweepInv, SweepTypes
<1>6. (candidates # <<"unset">>)' => candidates' = ListWith(down)
  BY <1>2, <1>4 DEF SweepInv, Swept
<1> QED BY <1>2, <1>3, <1>5, <1>6 DEF SweepInv, Swept

LEMMA SweepInvAlways == SweepSpec => []SweepInv
BY SweepInvInit, SweepInvStep, PTL DEF SweepSpec

(* The cap of a sweep leaves off what scored least: a tradeable name that  *)
(* is not listed lost to a full list of names that scored more, or as much *)
(* with more activity, or the same in both under an earlier name           *)
(* (discovery.py:832-840).                                                 *)
THEOREM CapAlwaysKeepsBest == SweepSpec => []CapKeepsBest
<1>1. SweepInv => CapKeepsBest
  <2> SUFFICES ASSUME SweepInv, Swept, NEW x \in Symbols \ Range(candidates),
                      Total(x, broken) > 0, PassesQualityGate(x, broken)
               PROVE  /\ Len(candidates) = MaxCandidates
                      /\ \A y \in Range(candidates) :
                            \/ Total(y, broken) > Total(x, broken)
                            \/ Total(y, broken) = Total(x, broken) /\ Activity(y, broken) > Activity(x, broken)
                            \/ Total(y, broken) = Total(x, broken) /\ Activity(y, broken) = Activity(x, broken)
                               /\ Place(y) < Place(x)
    BY DEF CapKeepsBest
  <2> DEFINE S     == Listable(broken)
             order == Ranking(broken)
             n     == Cardinality(S)
  <2>1. /\ S = {y \in Symbols : Total(y, broken) > 0 /\ PassesQualityGate(y, broken)}
        /\ IsFiniteSet(S) /\ Orders(order, S) /\ n \in Nat
        /\ Len(candidates) = IF MaxCandidates <= n THEN MaxCandidates ELSE n
        /\ Range(candidates) = {y \in S : Rank(order, S, y) < MaxCandidates}
    BY ListIsFirst DEF SweepInv
  <2>2. ASSUME NEW y \in Symbols, <<y, x>> \in order
        PROVE  \/ Total(y, broken) > Total(x, broken)
               \/ Total(y, broken) = Total(x, broken) /\ Activity(y, broken) > Activity(x, broken)
               \/ Total(y, broken) = Total(x, broken) /\ Activity(y, broken) = Activity(x, broken)
                  /\ Place(y) < Place(x)
    BY <2>2, RankingMeans
  <2> HIDE DEF order, S
  <2>3. /\ \A y \in S : Rank(order, S, y) \in 0 .. n - 1
        /\ \A y, z \in S : <<y, z>> \in order => Rank(order, S, y) < Rank(order, S, z)
    BY <2>1, Ranks
  <2>4. MaxCandidates \in Nat
    BY SweepAssumption
  <2>5. x \in S /\ ~(Rank(order, S, x) < MaxCandidates)
    BY <2>1
  <2>6. Len(candidates) = MaxCandidates
    BY <2>1, <2>3, <2>4, <2>5
  <2>7. ASSUME NEW y \in Range(candidates)
        PROVE  y \in Symbols /\ <<y, x>> \in order
    <3>1. y \in S /\ Rank(order, S, y) < MaxCandidates
      BY <2>1
    <3>2. ~(Rank(order, S, x) < Rank(order, S, y)) /\ x # y
      BY <2>3, <2>4, <2>5, <3>1
    <3>3. <<x, y>> \in order \/ <<y, x>> \in order
      BY <2>1, <2>5, <3>1, <3>2 DEF Orders
    <3> QED BY <2>1, <2>3, <2>5, <3>1, <3>2, <3>3
  <2> QED BY <2>2, <2>6, <2>7
<1> QED BY <1>1, SweepInvAlways, PTL

(* A trigger that raises costs its own events only: a name that it does    *)
(* not score and that a healthy sweep lists is listed all the same         *)
(* (discovery.py:803-830), whatever the others lose.                       *)
THEOREM FailureAlwaysCostsOnlyItsEvents == SweepSpec => []FailureCostsOnlyItsEvents
<1>1. SweepInv => FailureCostsOnlyItsEvents
  <2> SUFFICES ASSUME SweepInv, Swept, {"series", "volume_and_moves"} \cap broken = {},
                      NEW x \in Range(ListWith({})), \A t \in broken : Score(x)[t] = 0
               PROVE  x \in Range(candidates)
    BY DEF FailureCostsOnlyItsEvents
  <2> DEFINE S    == Listable(broken)
             all  == Listable({})
             some == Ranking(broken)
             full == Ranking({})
  <2>0. SweepTypes /\ "series" \notin broken /\ "volume_and_moves" \notin broken
    BY DEF SweepInv
  <2>1. /\ S = {y \in Symbols : Total(y, broken) > 0 /\ PassesQualityGate(y, broken)}
        /\ Range(candidates) = {y \in S : Rank(some, S, y) < MaxCandidates}
    BY ListIsFirst DEF SweepInv
  <2>2. /\ all = {y \in Symbols : Total(y, {}) > 0 /\ PassesQualityGate(y, {})}
        /\ IsFiniteSet(all)
        /\ Range(ListWith({})) = {y \in all : Rank(full, all, y) < MaxCandidates}
    BY ListIsFirst DEF SweepInv
  <2>3. x \in Symbols /\ Total(x, {}) = Total(x, broken)
    BY <2>0, <2>2, FailureSpares
  <2>4. \A y \in Symbols : PassesQualityGate(y, {}) <=> PassesQualityGate(y, broken)
    BY <2>0 DEF PassesQualityGate
  <2>5. \A y \in Symbols : Activity(y, {}) = Activity(y, broken)
    BY <2>0 DEF Activity
  <2>6. \A y \in Symbols : /\ Total(y, broken) \in Int /\ Total(y, {}) \in Int
                            /\ Total(y, broken) <= Total(y, {})
    BY <2>0, TotalKnown, FailureAddsNothing
  <2>7. x \in S
    BY <2>1, <2>2, <2>3, <2>4
  <2>8. Earlier(some, S, x) \subseteq Earlier(full, all, x)
    <3> SUFFICES ASSUME NEW y \in S, <<y, x>> \in some
                 PROVE  y \in all /\ <<y, x>> \in full
      BY DEF Earlier
    <3>1. y \in Symbols /\ Total(y, broken) > 0 /\ PassesQualityGate(y, broken)
      BY <2>1
    <3>2. y \in all
      BY <2>2, <2>4, <2>6, <3>1
    <3>3. \/ Total(y, broken) > Total(x, broken)
          \/ Total(y, broken) = Total(x, broken) /\ Activity(y, broken) > Activity(x, broken)
          \/ Total(y, broken) = Total(x, broken) /\ Activity(y, broken) = Activity(x, broken)
             /\ Place(y) < Place(x)
      BY <2>3, <3>1, RankingMeans
    <3>4. \/ Total(y, {}) > Total(x, {})
          \/ Total(y, {}) = Total(x, {}) /\ Activity(y, {}) > Activity(x, {})
          \/ Total(y, {}) = Total(x, {}) /\ Activity(y, {}) = Activity(x, {})
             /\ Place(y) < Place(x)
      BY <2>3, <2>5, <2>6, <3>1, <3>3
    <3>5. <<y, x>> \in full
      BY <2>3, <3>1, <3>4, RankingMeans
    <3> QED BY <3>2, <3>5
  <2>9. IsFiniteSet(Earlier(full, all, x))
    <3>1. Earlier(full, all, x) \subseteq all
      BY DEF Earlier
    <3> QED BY <2>2, <3>1, FS_Subset
  <2>10. /\ Rank(some, S, x) \in Nat /\ Rank(full, all, x) \in Nat
         /\ Rank(some, S, x) <= Rank(full, all, x)
    BY <2>8, <2>9, FS_Subset, FS_CardinalityType DEF Rank
  <2>11. Rank(full, all, x) < MaxCandidates
    BY <2>2
  <2>12. Rank(some, S, x) < MaxCandidates
    BY <2>10, <2>11, SweepAssumption
  <2> QED BY <2>1, <2>7, <2>12
<1> QED BY <1>1, SweepInvAlways, PTL
=============================================================================
