-------------------------- MODULE TrendReportProofs --------------------------
(***************************************************************************)
(* Proofs about TrendReport, for any themes, markets, corpora and profile, *)
(* and any number of sessions that overlap.  Behind them is one fact: a    *)
(* session that has got as far as the reviews holds the row of every theme *)
(* it shows, so nobody else is reviewing, buying or storing those.         *)
(***************************************************************************)
EXTENDS TrendReport, SumTheorems, FiniteSetTheorems, FunctionTheorems, WellFoundedInduction, TLAPS

(* A bounded set of naturals has a greatest element. *)
LEMMA MaxExists ==
    ASSUME NEW S \in SUBSET Nat, S # {}, NEW b \in Nat, \A x \in S : x <= b
    PROVE  Max(S) \in S /\ \A x \in S : x <= Max(S)
<1> DEFINE bounds == {n \in Nat : \A x \in S : x <= n}
           less == OpToRel(<, Nat)
<1>1. PICK m \in bounds : \A n \in bounds : ~(<<n, m>> \in less)
  <2>1. bounds # {} /\ bounds \subseteq Nat
    OBVIOUS
  <2> HIDE DEF bounds
  <2> QED BY <2>1, NatLessThanWellFounded, WFMin
<1>2. \A n \in bounds : m <= n
  <2>1. \A i, j \in Nat : i < j => <<i, j>> \in less
    BY DEF OpToRel
  <2>2. bounds \subseteq Nat
    OBVIOUS
  <2> HIDE DEF bounds, less
  <2>3. ASSUME NEW n \in bounds
        PROVE  m <= n
    <3>1. m \in Nat /\ n \in Nat /\ ~(<<n, m>> \in less)
      BY <1>1, <2>2
    <3> QED BY <2>1, <3>1
  <2> QED BY <2>3
<1>3. m \in S
  <2> SUFFICES ASSUME m \notin S PROVE FALSE
    OBVIOUS
  <2>1. \A x \in S : x <= m - 1
    OBVIOUS
  <2>2. m - 1 \in Nat
    <3>1. PICK x \in S : x \in Nat /\ x <= m - 1
      BY <2>1
    <3> QED BY <3>1
  <2> QED BY <1>2, <2>1, <2>2
<1>4. \E x \in S : \A y \in S : x >= y
  BY <1>3
<1> QED BY <1>4 DEF Max

(* The lesser of two numbers. *)
LEMMA MinOfTwo ==
    ASSUME NEW a \in Int, NEW b \in Int
    PROVE  Min({a, b}) = IF a <= b THEN a ELSE b
<1> DEFINE m == IF a <= b THEN a ELSE b
<1>1. m \in {a, b} /\ \A y \in {a, b} : m <= y
  OBVIOUS
<1>2. \A x \in {a, b} : (\A y \in {a, b} : x <= y) => x = m
  OBVIOUS
<1> QED BY <1>1, <1>2 DEF Min

(* The greater of two numbers. *)
LEMMA MaxOfTwo ==
    ASSUME NEW a \in Int, NEW b \in Int
    PROVE  Max({a, b}) = IF a >= b THEN a ELSE b
<1> DEFINE m == IF a >= b THEN a ELSE b
<1>1. m \in {a, b} /\ \A y \in {a, b} : m >= y
  OBVIOUS
<1>2. \A x \in {a, b} : (\A y \in {a, b} : x >= y) => x = m
  OBVIOUS
<1> QED BY <1>1, <1>2 DEF Max

(* The place of an element among finitely many is its own, and every place *)
(* is taken: the order loses nobody.                                       *)
LEMMA StrongestFirstCovers ==
    ASSUME NEW order, NEW shown, order \in Seq(Themes), \A t \in DOMAIN shown : shown[t].score \in Int
    PROVE  LET sorted == StrongestFirst(order, shown) IN
           /\ sorted \in Seq(DOMAIN shown) /\ Len(sorted) \in Nat
           /\ \A k \in 1 .. Len(sorted) : sorted[k] \in DOMAIN shown
           /\ \A i \in DOMAIN order : order[i] \in DOMAIN shown =>
                 \E k \in 1 .. Len(sorted) : sorted[k] = order[i]
<1> DEFINE places == {i \in DOMAIN order : order[i] \in DOMAIN shown}
           ahead(i) == Ahead(order, shown, places, i)
           n == Cardinality(places)
           rank == [i \in places |-> Cardinality(ahead(i))]
           sorted == StrongestFirst(order, shown)
<1>1. DOMAIN order = 1 .. Len(order) /\ Len(order) \in Nat
  OBVIOUS
<1>2. IsFiniteSet(places) /\ n \in Nat /\ places \subseteq Int
  <2>1. IsFiniteSet(1 .. Len(order))
    BY <1>1, FS_Interval
  <2>2. places \subseteq 1 .. Len(order)
    BY <1>1
  <2> HIDE DEF places
  <2>3. IsFiniteSet(places)
    BY <2>1, <2>2, FS_Subset
  <2> QED BY <2>2, <2>3, FS_CardinalityType
<1>3. \A i \in places : shown[order[i]].score \in Int
  OBVIOUS
<1>4. \A i \in places : order[i] \in DOMAIN shown
  OBVIOUS
<1>5. sorted = [k \in 1 .. n |-> order[CHOOSE i \in places : Cardinality(ahead(i)) = k - 1]]
  BY DEF StrongestFirst
<1>6. \A i \in DOMAIN order : order[i] \in DOMAIN shown => i \in places
  OBVIOUS
<1> HIDE DEF places
<1>7. ASSUME NEW i \in places
      PROVE  /\ IsFiniteSet(ahead(i)) /\ Cardinality(ahead(i)) \in Nat
             /\ Cardinality(ahead(i)) < n
             /\ i \notin ahead(i)
  <2>1. ahead(i) \subseteq places /\ i \notin ahead(i)
    BY <1>2, <1>3 DEF Ahead
  <2> HIDE DEF ahead
  <2>2. IsFiniteSet(ahead(i)) /\ Cardinality(ahead(i)) <= n
        /\ (n = Cardinality(ahead(i)) => places = ahead(i))
    BY <1>2, <2>1, FS_Subset
  <2>3. Cardinality(ahead(i)) \in Nat
    BY <2>2, FS_CardinalityType
  <2> QED BY <1>2, <2>1, <2>2, <2>3
<1>8. ASSUME NEW i \in places, NEW j \in places, i \in ahead(j)
      PROVE  Cardinality(ahead(i)) < Cardinality(ahead(j))
  <2>1. ahead(i) \subseteq ahead(j)
    <3> DEFINE points(h) == shown[order[h]].score
    <3>1. \A g, h \in places : g \in ahead(h) <=>
             points(g) > points(h) \/ (points(g) = points(h) /\ g < h)
      BY DEF Ahead
    <3>2. \A h \in places : points(h) \in Int /\ h \in Int
      BY <1>2, <1>3
    <3>3. ahead(i) \subseteq places
      BY DEF Ahead
    <3> HIDE DEF ahead, points
    <3>4. ASSUME NEW h \in places, h \in ahead(i)
          PROVE  h \in ahead(j)
      <4>1. /\ points(h) > points(i) \/ (points(h) = points(i) /\ h < i)
            /\ points(i) > points(j) \/ (points(i) = points(j) /\ i < j)
        BY <1>8, <3>1, <3>4
      <4>2. points(h) > points(j) \/ (points(h) = points(j) /\ h < j)
        BY <3>2, <4>1
      <4> QED BY <3>1, <4>2
    <3> QED BY <3>3, <3>4
  <2>2. i \notin ahead(i)
    BY <1>7
  <2>3. /\ IsFiniteSet(ahead(j)) /\ Cardinality(ahead(j)) \in Nat
        /\ Cardinality(ahead(i)) \in Nat
    BY <1>7
  <2> HIDE DEF ahead
  <2>4. /\ Cardinality(ahead(i)) <= Cardinality(ahead(j))
        /\ Cardinality(ahead(j)) = Cardinality(ahead(i)) => ahead(j) = ahead(i)
    BY <2>1, <2>3, FS_Subset
  <2> QED BY <1>8, <2>2, <2>3, <2>4
<1>9. ASSUME NEW i \in places, NEW j \in places, i # j
      PROVE  Cardinality(ahead(i)) # Cardinality(ahead(j))
  <2>1. i \in ahead(j) \/ j \in ahead(i)
    BY <1>2, <1>3, <1>9 DEF Ahead
  <2>2. Cardinality(ahead(i)) \in Nat /\ Cardinality(ahead(j)) \in Nat
    BY <1>7
  <2> HIDE DEF ahead
  <2> QED BY <1>8, <2>1, <2>2
<1> HIDE DEF ahead
<1>10. rank \in Injection(places, 0 .. n - 1)
  <2>1. rank \in [places -> 0 .. n - 1]
    BY <1>2, <1>7
  <2>2. \A i, j \in places : rank[i] = rank[j] => i = j
    BY <1>9
  <2> QED BY <2>1, <2>2 DEF Injection, IsInjective
<1>11. rank \in Surjection(places, 0 .. n - 1)
  <2>1. IsFiniteSet(0 .. n - 1) /\ Cardinality(0 .. n - 1) = n
    <3> HIDE DEF n
    <3>1. n \in Nat /\ n - 1 \in Int /\ (0 > n - 1 => n = 0) /\ n - 1 - 0 + 1 = n
      BY <1>2
    <3> QED BY <3>1, FS_Interval
  <2> HIDE DEF rank
  <2> QED BY <1>10, <2>1, FS_Injection
<1>12. ASSUME NEW k \in 1 .. n
       PROVE  \E i \in places : /\ Cardinality(ahead(i)) = k - 1
                                /\ sorted[k] = order[i]
  <2>1. k - 1 \in 0 .. n - 1
    BY <1>2
  <2>2. PICK i \in places : rank[i] = k - 1
    BY <1>11, <2>1 DEF Surjection
  <2>3. Cardinality(ahead(i)) = k - 1
    BY <2>2
  <2>4. sorted[k] = order[CHOOSE j \in places : Cardinality(ahead(j)) = k - 1]
    BY <1>5
  <2> HIDE DEF sorted
  <2>5. (CHOOSE j \in places : Cardinality(ahead(j)) = k - 1) = i
    BY <1>9, <2>3
  <2> QED BY <2>3, <2>4, <2>5
<1>13. Len(sorted) = n /\ sorted \in Seq(DOMAIN shown)
  <2> HIDE DEF sorted
  <2>1. sorted \in [1 .. n -> {order[i] : i \in places}]
    <3>1. \A k \in 1 .. n : sorted[k] \in {order[i] : i \in places}
      BY <1>12
    <3>2. sorted = [k \in 1 .. n |-> sorted[k]]
      BY <1>5
    <3> QED BY <3>1, <3>2
  <2>2. sorted \in Seq({order[i] : i \in places}) /\ {order[i] : i \in places} \subseteq DOMAIN shown
    BY <1>2, <1>4, <2>1
  <2> QED BY <1>2, <2>1, <2>2
<1> HIDE DEF sorted
<1>14. \A k \in 1 .. n : sorted[k] \in DOMAIN shown
  BY <1>4, <1>12
<1>15. ASSUME NEW i \in places
       PROVE  \E k \in 1 .. n : sorted[k] = order[i]
  <2> DEFINE k == Cardinality(ahead(i)) + 1
  <2>1. k \in 1 .. n /\ k - 1 = Cardinality(ahead(i))
    BY <1>2, <1>7
  <2>2. PICK j \in places : Cardinality(ahead(j)) = k - 1 /\ sorted[k] = order[j]
    BY <1>12, <2>1
  <2>3. j = i
    BY <1>9, <2>1, <2>2
  <2> QED BY <2>1, <2>2, <2>3
<1> QED BY <1>2, <1>6, <1>13, <1>14, <1>15 DEF sorted

-----------------------------------------------------------------------------
\* What a score must be: a number, and low without a confirmation.
Fine(a) ==
    /\ {"score", "label", "confirmed"} \subseteq DOMAIN a
    /\ a.score \in Int
    /\ a.confirmed = 0 => a.score <= 6000

(* The ceiling of what nothing confirms. *)
LEMMA CeilingWithoutConfirmation ==
    ASSUME NEW parts, NEW flags, NEW raw
    PROVE  /\ Legitimacy(parts, flags, raw).cap \in Int
           /\ Confirmations(parts) = 0 => Legitimacy(parts, flags, raw).cap <= 6000
<1> DEFINE n == Cardinality(flags)
           k == Confirmations(parts)
           covered == Cardinality(Covered(parts))
<1>1. Legitimacy(parts, flags, raw).cap =
        (IF covered < 3 THEN 4500
         ELSE IF n >= 2 /\ k = 0 THEN 3500
         ELSE IF n >= 1 /\ k <= 1 THEN 6000
         ELSE IF k >= 2 /\ raw >= 5500 THEN Hundred
         ELSE IF k >= 1 THEN 8500
         ELSE 5500)
  BY DEF Legitimacy
<1> HIDE DEF n, k, covered
<1> QED BY <1>1 DEF Hundred, k

(* The sums of a score are numbers, so the ceiling holds. *)
LEMMA AssessedIsFine ==
    ASSUME NEW m \in DOMAIN Markets, NEW c \in DOMAIN Corpora, NEW t \in Themes
    PROVE  Fine(Assessed[m][c][t])
<1> DEFINE a == Assess(Markets[m], Corpora[c], t)
           parts == Parts(Markets[m], Corpora[c], t)
           sum == Weighted(t, parts) + PersistenceBonus(Markets[m].past[t])
           flags == HypeFlags(parts, Read(Markets[m], Corpora[c], t))
           cap == Legitimacy(parts, flags, Points(sum)).cap
<1>1. Assessed[m][c][t] = a
  BY DEF Assessed
<1>2. /\ a.score = Min({Points(sum), cap})
      /\ a.confirmed = Confirmations(parts)
      /\ {"score", "label", "confirmed"} \subseteq DOMAIN a
  BY DEF Assess
<1>3. sum \in Int
  BY ScoringAssumption
<1>4. cap \in Int /\ (Confirmations(parts) = 0 => cap <= 6000)
  BY CeilingWithoutConfirmation
<1> HIDE DEF a, parts, sum, cap
<1>5. Points(sum) \in Int
  <2>1. Hundred \in Int
    BY DEF Hundred
  <2>2. Min({Hundred, sum}) \in Int
    BY <1>3, <2>1, MinOfTwo
  <2> HIDE DEF Min
  <2>3. Max({0, Min({Hundred, sum})}) \in Int
    BY <2>2, MaxOfTwo
  <2> QED BY <2>3 DEF Points, Clamp
<1>6. Min({Points(sum), cap}) = IF Points(sum) <= cap THEN Points(sum) ELSE cap
  BY <1>4, <1>5, MinOfTwo
<1> QED BY <1>1, <1>2, <1>4, <1>5, <1>6 DEF Fine

(* A review lowers a score at most, and confirms nothing. *)
LEMMA ReviewedIsFine ==
    ASSUME NEW a, Fine(a), NEW v \in Verdicts
    PROVE  Fine(Reviewed(a, v)) /\ DOMAIN Reviewed(a, v) = DOMAIN a
<1> DEFINE lowered == (Multiplier(v) * a.score) \div 100
           b == Reviewed(a, v)
<1>1. Multiplier(v) \in Int
  BY DEF Multiplier, Verdicts
<1>2. lowered \in Int /\ a.score \in Int
  BY <1>1 DEF Fine
<1>3. /\ b.score = Min({a.score, lowered})
      /\ b.confirmed = a.confirmed
      /\ DOMAIN b = DOMAIN a
  BY DEF Reviewed, Fine
<1> HIDE DEF lowered, b
<1>4. b.score \in Int /\ b.score <= a.score
  BY <1>2, <1>3, MinOfTwo
<1> QED BY <1>3, <1>4 DEF Fine, b
-----------------------------------------------------------------------------
Fields == {"pc", "kind", "corpus", "shown", "order", "next", "seen", "rows",
           "torn", "bought", "picks", "texts", "id"}

Steps   == {"idle", "score", "look", "write", "review", "send", "commit"}
Storing == {"look", "write"}
Stored  == {"review", "send", "commit"}
Ending  == {"send", "commit"}

Cols == {"score", "label"}

IsRow(x) == x = [c \in Cols |-> x[c]]

\* A session's order and what it shows name the same themes.
OrderCovers(r) ==
    /\ r.order \in Seq(DOMAIN r.shown) /\ Len(r.order) \in Nat /\ r.next \in Nat \ {0}
    /\ \A i \in 1 .. Len(r.order) : r.order[i] \in DOMAIN r.shown
    /\ \A t \in DOMAIN r.shown : \E i \in 1 .. Len(r.order) : r.order[i] = t

\* How far a session has got with the rows of what it shows.
RowsFollow(r) ==
    /\ r.pc \in {"idle", "score"} => DOMAIN r.rows = {} /\ r.next = 1
    /\ r.pc \in Storing \cup {"review"} => OrderCovers(r)
    /\ r.pc \in Storing => /\ r.next <= Len(r.order)
                           /\ \A i \in 1 .. r.next - 1 : r.order[i] \in DOMAIN r.rows
    /\ r.pc \in Stored => DOMAIN r.shown \subseteq DOMAIN r.rows
    /\ \A t \in DOMAIN r.rows : IsRow(r.rows[t])

\* An opinion is bought on a theme whose row is held.
BuysFollow(r) ==
    /\ r.pc \notin Stored => r.bought = {}
    /\ \A e \in r.bought : e.story.theme \in DOMAIN r.rows /\ e.verdict \in Verdicts

GoodSession(r) ==
    /\ Fields \subseteq DOMAIN r /\ r.pc \in Steps
    /\ DOMAIN r.shown \subseteq Themes
    /\ \A t \in DOMAIN r.shown : Fine(r.shown[t])
    /\ r.pc = "score" => r.corpus \in DOMAIN Corpora \cup {NotKnown}
    /\ r.pc \notin {"idle", "score"} => r.corpus \in DOMAIN Corpora
    /\ RowsFollow(r) /\ BuysFollow(r)
    /\ r.pc # "commit" => DOMAIN r.texts = {}
    /\ r.id \in Nat /\ (r.id # 0 => r.pc \in Ending)

\* The rows are what the market made of the corpus, then what is shown.
Faithful(r, m) ==
    /\ r.pc \in Storing =>
          \A t \in DOMAIN r.shown : r.shown[t] = Assessed[m][r.corpus][t]
    /\ r.pc \in Storing \cup {"review"} =>
          \A t \in DOMAIN r.rows \ r.torn : r.rows[t] = Columns(Assessed[m][r.corpus][t])
    /\ r.pc \in Ending =>
          \A t \in DOMAIN r.shown \ r.torn : r.rows[t] = Columns(r.shown[t])

\* Who has seen a row will find one.
SeenFits(r, stored) ==
    r.pc = "write" => LET t == r.order[r.next] IN r.seen[t] = NotKnown \/ IsRow(stored[t])

UnpaidFor(r, known) == \A e \in r.bought, f \in known : e.story # f.story

\* A report committed after this one was built shares no theme with it.
LaterElsewhere(r, stored) ==
    r.id # 0 => \A x \in stored : x.id > r.id => x.themes \cap DOMAIN r.shown = {}

TextElsewhere(r, stored) ==
    r.id # 0 => \A i \in DOMAIN r.texts : i # r.id =>
                    \E x \in stored : x.id = i /\ x.themes \cap DOMAIN r.shown = {}

Fits(r, stored, known, written) ==
    /\ SeenFits(r, stored) /\ UnpaidFor(r, known)
    /\ LaterElsewhere(r, written) /\ TextElsewhere(r, written)

RowsLocked ==
    \A s, o \in Sessions : s # o => DOMAIN session[s].rows \cap DOMAIN session[o].rows = {}

IdsBelow(b) == /\ \A x \in reports : x.id \in 0 .. b
               /\ \A s \in Sessions : session[s].id \in 0 .. b

ReportInv ==
    /\ market \in DOMAIN Markets /\ documents \in DOMAIN Corpora
    /\ session = [s \in Sessions |-> session[s]]
    /\ \A t \in Themes : snapshots[t] = NotKnown \/ IsRow(snapshots[t])
    /\ \A e \in cache : e.verdict \in Verdicts
    /\ \A x \in reports : {"id", "themes"} \subseteq DOMAIN x
    /\ \A s \in Sessions : /\ GoodSession(session[s]) /\ Faithful(session[s], market)
                           /\ Fits(session[s], snapshots, cache, reports)
    /\ RowsLocked
    /\ \E b \in Nat : IdsBelow(b)

Moves(s, q) == session' = [t \in Sessions |-> IF t = s THEN q ELSE session[t]]

Keeps(q, r, changed) ==
    /\ Fields \subseteq DOMAIN q
    /\ \A f \in Fields \ changed : q[f] = r[f]

(* A session that fits goes on, and nothing is committed. *)
LEMMA SessionGoesOn ==
    ASSUME ReportInv, NEW s \in Sessions, NEW q, Moves(s, q),
           GoodSession(q), Faithful(q, market), Fits(q, snapshots, cache, reports),
           UNCHANGED <<market, snapshots, cache, reports>>, documents' \in DOMAIN Corpora,
           \A o \in Sessions \ {s} : DOMAIN q.rows \cap DOMAIN session[o].rows = {}
    PROVE  ReportInv'
<1>1. \A t \in Sessions : session'[t] = IF t = s THEN q ELSE session[t]
  BY DEF Moves
<1>2. session' = [t \in Sessions |-> session'[t]]
  BY <1>1 DEF Moves
<1>3. ASSUME NEW t \in Sessions
      PROVE  /\ GoodSession(session'[t]) /\ Faithful(session'[t], market')
             /\ Fits(session'[t], snapshots', cache', reports')
  BY <1>1, Zenon DEF ReportInv
<1>4. RowsLocked'
  <2> SUFFICES ASSUME NEW t \in Sessions, NEW o \in Sessions, t # o
               PROVE  DOMAIN session'[t].rows \cap DOMAIN session'[o].rows = {}
    BY DEF RowsLocked
  <2>1. CASE t = s
    BY <1>1, <2>1
  <2>2. CASE o = s
    BY <1>1, <2>2
  <2>3. CASE t # s /\ o # s
    BY <1>1, <2>3 DEF ReportInv, RowsLocked
  <2> QED BY <2>1, <2>2, <2>3
<1>5. \E b \in Nat : IdsBelow(b)'
  <2>1. PICK b \in Nat : IdsBelow(b)
    BY DEF ReportInv
  <2>2. q.id \in Nat
    BY DEF GoodSession
  <2> DEFINE c == b + q.id
  <2>3. c \in Nat /\ 0 .. b \subseteq 0 .. c /\ q.id \in 0 .. c
    BY <2>1, <2>2
  <2> HIDE DEF c
  <2>4. \A x \in reports : x.id \in 0 .. c
    BY <2>1, <2>3 DEF IdsBelow
  <2>5. \A t \in Sessions : session'[t].id \in 0 .. c
    BY <1>1, <2>1, <2>3 DEF IdsBelow
  <2>6. IdsBelow(c)'
    BY <2>4, <2>5 DEF IdsBelow
  <2> QED BY <2>3, <2>6
<1> QED BY <1>2, <1>3, <1>4, <1>5 DEF ReportInv

(* What is known of a session. *)
LEMMA OfSession ==
    ASSUME ReportInv, NEW s \in Sessions
    PROVE  /\ GoodSession(session[s]) /\ Faithful(session[s], market)
           /\ Fits(session[s], snapshots, cache, reports)
           /\ \A o \in Sessions \ {s} : DOMAIN session[s].rows \cap DOMAIN session[o].rows = {}
BY DEF ReportInv, RowsLocked

\* A session that is idle or starts: without rows, opinions and a report.
Fresh(r) ==
    /\ Fields \subseteq DOMAIN r
    /\ DOMAIN r.shown = {} /\ DOMAIN r.rows = {} /\ DOMAIN r.texts = {}
    /\ r.bought = {} /\ r.next = 1 /\ r.id = 0
    /\ \/ r.pc = "idle"
       \/ r.pc = "score" /\ r.corpus \in DOMAIN Corpora \cup {NotKnown}

LEMMA FreshFits ==
    ASSUME NEW q, Fresh(q), NEW m, NEW stored, NEW known, NEW written
    PROVE  /\ GoodSession(q) /\ Faithful(q, m) /\ Fits(q, stored, known, written)
           /\ DOMAIN q.rows = {}
<1>1. RowsFollow(q) /\ BuysFollow(q)
  BY DEF Fresh, RowsFollow, BuysFollow, Storing, Stored
<1>2. GoodSession(q)
  BY <1>1 DEF Fresh, GoodSession, Steps, Ending
<1>3. Faithful(q, m)
  BY DEF Fresh, Faithful, Storing, Ending
<1>4. Fits(q, stored, known, written)
  BY DEF Fresh, Fits, SeenFits, UnpaidFor, LaterElsewhere, TextElsewhere
<1> QED BY <1>2, <1>3, <1>4 DEF Fresh

LEMMA NothingInEmpty == DOMAIN << >> = {}
OBVIOUS

LEMMA IdleIsFresh == Fresh(Idle) /\ Idle.pc = "idle"
<1>1. /\ DOMAIN Idle = {"pc", "kind", "corpus", "cap", "shown", "order", "next", "seen", "rows",
                        "torn", "calls", "bought", "picks", "texts", "id"}
      /\ Idle.shown = << >> /\ Idle.rows = << >> /\ Idle.texts = << >>
      /\ Idle.bought = {} /\ Idle.next = 1 /\ Idle.id = 0 /\ Idle.pc = "idle"
  BY DEF Idle
<1>2. Fields \subseteq DOMAIN Idle
  BY <1>1 DEF Fields
<1> HIDE DEF Idle
<1>3. DOMAIN Idle.shown = {} /\ DOMAIN Idle.rows = {} /\ DOMAIN Idle.texts = {}
  BY <1>1, NothingInEmpty, Zenon
<1> QED BY <1>1, <1>2, <1>3 DEF Fresh

LEMMA RolledBackPreserves ==
    ASSUME ReportInv, NEW s \in Sessions, RolledBack(s)
    PROVE  ReportInv'
<1>1. Moves(s, Idle)
  BY DEF RolledBack, Moves, ReportInv
<1>2. /\ GoodSession(Idle) /\ Faithful(Idle, market) /\ Fits(Idle, snapshots, cache, reports)
      /\ DOMAIN Idle.rows = {}
  BY IdleIsFresh, FreshFits
<1>3. UNCHANGED <<market, snapshots, cache, reports>> /\ documents' \in DOMAIN Corpora
  BY DEF RolledBack, ReportInv
<1> HIDE DEF Idle
<1> QED BY <1>1, <1>2, <1>3, SessionGoesOn

LEMMA StartPreserves ==
    ASSUME ReportInv, NEW s \in Sessions, NEW kind, Start(s, kind)
    PROVE  ReportInv'
<1>1. PICK corpus, cap :
        /\ corpus \in DOMAIN Corpora
        /\ session' = [session EXCEPT ![s] =
               [Idle EXCEPT !.pc = "score", !.kind = kind, !.cap = cap,
                            !.corpus = IF kind = "collect" THEN corpus ELSE NotKnown]]
        /\ documents' = IF kind = "trend" THEN corpus ELSE documents
  BY DEF Start, ReportInv
<1> DEFINE first == IF kind = "collect" THEN corpus ELSE NotKnown
           q == [Idle EXCEPT !.pc = "score", !.kind = kind, !.cap = cap, !.corpus = first]
<1>2. first \in DOMAIN Corpora \cup {NotKnown}
  BY <1>1
<1>3. Moves(s, q)
  BY <1>1 DEF Moves, ReportInv
<1> HIDE DEF first
<1>4. Fresh(q)
  BY <1>2, IdleIsFresh DEF Fresh, Fields
<1> HIDE DEF q
<1>5. UNCHANGED <<market, snapshots, cache, reports>> /\ documents' \in DOMAIN Corpora
  BY <1>1 DEF Start, ReportInv
<1> QED BY <1>3, <1>4, <1>5, FreshFits, SessionGoesOn

(* Where a session goes after the scoring. *)
LEMMA OnwardSteps ==
    ASSUME NEW kind, NEW scored
    PROVE  /\ Onward(kind, scored) \in {"look", "send", "commit"}
           /\ Onward(kind, scored) = "look" <=> scored # {}
<1>1. CASE scored # {}
  BY <1>1 DEF Onward
<1>2. CASE scored = {} /\ kind = "report"
  BY <1>2 DEF Onward
<1>3. CASE scored = {} /\ kind # "report"
  BY <1>3 DEF Onward
<1> QED BY <1>1, <1>2, <1>3

LEMMA ScorePreserves ==
    ASSUME ReportInv, NEW s \in Sessions, Score(s)
    PROVE  ReportInv'
<1> DEFINE r == session[s]
           corpus == IF r.corpus = NotKnown THEN documents ELSE r.corpus
<1>1. PICK scored \in SUBSET Themes :
        LET shown == [t \in scored |-> Assessed[market][corpus][t]]
        IN  session' = [session EXCEPT
              ![s].corpus = corpus, ![s].shown = shown,
              ![s].order = StrongestFirst(Taxonomy, shown),
              ![s].pc = Onward(r.kind, scored)]
  BY DEF Score
<1> DEFINE shown == [t \in scored |-> Assessed[market][corpus][t]]
           order == StrongestFirst(Taxonomy, shown)
           step == Onward(r.kind, scored)
           q == [r EXCEPT !.corpus = corpus, !.shown = shown, !.order = order, !.pc = step]
<1>2. GoodSession(r) /\ Fits(r, snapshots, cache, reports)
      /\ \A o \in Sessions \ {s} : DOMAIN r.rows \cap DOMAIN session[o].rows = {}
  BY OfSession
<1>3. r.pc = "score"
  BY DEF Score
<1>4. Moves(s, q)
  BY <1>1 DEF Moves, ReportInv
<1>5. corpus \in DOMAIN Corpora /\ market \in DOMAIN Markets
  BY <1>2, <1>3 DEF GoodSession, ReportInv
<1>6. /\ DOMAIN shown = scored
      /\ \A t \in scored : shown[t] = Assessed[market][corpus][t]
  OBVIOUS
<1>7. step \in {"look", "send", "commit"} /\ (step = "look" <=> scored # {})
  BY OnwardSteps
<1> HIDE DEF corpus, shown, step
<1>8. \A t \in scored : Fine(shown[t])
  BY <1>5, <1>6, AssessedIsFine
<1>9. /\ Len(order) \in Nat
      /\ order \in Seq(scored) /\ \A i \in 1 .. Len(order) : order[i] \in scored
      /\ \A t \in scored : \E i \in 1 .. Len(order) : order[i] = t
  <2>1. Taxonomy \in Seq(Themes)
    BY ScoringAssumption
  <2>2. \A t \in DOMAIN shown : shown[t].score \in Int
    BY <1>6, <1>8 DEF Fine
  <2>3. \A t \in scored : \E i \in DOMAIN Taxonomy : Taxonomy[i] = t
    BY DEF Themes, Range
  <2>4. /\ order \in Seq(DOMAIN shown) /\ Len(order) \in Nat
        /\ \A k \in 1 .. Len(order) : order[k] \in DOMAIN shown
        /\ \A i \in DOMAIN Taxonomy : Taxonomy[i] \in DOMAIN shown =>
              \E k \in 1 .. Len(order) : order[k] = Taxonomy[i]
    BY <2>1, <2>2, StrongestFirstCovers
  <2> HIDE DEF order
  <2> QED BY <1>6, <2>3, <2>4
<1> HIDE DEF order
<1>10. /\ Keeps(q, r, {"corpus", "shown", "order", "pc"})
       /\ q.corpus = corpus /\ q.shown = shown /\ q.order = order /\ q.pc = step
  BY <1>2 DEF GoodSession, Keeps, Fields
<1>11. /\ Fields \subseteq DOMAIN q /\ q.rows = r.rows /\ q.next = r.next /\ q.torn = r.torn
       /\ q.bought = r.bought /\ q.texts = r.texts /\ q.id = r.id
  BY <1>10 DEF Keeps, Fields
<1> HIDE DEF q, r
<1>12. DOMAIN r.rows = {} /\ r.next = 1 /\ r.bought = {} /\ DOMAIN r.texts = {} /\ r.id = 0
  BY <1>2, <1>3 DEF GoodSession, RowsFollow, BuysFollow, Stored, Ending
<1>13. RowsFollow(q)
  <2>1. OrderCovers(q)
    BY <1>6, <1>9, <1>10, <1>11, <1>12 DEF OrderCovers
  <2>2. q.pc = "look" => q.next <= Len(q.order)
    BY <1>7, <1>9, <1>10, <1>11, <1>12
  <2> QED BY <1>6, <1>7, <1>10, <1>11, <1>12, <2>1, <2>2 DEF RowsFollow, Storing, Stored
<1>14. BuysFollow(q)
  BY <1>11, <1>12 DEF BuysFollow
<1>15. GoodSession(q)
  BY <1>5, <1>6, <1>7, <1>8, <1>10, <1>11, <1>12, <1>13, <1>14 DEF GoodSession, Steps, Ending
<1>16. Faithful(q, market)
  BY <1>6, <1>7, <1>10, <1>11, <1>12 DEF Faithful, Storing, Ending
<1>17. Fits(q, snapshots, cache, reports)
  BY <1>7, <1>10, <1>11, <1>12
     DEF Fits, SeenFits, UnpaidFor, LaterElsewhere, TextElsewhere
<1>18. UNCHANGED <<market, snapshots, cache, reports>> /\ documents' \in DOMAIN Corpora
  BY DEF Score, ReportInv
<1> QED BY <1>4, <1>11, <1>12, <1>15, <1>16, <1>17, <1>18, SessionGoesOn

LEMMA LookPreserves ==
    ASSUME ReportInv, NEW s \in Sessions, Look(s)
    PROVE  ReportInv'
<1> DEFINE r == session[s]
           t == r.order[r.next]
           seen == Recorded(r.seen, t, snapshots[t])
           q == [r EXCEPT !.pc = "write", !.seen = seen]
<1>1. GoodSession(r) /\ Faithful(r, market) /\ Fits(r, snapshots, cache, reports)
      /\ \A o \in Sessions \ {s} : DOMAIN r.rows \cap DOMAIN session[o].rows = {}
  BY OfSession
<1>2. r.pc = "look"
  BY DEF Look
<1>3. Moves(s, q)
  BY DEF Look, Moves, ReportInv
<1>4. seen[t] = snapshots[t]
  BY DEF Recorded
<1> HIDE DEF seen
<1>5. /\ Fields \subseteq DOMAIN q /\ q.pc = "write" /\ q.seen = seen
      /\ q.corpus = r.corpus /\ q.shown = r.shown /\ q.order = r.order /\ q.next = r.next
      /\ q.rows = r.rows /\ q.torn = r.torn /\ q.bought = r.bought
      /\ q.texts = r.texts /\ q.id = r.id
  BY <1>1 DEF GoodSession, Fields
<1>6. t \in Themes
  <2>1. OrderCovers(r) /\ r.next <= Len(r.order) /\ DOMAIN r.shown \subseteq Themes
    BY <1>1, <1>2 DEF GoodSession, RowsFollow, Storing
  <2> HIDE DEF r
  <2>2. r.next \in 1 .. Len(r.order) /\ \A i \in 1 .. Len(r.order) : r.order[i] \in DOMAIN r.shown
    BY <2>1 DEF OrderCovers
  <2> QED BY <2>1, <2>2
<1> HIDE DEF q, r
<1>7. RowsFollow(q) /\ BuysFollow(q)
  BY <1>1, <1>2, <1>5 DEF GoodSession, RowsFollow, BuysFollow, OrderCovers, Storing, Stored
<1>8. GoodSession(q)
  BY <1>1, <1>2, <1>5, <1>7 DEF GoodSession, Steps, Ending
<1>9. Faithful(q, market)
  BY <1>1, <1>2, <1>5 DEF Faithful, Storing, Ending
<1>10. Fits(q, snapshots, cache, reports)
  <2>1. SeenFits(q, snapshots)
    BY <1>4, <1>5, <1>6 DEF SeenFits, ReportInv
  <2> QED BY <1>1, <1>5, <2>1 DEF Fits, UnpaidFor, LaterElsewhere, TextElsewhere
<1>11. UNCHANGED <<market, snapshots, cache, reports>> /\ documents' \in DOMAIN Corpora
  BY DEF Look, ReportInv
<1> QED BY <1>1, <1>3, <1>5, <1>8, <1>9, <1>10, <1>11, SessionGoesOn

(* The columns of a score make a row, and so do updated ones; a row that   *)
(* is as it was seen becomes the score's.                                  *)
LEMMA UpdatedRows ==
    ASSUME NEW a, NEW row, IsRow(row), NEW known
    PROVE  /\ IsRow(Columns(a)) /\ IsRow(Updated(row, known, Columns(a)))
           /\ row = known => Updated(row, known, Columns(a)) = Columns(a)
<1> DEFINE new == Columns(a)
<1>1. DOMAIN new = Cols /\ new = [c \in Cols |-> new[c]]
  BY DEF Columns, Cols
<1>2. DOMAIN row = Cols
  BY DEF IsRow
<1> HIDE DEF new
<1>3. Updated(row, known, new) = [c \in Cols |-> IF new[c] = known[c] THEN row[c] ELSE new[c]]
  BY <1>2 DEF Updated
<1>4. IsRow(Updated(row, known, new))
  BY <1>3 DEF IsRow
<1>5. row = known => Updated(row, known, new) = [c \in Cols |-> new[c]]
  BY <1>3
<1> QED BY <1>1, <1>4, <1>5 DEF new, IsRow

LEMMA WritePreserves ==
    ASSUME ReportInv, NEW s \in Sessions, Write(s)
    PROVE  ReportInv'
<1> DEFINE r == session[s]
           t == r.order[r.next]
           new == Columns(r.shown[t])
           was == r.seen[t]
           row == IF was = NotKnown THEN new ELSE Updated(snapshots[t], was, new)
           rows == Recorded(r.rows, t, row)
           torn == IF was = snapshots[t] THEN r.torn ELSE r.torn \cup {t}
           next == IF r.next = Len(r.order) THEN 1 ELSE r.next + 1
           step == IF r.next < Len(r.order) THEN "look" ELSE IF IsReport(s) THEN "review" ELSE "commit"
           q == [r EXCEPT !.rows = rows, !.torn = torn, !.next = next, !.pc = step]
<1>1. GoodSession(r) /\ Faithful(r, market) /\ Fits(r, snapshots, cache, reports)
      /\ \A o \in Sessions \ {s} : DOMAIN r.rows \cap DOMAIN session[o].rows = {}
  BY OfSession
<1>2. /\ r.pc = "write" /\ Holders(t) \subseteq {s}
      /\ was = NotKnown => snapshots[t] = NotKnown
      /\ session' = [session EXCEPT ![s].rows = rows, ![s].torn = torn, ![s].next = next,
                                    ![s].pc = step]
  BY DEF Write
<1>3. Moves(s, q)
  BY <1>2 DEF Moves, ReportInv
<1>4. /\ RowsFollow(r) /\ BuysFollow(r) /\ OrderCovers(r)
      /\ r.next \in 1 .. Len(r.order) /\ Len(r.order) \in Nat
      /\ t \in DOMAIN r.shown /\ t \in Themes
  <2> HIDE DEF r
  <2>1. /\ RowsFollow(r) /\ BuysFollow(r) /\ r.pc = "write"
        /\ DOMAIN r.shown \subseteq Themes
    BY <1>1, <1>2 DEF GoodSession
  <2>2. OrderCovers(r) /\ r.next <= Len(r.order)
    BY <2>1 DEF RowsFollow, Storing
  <2>3. r.next \in 1 .. Len(r.order) /\ Len(r.order) \in Nat
    BY <2>2 DEF OrderCovers
  <2>4. t \in DOMAIN r.shown
    BY <2>2, <2>3 DEF OrderCovers
  <2> QED BY <2>1, <2>2, <2>3, <2>4
<1>5. IsRow(row) /\ (was = snapshots[t] => row = new)
  <2>1. was = NotKnown \/ IsRow(snapshots[t])
    BY <1>1, <1>2 DEF Fits, SeenFits
  <2>2. CASE was = NotKnown
    <3>1. IsRow([c \in Cols |-> 0])
      BY DEF IsRow
    <3>2. IsRow(new)
      BY <3>1, UpdatedRows
    <3> QED BY <2>2, <3>2
  <2>3. CASE was # NotKnown
    <3> HIDE DEF t, was
    <3> QED BY <2>1, <2>3, UpdatedRows
  <2> QED BY <2>2, <2>3
<1>6. new = Columns(Assessed[market][r.corpus][t])
  BY <1>1, <1>2, <1>4 DEF Faithful, Storing
<1>7. t \notin torn => t \notin r.torn /\ row = new
  BY <1>5
<1>8. /\ DOMAIN rows = DOMAIN r.rows \cup {t} /\ rows[t] = row
      /\ \A x \in DOMAIN r.rows : x # t => rows[x] = r.rows[x]
  BY DEF Recorded
<1>9. \A o \in Sessions \ {s} : t \notin DOMAIN session[o].rows
  BY <1>2 DEF Holders
<1>10. step \in {"look", "review", "commit"} /\ r.torn \subseteq torn
       /\ (step = "look" <=> r.next < Len(r.order))
  OBVIOUS
<1>11. /\ step = "look" => next = r.next + 1 /\ next <= Len(r.order)
       /\ step # "look" => next = 1 /\ r.next = Len(r.order)
       /\ next \in Nat \ {0}
  BY <1>4
<1> HIDE DEF row, rows, torn, next, step
<1>12. /\ Fields \subseteq DOMAIN q
       /\ q.rows = rows /\ q.torn = torn /\ q.next = next /\ q.pc = step
       /\ q.corpus = r.corpus /\ q.shown = r.shown /\ q.order = r.order
       /\ q.bought = r.bought /\ q.texts = r.texts /\ q.id = r.id
  BY <1>1 DEF GoodSession, Fields
<1> HIDE DEF q
<1>13. \A i \in 1 .. r.next : r.order[i] \in DOMAIN rows
  <2>1. \A i \in 1 .. r.next : i \in 1 .. r.next - 1 \/ i = r.next
    BY <1>4
  <2>2. \A i \in 1 .. r.next - 1 : r.order[i] \in DOMAIN r.rows
    BY <1>2, <1>4 DEF RowsFollow, Storing
  <2> QED BY <1>8, <2>1, <2>2
<1>14. step # "look" => DOMAIN r.shown \subseteq DOMAIN rows
  BY <1>4, <1>11, <1>13 DEF OrderCovers
<1>15. RowsFollow(q)
  <2>1. OrderCovers(q)
    <3> HIDE DEF r, t, new, was
    <3> QED BY <1>4, <1>11, <1>12 DEF OrderCovers
  <2>2. \A x \in DOMAIN rows : IsRow(rows[x])
    BY <1>4, <1>5, <1>8 DEF RowsFollow
  <2>3. q.pc = "look" => /\ q.next <= Len(q.order)
                         /\ \A i \in 1 .. q.next - 1 : q.order[i] \in DOMAIN q.rows
    <3> HIDE DEF r
    <3>1. step = "look" => next - 1 = r.next
      BY <1>4, <1>11
    <3> QED BY <1>11, <1>12, <1>13, <3>1
  <2> HIDE DEF r
  <2> QED BY <1>10, <1>12, <1>14, <2>1, <2>2, <2>3 DEF RowsFollow, Storing, Stored
<1> HIDE DEF r, t, new, was
<1>16. q.bought = {} /\ q.id = 0 /\ DOMAIN q.texts = {}
  BY <1>1, <1>2, <1>12 DEF GoodSession, BuysFollow, Stored, Ending
<1>17. GoodSession(q)
  <2>1. BuysFollow(q)
    BY <1>16 DEF BuysFollow
  <2> QED BY <1>1, <1>2, <1>10, <1>12, <1>15, <1>16, <2>1 DEF GoodSession, Steps, Ending
<1>18. \A x \in DOMAIN rows \ torn : rows[x] = Columns(Assessed[market][r.corpus][x])
  <2>1. \A x \in DOMAIN r.rows \ r.torn : r.rows[x] = Columns(Assessed[market][r.corpus][x])
    BY <1>1, <1>2 DEF Faithful, Storing
  <2> SUFFICES ASSUME NEW x \in DOMAIN rows \ torn
               PROVE  rows[x] = Columns(Assessed[market][r.corpus][x])
    OBVIOUS
  <2>2. CASE x = t
    BY <1>6, <1>7, <1>8, <2>2
  <2>3. CASE x # t
    BY <1>8, <1>10, <2>1, <2>3
  <2> QED BY <2>2, <2>3
<1>19. Faithful(q, market)
  <2>1. \A x \in DOMAIN q.shown : q.shown[x] = Assessed[market][q.corpus][x]
    BY <1>1, <1>2, <1>12 DEF Faithful, Storing
  <2>2. q.pc = "commit" => \A x \in DOMAIN q.shown \ q.torn : q.rows[x] = Columns(q.shown[x])
    BY <1>10, <1>12, <1>14, <1>18, <2>1
  <2> QED BY <1>10, <1>12, <1>18, <2>1, <2>2 DEF Faithful, Storing, Ending
<1>20. Fits(q, snapshots, cache, reports)
  BY <1>10, <1>12, <1>16 DEF Fits, SeenFits, UnpaidFor, LaterElsewhere, TextElsewhere
<1>21. \A o \in Sessions \ {s} : DOMAIN q.rows \cap DOMAIN session[o].rows = {}
  BY <1>1, <1>8, <1>9, <1>12
<1>22. UNCHANGED <<market, snapshots, cache, reports>> /\ documents' \in DOMAIN Corpora
  BY DEF Write, ReportInv
<1> QED BY <1>3, <1>17, <1>19, <1>20, <1>21, <1>22, SessionGoesOn

(* A session that reviews goes on: its rows stay, and what it buys is of a *)
(* theme it holds and that the cache knows nothing of.                     *)
LEMMA ReviewGoesOn ==
    ASSUME ReportInv, NEW s \in Sessions, NEW q, Moves(s, q),
           session[s].pc = "review",
           Keeps(q, session[s], {"next", "shown", "bought"}),
           q.next = session[s].next + 1,
           DOMAIN q.shown = DOMAIN session[s].shown, \A t \in DOMAIN q.shown : Fine(q.shown[t]),
           \A e \in q.bought : \/ e \in session[s].bought
                               \/ /\ e.story.theme \in DOMAIN session[s].rows
                                  /\ e.verdict \in Verdicts
                                  /\ \A f \in cache : e.story # f.story,
           UNCHANGED <<market, documents, snapshots, cache, reports>>
    PROVE  ReportInv'
<1> DEFINE r == session[s]
<1>1. GoodSession(r) /\ Faithful(r, market) /\ Fits(r, snapshots, cache, reports)
      /\ \A o \in Sessions \ {s} : DOMAIN r.rows \cap DOMAIN session[o].rows = {}
  BY OfSession
<1>2. /\ Fields \subseteq DOMAIN q /\ q.pc = "review"
      /\ q.corpus = r.corpus /\ q.order = r.order /\ q.rows = r.rows /\ q.torn = r.torn
      /\ q.texts = r.texts /\ q.id = r.id
  BY DEF Keeps, Fields
<1>2a. r.pc = "review" /\ q.next = r.next + 1 /\ DOMAIN q.shown = DOMAIN r.shown
  OBVIOUS
<1>3. documents' \in DOMAIN Corpora
  BY DEF ReportInv
<1> HIDE DEF r
<1>4. RowsFollow(q)
  <2>1. OrderCovers(r) /\ DOMAIN r.shown \subseteq DOMAIN r.rows
        /\ \A t \in DOMAIN r.rows : IsRow(r.rows[t])
    BY <1>1 DEF GoodSession, RowsFollow, Stored, r
  <2>2. OrderCovers(q)
    <3>1. q.next \in Nat \ {0}
      BY <1>2a, <2>1 DEF OrderCovers
    <3>2. \A i \in 1 .. Len(q.order) : q.order[i] \in DOMAIN q.shown
      BY <1>2, <1>2a, <2>1 DEF OrderCovers
    <3>3. \A t \in DOMAIN q.shown : \E i \in 1 .. Len(q.order) : q.order[i] = t
      BY <1>2, <1>2a, <2>1 DEF OrderCovers
    <3>4. q.order \in Seq(DOMAIN q.shown) /\ Len(q.order) \in Nat
      BY <1>2, <1>2a, <2>1 DEF OrderCovers
    <3> QED BY <3>1, <3>2, <3>3, <3>4 DEF OrderCovers
  <2> QED BY <1>2, <1>2a, <2>1, <2>2 DEF RowsFollow, Storing, Stored
<1>5. BuysFollow(q)
  <2>1. \A e \in r.bought : e.story.theme \in DOMAIN r.rows /\ e.verdict \in Verdicts
    BY <1>1 DEF GoodSession, BuysFollow
  <2> QED BY <1>2, <2>1 DEF BuysFollow, Stored, r
<1>6. GoodSession(q)
  BY <1>1, <1>2, <1>4, <1>5 DEF GoodSession, Steps, Ending, r
<1>7. Faithful(q, market)
  <2>1. \A t \in DOMAIN r.rows \ r.torn : r.rows[t] = Columns(Assessed[market][r.corpus][t])
    BY <1>1 DEF Faithful, r
  <2> QED BY <1>2, <2>1 DEF Faithful, Storing, Ending
<1>8. Fits(q, snapshots, cache, reports)
  <2>1. UnpaidFor(q, cache)
    BY <1>1 DEF Fits, UnpaidFor, r
  <2>2. q.id = 0
    BY <1>1, <1>2, <1>2a DEF GoodSession, Ending
  <2> QED BY <1>2, <2>1, <2>2 DEF Fits, SeenFits, LaterElsewhere, TextElsewhere
<1> QED BY <1>1, <1>2, <1>3, <1>6, <1>7, <1>8, SessionGoesOn

LEMMA ReviewPreserves ==
    ASSUME ReportInv, NEW s \in Sessions, ReviewTheme(s)
    PROVE  ReportInv'
<1> DEFINE r == session[s]
           t == r.order[r.next]
           story == Story(r.corpus, t, r.shown[t])
           known == {e \in cache \cup r.bought : e.story = story}
           skipped == [r EXCEPT !.next = r.next + 1]
           judged(v) == [r EXCEPT !.next = r.next + 1, !.shown[t] = Reviewed(r.shown[t], v)]
           paid(v) == [judged(v) EXCEPT !.calls = @ + 1,
                                        !.bought = @ \cup {[story |-> story, verdict |-> v]}]
<1>1. GoodSession(r)
  BY OfSession
<1>2. /\ r.pc = "review" /\ r.next <= Len(r.order)
      /\ UNCHANGED <<market, documents, snapshots, cache, reports>>
  BY DEF ReviewTheme
<1>3. \/ Moves(s, skipped)
      \/ \E e \in known : Moves(s, judged(e.verdict))
      \/ known = {} /\ \E v \in Verdicts : Moves(s, paid(v))
  <2>1. \A q : session' = [session EXCEPT ![s] = q] => Moves(s, q)
    BY DEF Moves, ReportInv
  <2>2. \/ session' = [session EXCEPT ![s] = skipped]
        \/ \E e \in known : session' = [session EXCEPT ![s] = judged(e.verdict)]
        \/ known = {} /\ \E v \in Verdicts : session' = [session EXCEPT ![s] = paid(v)]
    BY DEF ReviewTheme
  <2> HIDE DEF skipped, judged, paid
  <2> QED BY <2>1, <2>2
<1>4. /\ Fields \subseteq DOMAIN r /\ DOMAIN r.shown \subseteq Themes
      /\ \A x \in DOMAIN r.shown : Fine(r.shown[x])
      /\ RowsFollow(r) /\ BuysFollow(r)
  BY <1>1 DEF GoodSession
<1>5. t \in DOMAIN r.shown /\ t \in DOMAIN r.rows
  <2> HIDE DEF r
  <2>1. OrderCovers(r) /\ DOMAIN r.shown \subseteq DOMAIN r.rows
    BY <1>2, <1>4 DEF RowsFollow, Stored
  <2>2. r.next \in 1 .. Len(r.order) /\ \A i \in 1 .. Len(r.order) : r.order[i] \in DOMAIN r.shown
    BY <1>2, <2>1 DEF OrderCovers
  <2> QED BY <2>1, <2>2
<1>6. story.theme = t
  BY DEF Story
<1>7. /\ \A e \in r.bought : e.verdict \in Verdicts
      /\ \A e \in cache : e.verdict \in Verdicts
  BY <1>4 DEF BuysFollow, ReportInv
<1> HIDE DEF story
<1>8. CASE Moves(s, skipped)
  <2>1. Keeps(skipped, r, {"next"}) /\ skipped.next = r.next + 1
    BY <1>4 DEF Keeps, Fields
  <2>2. skipped.shown = r.shown /\ skipped.bought = r.bought
        /\ Keeps(skipped, r, {"next", "shown", "bought"})
    <3> HIDE DEF skipped, r
    <3> QED BY <2>1 DEF Keeps, Fields
  <2> HIDE DEF skipped
  <2> QED BY <1>2, <1>4, <1>8, <2>1, <2>2, ReviewGoesOn
<1>9. ASSUME NEW v \in Verdicts
      PROVE  LET q == judged(v) IN
             /\ Keeps(q, r, {"next", "shown"}) /\ q.next = r.next + 1
             /\ DOMAIN q.shown = DOMAIN r.shown /\ \A x \in DOMAIN q.shown : Fine(q.shown[x])
  <2> DEFINE shown == [r.shown EXCEPT ![t] = Reviewed(r.shown[t], v)]
             q == judged(v)
  <2>1. q = [r EXCEPT !.next = r.next + 1, !.shown = shown]
    OBVIOUS
  <2>2. Fine(Reviewed(r.shown[t], v))
    BY <1>4, <1>5, ReviewedIsFine
  <2>3. DOMAIN shown = DOMAIN r.shown /\ \A x \in DOMAIN shown : Fine(shown[x])
    <3> HIDE DEF r, t
    <3> QED BY <1>4, <2>2
  <2> HIDE DEF shown, judged
  <2>4. Keeps(q, r, {"next", "shown"}) /\ q.next = r.next + 1 /\ q.shown = shown
    BY <1>4, <2>1 DEF Keeps, Fields
  <2> QED BY <2>3, <2>4
<1> HIDE DEF judged
<1>10. ASSUME NEW e \in known, Moves(s, judged(e.verdict))
       PROVE  ReportInv'
  <2> DEFINE q == judged(e.verdict)
  <2>1. e.verdict \in Verdicts
    BY <1>7
  <2>2. /\ Keeps(q, r, {"next", "shown"}) /\ q.next = r.next + 1
        /\ DOMAIN q.shown = DOMAIN r.shown /\ \A x \in DOMAIN q.shown : Fine(q.shown[x])
    BY <1>9, <2>1
  <2> HIDE DEF q
  <2>3. q.bought = r.bought /\ Keeps(q, r, {"next", "shown", "bought"})
    <3> HIDE DEF r
    <3> QED BY <2>2 DEF Keeps, Fields
  <2>4. Moves(s, q)
    BY <1>10 DEF q
  <2> QED BY <1>2, <2>2, <2>3, <2>4, ReviewGoesOn
<1>11. ASSUME known = {}, NEW v \in Verdicts, Moves(s, paid(v))
       PROVE  ReportInv'
  <2> DEFINE p == judged(v)
             entry == [story |-> story, verdict |-> v]
             q == paid(v)
  <2>1. /\ Keeps(p, r, {"next", "shown"}) /\ p.next = r.next + 1
        /\ DOMAIN p.shown = DOMAIN r.shown /\ \A x \in DOMAIN p.shown : Fine(p.shown[x])
    BY <1>9
  <2>2. q = [p EXCEPT !.calls = @ + 1, !.bought = @ \cup {entry}]
    OBVIOUS
  <2>3. entry.story = story /\ entry.verdict = v
    OBVIOUS
  <2>4. \A f \in cache : story # f.story
    BY <1>11
  <2>5. Moves(s, q)
    BY <1>11
  <2> HIDE DEF p, entry, paid, q
  <2>6. Keeps(q, p, {"bought"}) /\ q.bought = p.bought \cup {entry}
    BY <2>1, <2>2 DEF Keeps, Fields
  <2>7. /\ Keeps(q, r, {"next", "shown", "bought"}) /\ q.next = p.next /\ q.shown = p.shown
        /\ q.bought = r.bought \cup {entry}
    <3> HIDE DEF r
    <3> QED BY <2>1, <2>6 DEF Keeps, Fields
  <2>8. \A e \in q.bought : \/ e \in r.bought
                            \/ /\ e.story.theme \in DOMAIN r.rows
                               /\ e.verdict \in Verdicts
                               /\ \A f \in cache : e.story # f.story
    BY <1>5, <1>6, <2>3, <2>4, <2>7
  <2> QED BY <1>2, <2>1, <2>5, <2>7, <2>8, ReviewGoesOn
<1> QED BY <1>3, <1>8, <1>10, <1>11

(* A new report's number is above all others. *)
LEMMA NextIdIsNew ==
    ASSUME ReportInv
    PROVE  NextId \in Nat \ {0} /\ \A x \in reports : x.id < NextId
<1> DEFINE ids == {0} \cup {x.id : x \in reports} \cup {session[o].id : o \in Sessions}
<1>1. PICK b \in Nat : IdsBelow(b)
  BY DEF ReportInv
<1>2. /\ \A x \in reports : x.id \in 0 .. b
      /\ \A o \in Sessions : session[o].id \in 0 .. b
  BY <1>1 DEF IdsBelow
<1>3. ids \in SUBSET Nat /\ ids # {} /\ \A n \in ids : n <= b
  BY <1>2
<1>4. \A x \in reports : x.id \in ids
  OBVIOUS
<1>5. NextId = 1 + Max(ids)
  BY DEF NextId
<1> HIDE DEF ids
<1>6. Max(ids) \in ids /\ \A n \in ids : n <= Max(ids)
  BY <1>3, MaxExists
<1>7. Max(ids) \in Nat
  BY <1>3, <1>6
<1>8. \A x \in reports : x.id \in Nat
  BY <1>3, <1>4
<1> HIDE DEF Max
<1> QED BY <1>4, <1>5, <1>6, <1>7, <1>8

LEMMA BuildPreserves ==
    ASSUME ReportInv, NEW s \in Sessions, Build(s)
    PROVE  ReportInv'
<1>0. PICK picks : session' = [session EXCEPT
            ![s].rows = Rewritten(session[s]),
            ![s].order = StrongestFirst(session[s].order, session[s].shown), ![s].picks = picks,
            ![s].id = NextId, ![s].pc = IF session[s].kind = "report" THEN "send" ELSE "commit"]
  BY DEF Build
<1> DEFINE r == session[s]
           order == StrongestFirst(r.order, r.shown)
           rows == Rewritten(r)
           step == IF r.kind = "report" THEN "send" ELSE "commit"
           q == [r EXCEPT !.rows = rows, !.order = order, !.picks = picks, !.id = NextId, !.pc = step]
<1>1. GoodSession(r) /\ Faithful(r, market) /\ Fits(r, snapshots, cache, reports)
      /\ \A o \in Sessions \ {s} : DOMAIN r.rows \cap DOMAIN session[o].rows = {}
  BY OfSession
<1>2. /\ r.pc = "review"
      /\ session' = [session EXCEPT ![s].rows = rows, ![s].order = order, ![s].picks = picks,
                                    ![s].id = NextId, ![s].pc = step]
  BY <1>0 DEF Build
<1>3. step \in Ending
  BY DEF Ending
<1>4. rows = [t \in DOMAIN r.rows |->
                Updated(r.rows[t], Columns(Assessed[market][r.corpus][t]), Columns(r.shown[t]))]
  BY DEF Rewritten
<1> HIDE DEF order, rows, step
<1>5. Moves(s, q)
  <2>1. session = [t \in Sessions |-> session[t]]
    BY DEF ReportInv
  <2> QED BY <1>2, <2>1 DEF Moves
<1>6. /\ Fields \subseteq DOMAIN q
      /\ q.rows = rows /\ q.order = order /\ q.id = NextId /\ q.pc = step
      /\ q.corpus = r.corpus /\ q.shown = r.shown /\ q.next = r.next /\ q.torn = r.torn
      /\ q.bought = r.bought /\ q.texts = r.texts
  <2>1. Fields \subseteq DOMAIN r
    BY <1>1 DEF GoodSession
  <2> HIDE DEF r
  <2> QED BY <2>1 DEF Fields
<1>7. NextId \in Nat \ {0} /\ \A x \in reports : x.id < NextId
  BY NextIdIsNew
<1>8. UNCHANGED <<market, snapshots, cache, reports>> /\ documents' \in DOMAIN Corpora
  BY DEF Build, ReportInv
<1> HIDE DEF q, r
<1>9. /\ DOMAIN r.shown \subseteq DOMAIN r.rows
      /\ \A t \in DOMAIN r.rows : IsRow(r.rows[t])
      /\ \A t \in DOMAIN r.rows \ r.torn : r.rows[t] = Columns(Assessed[market][r.corpus][t])
  <2>1. RowsFollow(r)
    BY <1>1 DEF GoodSession
  <2> QED BY <1>1, <1>2, <2>1 DEF RowsFollow, Faithful, Stored
<1>10. /\ DOMAIN rows = DOMAIN r.rows
       /\ \A t \in DOMAIN rows : IsRow(rows[t])
       /\ \A t \in DOMAIN rows \ r.torn : rows[t] = Columns(r.shown[t])
  <2>1. \A t \in DOMAIN r.rows :
           LET known == Columns(Assessed[market][r.corpus][t]) IN
           /\ rows[t] = Updated(r.rows[t], known, Columns(r.shown[t]))
           /\ IsRow(Updated(r.rows[t], known, Columns(r.shown[t])))
           /\ r.rows[t] = known => Updated(r.rows[t], known, Columns(r.shown[t])) = Columns(r.shown[t])
    BY <1>4, <1>9, UpdatedRows
  <2>2. DOMAIN rows = DOMAIN r.rows
    BY <1>4
  <2> QED BY <1>9, <2>1, <2>2
<1>11. RowsFollow(q)
  BY <1>3, <1>6, <1>9, <1>10 DEF RowsFollow, Storing, Stored, Ending
<1>12. BuysFollow(q)
  <2>1. BuysFollow(r)
    BY <1>1 DEF GoodSession
  <2> QED BY <1>3, <1>6, <1>10, <2>1 DEF BuysFollow, Stored, Ending
<1>13. DOMAIN q.texts = {} /\ q.corpus \in DOMAIN Corpora
  BY <1>1, <1>2, <1>6 DEF GoodSession
<1>14. GoodSession(q)
  BY <1>1, <1>3, <1>6, <1>7, <1>11, <1>12, <1>13 DEF GoodSession, Steps, Ending
<1>15. Faithful(q, market)
  BY <1>3, <1>6, <1>9, <1>10 DEF Faithful, Storing, Ending
<1>16. Fits(q, snapshots, cache, reports)
  <2>1. UnpaidFor(q, cache)
    BY <1>1, <1>6 DEF Fits, UnpaidFor
  <2>2. LaterElsewhere(q, reports)
    <3>1. \A x \in reports : ~(x.id > NextId)
      <4>1. PICK b \in Nat : \A x \in reports : x.id \in 0 .. b
        BY DEF ReportInv, IdsBelow
      <4> QED BY <1>7, <4>1
    <3> QED BY <1>6, <3>1 DEF LaterElsewhere
  <2> QED BY <1>3, <1>6, <1>13, <2>1, <2>2 DEF Fits, SeenFits, TextElsewhere, Ending
<1>17. \A o \in Sessions \ {s} : DOMAIN q.rows \cap DOMAIN session[o].rows = {}
  BY <1>1, <1>6, <1>10
<1> QED BY <1>5, <1>8, <1>14, <1>15, <1>16, <1>17, SessionGoesOn

(* The text goes to the session's own report, or to one that was committed *)
(* after it was numbered.                                                  *)
LEMMA SendPreserves ==
    ASSUME ReportInv, NEW s \in Sessions, Send(s)
    PROVE  ReportInv'
<1> DEFINE r == session[s]
           visible == Visible(s)
           latest == Max(visible)
           texts == IF visible = {} THEN << >> ELSE [i \in {latest} |-> r.id]
           q == [r EXCEPT !.pc = "commit", !.texts = texts]
<1>1. GoodSession(r) /\ Faithful(r, market) /\ Fits(r, snapshots, cache, reports)
      /\ \A o \in Sessions \ {s} : DOMAIN r.rows \cap DOMAIN session[o].rows = {}
  BY OfSession
<1>2. /\ r.pc = "send"
      /\ session' = [session EXCEPT ![s].pc = "commit", ![s].texts = texts]
  BY DEF Send, LatestReport
<1>3. DOMAIN texts = IF visible = {} THEN {} ELSE {latest}
  <2> HIDE DEF visible, latest, r
  <2>1. CASE visible = {}
    BY <2>1, NothingInEmpty
  <2>2. CASE visible # {}
    BY <2>2
  <2> QED BY <2>1, <2>2
<1>4. visible = {x.id : x \in reports} \cup ({r.id} \ {0})
  BY DEF Visible
<1>5. UNCHANGED <<market, snapshots, cache, reports>> /\ documents' \in DOMAIN Corpora
  BY DEF Send, ReportInv
<1>6. PICK b \in Nat : IdsBelow(b)
  BY DEF ReportInv
<1>7. /\ \A x \in reports : x.id \in 0 .. b
      /\ r.id \in 0 .. b
  BY <1>6 DEF IdsBelow
<1> HIDE DEF texts
<1>8. Moves(s, q)
  <2>1. session = [t \in Sessions |-> session[t]]
    BY DEF ReportInv
  <2> QED BY <1>2, <2>1 DEF Moves
<1>9. /\ Fields \subseteq DOMAIN q /\ q.pc = "commit" /\ q.texts = texts
      /\ q.corpus = r.corpus /\ q.shown = r.shown /\ q.order = r.order /\ q.next = r.next
      /\ q.rows = r.rows /\ q.torn = r.torn /\ q.bought = r.bought /\ q.id = r.id
  <2>1. Fields \subseteq DOMAIN r
    BY <1>1 DEF GoodSession
  <2> HIDE DEF r
  <2> QED BY <2>1 DEF Fields
<1> HIDE DEF q, r, visible
<1>10. visible # {} => latest \in visible /\ \A n \in visible : n <= latest
  <2>1. visible \in SUBSET Nat /\ \A n \in visible : n <= b
    BY <1>4, <1>7
  <2> QED BY <2>1, MaxExists
<1> HIDE DEF latest
<1>11. RowsFollow(q) /\ BuysFollow(q)
  <2>1. RowsFollow(r) /\ BuysFollow(r)
    BY <1>1 DEF GoodSession
  <2> QED BY <1>2, <1>9, <2>1 DEF RowsFollow, BuysFollow, Storing, Stored
<1>12. GoodSession(q)
  BY <1>1, <1>2, <1>9, <1>11 DEF GoodSession, Steps, Ending
<1>13. Faithful(q, market)
  BY <1>1, <1>2, <1>9 DEF Faithful, Storing, Ending
<1>14. TextElsewhere(q, reports)
  <2> SUFFICES ASSUME r.id # 0, NEW i \in DOMAIN texts, i # r.id
               PROVE  \E x \in reports : x.id = i /\ x.themes \cap DOMAIN r.shown = {}
    BY <1>9 DEF TextElsewhere
  <2>1. i = latest /\ i \in visible /\ r.id <= i
    BY <1>3, <1>4, <1>10
  <2>2. PICK x \in reports : x.id = i
    BY <1>4, <2>1
  <2>3. x.id > r.id
    BY <1>7, <2>1, <2>2
  <2> QED BY <1>1, <2>2, <2>3 DEF Fits, LaterElsewhere
<1>15. Fits(q, snapshots, cache, reports)
  BY <1>1, <1>9, <1>14 DEF Fits, SeenFits, UnpaidFor, LaterElsewhere
<1> QED BY <1>1, <1>5, <1>8, <1>9, <1>12, <1>13, <1>15, SessionGoesOn

(* The reports after a commit: the known ones, with their themes, and the  *)
(* session's own.                                                          *)
LEMMA CommittedReports ==
    ASSUME ReportInv, NEW s \in Sessions, Commit(s)
    PROVE  /\ \A x \in reports : \E y \in reports' : y.id = x.id /\ y.themes = x.themes
           /\ \A y \in reports' :
                 /\ {"id", "themes"} \subseteq DOMAIN y
                 /\ \/ \E x \in reports : y.id = x.id /\ y.themes = x.themes
                    \/ y.id = session[s].id /\ y.themes = DOMAIN session[s].shown
<1> DEFINE r == session[s]
           Kept(x) == [x EXCEPT !.text = Texted(r.texts, x.id, @)]
           Added(i) == [id |-> i, text |-> Texted(r.texts, i, NoText), themes |-> DOMAIN r.shown]
<1>1. reports' = {Kept(x) : x \in reports} \cup {Added(i) : i \in {r.id} \ {0}}
  BY DEF Commit
<1>2. ASSUME NEW x \in reports
      PROVE  /\ {"id", "themes"} \subseteq DOMAIN Kept(x)
             /\ Kept(x).id = x.id /\ Kept(x).themes = x.themes
  <2>1. {"id", "themes"} \subseteq DOMAIN x
    BY DEF ReportInv
  <2> QED BY <2>1
<1>3. /\ {"id", "themes"} \subseteq DOMAIN Added(r.id)
      /\ Added(r.id).id = r.id /\ Added(r.id).themes = DOMAIN r.shown
  OBVIOUS
<1> HIDE DEF Kept, Added
<1>4. ASSUME NEW x \in reports
      PROVE  \E y \in reports' : y.id = x.id /\ y.themes = x.themes
  BY <1>1, <1>2
<1>5. ASSUME NEW y \in reports'
      PROVE  /\ {"id", "themes"} \subseteq DOMAIN y
             /\ \/ \E x \in reports : y.id = x.id /\ y.themes = x.themes
                \/ y.id = r.id /\ y.themes = DOMAIN r.shown
  <2>1. CASE \E x \in reports : y = Kept(x)
    BY <1>2, <2>1
  <2>2. CASE y = Added(r.id)
    BY <1>3, <2>2
  <2> QED BY <1>1, <2>1, <2>2
<1> QED BY <1>4, <1>5

(* What a session commits disturbs no other: they hold different rows. *)
LEMMA CommitLeavesOthers ==
    ASSUME ReportInv, NEW s \in Sessions, Commit(s), NEW o \in Sessions, o # s
    PROVE  Fits(session[o], snapshots', cache', reports')
<1> DEFINE r == session[s]
           q == session[o]
<1>1. /\ GoodSession(r) /\ GoodSession(q) /\ Fits(q, snapshots, cache, reports)
      /\ DOMAIN r.rows \cap DOMAIN q.rows = {}
  BY OfSession
<1>2. /\ r.pc = "commit"
      /\ snapshots' = [t \in Themes |-> IF t \in DOMAIN r.rows THEN r.rows[t] ELSE snapshots[t]]
      /\ cache' = cache \cup r.bought
  BY DEF Commit
<1>3. /\ \A x \in reports : \E y \in reports' : y.id = x.id /\ y.themes = x.themes
      /\ \A y \in reports' : \/ \E x \in reports : y.id = x.id /\ y.themes = x.themes
                             \/ y.id = r.id /\ y.themes = DOMAIN r.shown
  BY CommittedReports
<1> HIDE DEF r, q
<1>4. /\ RowsFollow(r) /\ BuysFollow(r) /\ RowsFollow(q) /\ BuysFollow(q)
      /\ DOMAIN q.shown \subseteq Themes /\ (q.id # 0 => q.pc \in Ending)
  BY <1>1 DEF GoodSession
<1>5. /\ DOMAIN r.shown \subseteq DOMAIN r.rows
      /\ \A t \in DOMAIN r.rows : IsRow(r.rows[t])
      /\ \A e \in r.bought : e.story.theme \in DOMAIN r.rows
  BY <1>2, <1>4 DEF RowsFollow, BuysFollow, Stored
<1>6. q.id # 0 => DOMAIN q.shown \subseteq DOMAIN q.rows
  BY <1>4 DEF RowsFollow, Stored, Ending
<1>7. SeenFits(q, snapshots')
  <2> SUFFICES ASSUME q.pc = "write"
               PROVE  q.seen[q.order[q.next]] = NotKnown \/ IsRow(snapshots'[q.order[q.next]])
    BY DEF SeenFits
  <2> DEFINE t == q.order[q.next]
  <2>1. OrderCovers(q) /\ q.next <= Len(q.order)
    BY <1>4 DEF RowsFollow, Storing
  <2>2. q.next \in 1 .. Len(q.order)
    BY <2>1 DEF OrderCovers
  <2>3. t \in Themes
    BY <1>4, <2>1, <2>2 DEF OrderCovers
  <2>4. q.seen[t] = NotKnown \/ IsRow(snapshots[t])
    BY <1>1 DEF Fits, SeenFits
  <2> HIDE DEF t
  <2>5. snapshots'[t] = IF t \in DOMAIN r.rows THEN r.rows[t] ELSE snapshots[t]
    BY <1>2, <2>3
  <2>6. q.seen[t] = NotKnown \/ IsRow(snapshots'[t])
    BY <1>5, <2>4, <2>5
  <2> QED BY <2>6 DEF t
<1>8. UnpaidFor(q, cache')
  <2> SUFFICES ASSUME NEW e \in q.bought, NEW f \in cache'
               PROVE  e.story # f.story
    BY DEF UnpaidFor
  <2>1. CASE f \in cache
    BY <1>1, <2>1 DEF Fits, UnpaidFor
  <2>2. CASE f \in r.bought
    <3>1. e.story.theme \in DOMAIN q.rows /\ f.story.theme \in DOMAIN r.rows
      BY <1>4, <1>5, <2>2 DEF BuysFollow
    <3> QED BY <1>1, <3>1
  <2> QED BY <1>2, <2>1, <2>2
<1>9. LaterElsewhere(q, reports')
  <2> SUFFICES ASSUME q.id # 0, NEW y \in reports', y.id > q.id
               PROVE  y.themes \cap DOMAIN q.shown = {}
    BY DEF LaterElsewhere
  <2>1. CASE y.id = r.id /\ y.themes = DOMAIN r.shown
    BY <1>1, <1>5, <1>6, <2>1
  <2>2. CASE \E x \in reports : y.id = x.id /\ y.themes = x.themes
    BY <1>1, <2>2 DEF Fits, LaterElsewhere
  <2> QED BY <1>3, <2>1, <2>2
<1>10. TextElsewhere(q, reports')
  <2> SUFFICES ASSUME q.id # 0, NEW i \in DOMAIN q.texts, i # q.id
               PROVE  \E y \in reports' : y.id = i /\ y.themes \cap DOMAIN q.shown = {}
    BY DEF TextElsewhere
  <2>1. PICK x \in reports : x.id = i /\ x.themes \cap DOMAIN q.shown = {}
    BY <1>1 DEF Fits, TextElsewhere
  <2>2. PICK y \in reports' : y.id = x.id /\ y.themes = x.themes
    BY <1>3
  <2> QED BY <2>1, <2>2
<1>11. Fits(q, snapshots', cache', reports')
  BY <1>7, <1>8, <1>9, <1>10 DEF Fits
<1> QED BY <1>11 DEF q

LEMMA CommitPreserves ==
    ASSUME ReportInv, NEW s \in Sessions, Commit(s)
    PROVE  ReportInv'
<1> DEFINE r == session[s]
<1>1. GoodSession(r)
  BY OfSession
<1>2. /\ r.pc = "commit"
      /\ snapshots' = [t \in Themes |-> IF t \in DOMAIN r.rows THEN r.rows[t] ELSE snapshots[t]]
      /\ cache' = cache \cup r.bought
      /\ documents' = IF r.kind = "collect" THEN r.corpus ELSE documents
      /\ market' = market
  BY DEF Commit
<1>3. Moves(s, Idle)
  BY DEF Commit, Moves, ReportInv
<1>4. \A t \in Sessions : session'[t] = IF t = s THEN Idle ELSE session[t]
  BY <1>3 DEF Moves
<1>5. /\ GoodSession(Idle) /\ Faithful(Idle, market) /\ Fits(Idle, snapshots', cache', reports')
      /\ DOMAIN Idle.rows = {}
  BY IdleIsFresh, FreshFits
<1>6. Idle.id = 0
  BY IdleIsFresh DEF Fresh
<1> HIDE DEF r, Idle
<1>7. /\ \A t \in DOMAIN r.rows : IsRow(r.rows[t])
      /\ \A e \in r.bought : e.verdict \in Verdicts
      /\ r.corpus \in DOMAIN Corpora
  BY <1>1, <1>2 DEF GoodSession, RowsFollow, BuysFollow
<1>8. market' \in DOMAIN Markets /\ documents' \in DOMAIN Corpora
  BY <1>2, <1>7 DEF ReportInv
<1>9. session' = [t \in Sessions |-> session'[t]]
  BY <1>3, <1>4 DEF Moves
<1>10. \A t \in Themes : snapshots'[t] = NotKnown \/ IsRow(snapshots'[t])
  BY <1>2, <1>7 DEF ReportInv
<1>11. \A e \in cache' : e.verdict \in Verdicts
  BY <1>2, <1>7 DEF ReportInv
<1>12. \A y \in reports' : {"id", "themes"} \subseteq DOMAIN y
  BY CommittedReports
<1>13. ASSUME NEW t \in Sessions
       PROVE  /\ GoodSession(session'[t]) /\ Faithful(session'[t], market')
              /\ Fits(session'[t], snapshots', cache', reports')
  <2>1. CASE t = s
    BY <1>2, <1>4, <1>5, <2>1
  <2>2. CASE t # s
    <3>1. GoodSession(session[t]) /\ Faithful(session[t], market)
      BY OfSession
    <3>2. Fits(session[t], snapshots', cache', reports')
      BY <2>2, CommitLeavesOthers
    <3> QED BY <1>2, <1>4, <2>2, <3>1, <3>2
  <2> QED BY <2>1, <2>2
<1>14. RowsLocked'
  <2> SUFFICES ASSUME NEW t \in Sessions, NEW o \in Sessions, t # o
               PROVE  DOMAIN session'[t].rows \cap DOMAIN session'[o].rows = {}
    BY DEF RowsLocked
  <2>1. CASE t = s \/ o = s
    BY <1>4, <1>5, <2>1
  <2>2. CASE t # s /\ o # s
    BY <1>4, <2>2 DEF ReportInv, RowsLocked
  <2> QED BY <2>1, <2>2
<1>15. \E b \in Nat : IdsBelow(b)'
  <2>1. PICK b \in Nat : IdsBelow(b)
    BY DEF ReportInv
  <2>2. \A x \in reports : x.id \in 0 .. b
    BY <2>1 DEF IdsBelow
  <2>3. \A t \in Sessions : session[t].id \in 0 .. b
    BY <2>1 DEF IdsBelow
  <2>4. \A y \in reports' : y.id \in 0 .. b
    BY <2>2, <2>3, CommittedReports
  <2>5. \A t \in Sessions : session'[t].id \in 0 .. b
    BY <1>4, <1>6, <2>3
  <2>6. IdsBelow(b)'
    BY <2>4, <2>5 DEF IdsBelow
  <2> QED BY <2>6
<1> QED BY <1>8, <1>9, <1>10, <1>11, <1>12, <1>13, <1>14, <1>15 DEF ReportInv
-----------------------------------------------------------------------------
LEMMA InitialReportInv == Init => ReportInv
<1> SUFFICES ASSUME Init PROVE ReportInv
  OBVIOUS
<1>1. /\ market \in DOMAIN Markets /\ documents \in DOMAIN Corpora
      /\ snapshots \in {[t \in Themes |-> NotKnown], Scored(market, documents)}
      /\ cache = {} /\ reports = {} /\ session = [s \in Sessions |-> Idle]
  BY DEF Init
<1>2. \A t \in Themes : snapshots[t] = NotKnown \/ IsRow(snapshots[t])
  <2>1. \A k, c : \A t \in Themes : IsRow(Scored(k, c)[t])
    BY DEF Scored, Columns, IsRow, Cols
  <2> HIDE DEF Scored
  <2> QED BY <1>1, <2>1
<1>3. \A s \in Sessions : session[s] = Idle
  BY <1>1
<1>4. Fresh(Idle)
  BY IdleIsFresh
<1> HIDE DEF Idle
<1>5. \A s \in Sessions : /\ GoodSession(session[s]) /\ Faithful(session[s], market)
                          /\ Fits(session[s], snapshots, cache, reports)
                          /\ DOMAIN session[s].rows = {} /\ session[s].id = 0
  BY <1>3, <1>4, FreshFits DEF Fresh
<1>6. RowsLocked
  BY <1>5 DEF RowsLocked
<1>7. IdsBelow(0)
  BY <1>1, <1>5 DEF IdsBelow
<1>8. session = [s \in Sessions |-> session[s]]
  BY <1>1
<1> QED BY <1>1, <1>2, <1>5, <1>6, <1>7, <1>8 DEF ReportInv

LEMMA StepPreserves == ReportInv /\ [Next]_vars => ReportInv'
<1> SUFFICES ASSUME ReportInv, [Next]_vars PROVE ReportInv'
  OBVIOUS
<1>1. CASE UNCHANGED vars
  <2>1. /\ market' = market /\ documents' = documents /\ snapshots' = snapshots
        /\ cache' = cache /\ reports' = reports /\ session' = session
    BY <1>1 DEF vars
  <2> QED BY <2>1 DEF ReportInv, RowsLocked, IdsBelow
<1>2. CASE Next
  <2>1. PICK s \in Sessions :
          \/ \E kind \in {"trend", "collect", "report", "build"} : Start(s, kind)
          \/ Score(s) \/ Look(s) \/ Write(s) \/ ReviewTheme(s) \/ Build(s)
          \/ Send(s) \/ Commit(s) \/ Fail(s) \/ Deadlocked(s) \/ KeyTaken(s)
    BY <1>2 DEF Next
  <2>2. Fail(s) \/ Deadlocked(s) \/ KeyTaken(s) => RolledBack(s)
    BY DEF Fail, Deadlocked, KeyTaken
  <2> QED BY <2>1, <2>2, StartPreserves, ScorePreserves, LookPreserves, WritePreserves,
             ReviewPreserves, BuildPreserves, SendPreserves, CommitPreserves, RolledBackPreserves
<1> QED BY <1>1, <1>2

(* The sessions of a day, however they overlap, hold different rows, and   *)
(* what each has read, bought and numbered fits what is committed.         *)
THEOREM ReportInvariant == Spec => []ReportInv
<1>1. Init => ReportInv
  BY InitialReportInv
<1>2. ReportInv /\ [Next]_vars => ReportInv'
  BY StepPreserves
<1> QED BY <1>1, <1>2, PTL DEF Spec

(* Overlapping reports never pay for the same opinion (review.py asks the  *)
(* cache, and agent.py stores the snapshots, before the reviews): to       *)
(* review a theme a session must hold its row.                             *)
THEOREM OpinionsArePaidOnce == Spec => []PaidOnce
<1>1. ReportInv => PaidOnce
  <2> SUFFICES ASSUME ReportInv PROVE PaidOnce
    OBVIOUS
  <2>1. ASSUME NEW s \in Sessions
        PROVE  session[s].bought \cap cache = {}
    BY OfSession DEF Fits, UnpaidFor
  <2>2. ASSUME NEW s \in Sessions, NEW o \in Sessions, s # o
        PROVE  {e.story : e \in session[s].bought} \cap {e.story : e \in session[o].bought} = {}
    <3>1. BuysFollow(session[s]) /\ BuysFollow(session[o])
      BY OfSession DEF GoodSession
    <3>2. DOMAIN session[s].rows \cap DOMAIN session[o].rows = {}
      BY <2>2, OfSession
    <3>3. ASSUME NEW e \in session[s].bought, NEW f \in session[o].bought
          PROVE  e.story # f.story
      BY <3>1, <3>2 DEF BuysFollow
    <3> QED BY <3>3
  <2> QED BY <2>1, <2>2 DEF PaidOnce
<1> QED BY <1>1, ReportInvariant, PTL

(* A report's text is stored in its own row, or in that of a report on     *)
(* other themes (report.py updates the latest row of the day): a report    *)
(* committed in between that shared a theme would have had to wait.        *)
THEOREM TextStaysWithItsThemes == Spec => []TextWithItsReport
<1>1. ReportInv => TextWithItsReport
  BY OfSession DEF TextWithItsReport, Fits, TextElsewhere
<1> QED BY <1>1, ReportInvariant, PTL

(* Talk alone takes no theme above 60 points, whatever the market, the     *)
(* documents and the weights, and no review lifts it (scoring.py's ceiling *)
(* and review.py's multipliers).                                           *)
THEOREM TalkStaysCapped == Spec => []TalkAloneIsCapped
<1>1. ReportInv => TalkAloneIsCapped
  <2> SUFFICES ASSUME ReportInv, NEW s \in Sessions, NEW t \in DOMAIN session[s].shown
               PROVE  session[s].shown[t].confirmed = 0 => session[s].shown[t].score <= 6000
    BY DEF TalkAloneIsCapped
  <2>1. Fine(session[s].shown[t])
    BY OfSession DEF GoodSession
  <2> QED BY <2>1 DEF Fine
<1> QED BY <1>1, ReportInvariant, PTL

(* A report that commits stores what it showed of every theme nobody else  *)
(* wrote between its look and its write (scoring.py, persist_score): what  *)
(* it inserts or updates is then the score it read with, and the second    *)
(* writing takes the difference the reviews made.                          *)
THEOREM ShownIsStored == Spec => StoredAsShown
<1>1. ReportInv /\ [Next]_vars =>
        [\A s \in Sessions : IsReport(s) /\ Commit(s) =>
            \A t \in DOMAIN session[s].shown \ session[s].torn :
                snapshots'[t] = Columns(session[s].shown[t])]_vars
  <2> SUFFICES ASSUME ReportInv, NEW s \in Sessions, Commit(s),
                      NEW t \in DOMAIN session[s].shown \ session[s].torn
               PROVE  snapshots'[t] = Columns(session[s].shown[t])
    OBVIOUS
  <2> DEFINE r == session[s]
  <2>1. GoodSession(r) /\ Faithful(r, market)
    BY OfSession
  <2>2. /\ r.pc = "commit"
        /\ snapshots' = [x \in Themes |-> IF x \in DOMAIN r.rows THEN r.rows[x] ELSE snapshots[x]]
    BY DEF Commit
  <2>3. t \in DOMAIN r.shown \ r.torn
    OBVIOUS
  <2> HIDE DEF r
  <2>4. t \in Themes /\ t \in DOMAIN r.rows /\ r.rows[t] = Columns(r.shown[t])
    BY <2>1, <2>2, <2>3 DEF GoodSession, RowsFollow, Faithful, Stored, Ending
  <2>5. snapshots'[t] = Columns(r.shown[t])
    BY <2>2, <2>4
  <2> QED BY <2>5 DEF r
<1> QED BY <1>1, ReportInvariant, PTL DEF Spec, StoredAsShown

-----------------------------------------------------------------------------
(* One of finitely many scores is the highest. *)
LEMMA GreatestExists ==
    ASSUME NEW S, IsFiniteSet(S), S # {}, NEW score, \A x \in S : score[x] \in Int
    PROVE  \E x \in S : \A y \in S : score[x] >= score[y]
<1> DEFINE highest(U) == \E x \in U : \A y \in U : score[x] >= score[y]
           P == {n \in Nat : \A U \in SUBSET S : Cardinality(U) = n + 1 => highest(U)}
<1>1. \A U \in SUBSET S : IsFiniteSet(U) /\ Cardinality(U) \in Nat
  BY FS_Subset, FS_CardinalityType
<1>2. 0 \in P
  <2> SUFFICES ASSUME NEW U \in SUBSET S, Cardinality(U) = 1
               PROVE  highest(U)
    OBVIOUS
  <2>1. PICK x : U = {x}
    BY <1>1, FS_Singleton
  <2> QED BY <2>1
<1>3. ASSUME NEW n \in P
      PROVE  n + 1 \in P
  <2> SUFFICES ASSUME NEW U \in SUBSET S, Cardinality(U) = n + 2
               PROVE  highest(U)
    OBVIOUS
  <2>1. U # {}
    BY FS_EmptySet
  <2>2. PICK z \in U : TRUE
    BY <2>1
  <2>3. U \ {z} \in SUBSET S /\ Cardinality(U \ {z}) = n + 1
    BY <1>1, FS_RemoveElement
  <2>4. PICK x \in U \ {z} : \A y \in U \ {z} : score[x] >= score[y]
    BY <2>3
  <2>5. CASE score[x] >= score[z]
    BY <2>4, <2>5
  <2>6. CASE ~(score[x] >= score[z])
    <3>1. \A y \in U : score[z] >= score[y]
      BY <2>4, <2>6
    <3> QED BY <3>1
  <2> QED BY <2>5, <2>6
<1>4. P = Nat
  <2> HIDE DEF P
  <2>1. P \subseteq Nat
    BY DEF P
  <2> QED BY <1>2, <1>3, <2>1, InductiveSet
<1>5. Cardinality(S) # 0
  BY FS_EmptySet
<1>6. Cardinality(S) - 1 \in P
  <2>1. Cardinality(S) - 1 \in Nat
    BY <1>1, <1>5
  <2> QED BY <1>4, <2>1
<1> QED BY <1>1, <1>6

(* The n with the highest of finitely many scores exist. *)
LEMMA TopExists ==
    ASSUME NEW S, IsFiniteSet(S), NEW score, \A x \in S : score[x] \in Int, NEW n \in Nat
    PROVE  \E best \in SUBSET S :
              /\ Cardinality(best) = Min({n, Cardinality(S)})
              /\ \A x \in best, y \in S \ best : score[x] >= score[y]
<1> DEFINE Top(k, best) == /\ Cardinality(best) = IF k <= Cardinality(S) THEN k ELSE Cardinality(S)
                           /\ \A x \in best, y \in S \ best : score[x] >= score[y]
           P == {k \in Nat : \E best \in SUBSET S : Top(k, best)}
<1>1. Cardinality(S) \in Nat
  BY FS_CardinalityType
<1>2. 0 \in P
  <2>1. Cardinality({}) = 0
    BY FS_EmptySet
  <2> QED BY <1>1, <2>1
<1>3. ASSUME NEW k \in P
      PROVE  k + 1 \in P
  <2>1. PICK best \in SUBSET S : Top(k, best)
    OBVIOUS
  <2>2. IsFiniteSet(best) /\ IsFiniteSet(S \ best)
    BY FS_Subset, FS_Difference
  <2>3. CASE S \ best = {}
    <3>1. best = S
      BY <2>3
    <3>2. Top(k + 1, best)
      BY <1>1, <2>1, <3>1
    <3> QED BY <3>2
  <2>4. CASE S \ best # {}
    <3>1. PICK z \in S \ best : \A y \in S \ best : score[z] >= score[y]
      BY <2>2, <2>4, GreatestExists
    <3>2. Cardinality(best \cup {z}) = Cardinality(best) + 1
      BY <2>2, <3>1, FS_AddElement
    <3>3. Cardinality(best) + 1 <= Cardinality(S)
      <4>1. best \cup {z} \subseteq S
        BY <3>1
      <4> QED BY <3>2, <4>1, FS_Subset
    <3>4. Cardinality(best \cup {z}) = k + 1 /\ k + 1 <= Cardinality(S)
      BY <1>1, <2>1, <3>2, <3>3
    <3>5. \A x \in best \cup {z}, y \in S \ (best \cup {z}) : score[x] >= score[y]
      BY <2>1, <3>1
    <3>6. Top(k + 1, best \cup {z}) /\ best \cup {z} \in SUBSET S
      BY <1>1, <3>4, <3>5
    <3> QED BY <3>6
  <2> QED BY <2>3, <2>4
<1>4. n \in P
  <2> HIDE DEF P
  <2>1. P \subseteq Nat
    BY DEF P
  <2> QED BY <1>2, <1>3, <2>1, InductiveSet
<1>5. Min({n, Cardinality(S)}) = IF n <= Cardinality(S) THEN n ELSE Cardinality(S)
  BY <1>1, MinOfTwo
<1> QED BY <1>4, <1>5

(* What a function makes of a finite set. *)
LEMMA ImageFinite ==
    ASSUME NEW S, IsFiniteSet(S), NEW f
    PROVE  IsFiniteSet({f[x] : x \in S})
<1> DEFINE T == {f[x] : x \in S}
           g == [x \in S |-> f[x]]
<1>1. g \in Surjection(S, T)
  BY DEF Surjection
<1> HIDE DEF g, T
<1>2. IsFiniteSet(T)
  BY <1>1, FS_Surjection
<1> QED BY <1>2 DEF T

-----------------------------------------------------------------------------
(* What may be bought: an instrument past the quality gate. *)
Buyable(m, x) == x \in Symbols /\ QualityGate(m.facts[x])

(* rank_theme_stocks rates members that are eligible, and nothing else. *)
LEMMA RatedAreBuyable ==
    ASSUME NEW k \in DOMAIN Markets, NEW c \in DOMAIN Corpora, NEW t \in Themes
    PROVE  /\ IsFiniteSet(Ranked[k][c][t])
           /\ \A r \in Ranked[k][c][t] : Buyable(Markets[k], r.symbol)
<1> DEFINE m == Markets[k]
           members == Assessed[k][c][t].members
           eligible == {y \in members : Eligible(m.facts[y])}
           rate(x) == [symbol |-> x, score |-> Composite(m, members, Grown(m, t), x),
                       sure |-> Confidence(m, members, Grown(m, t), x) >= MinConfidence]
           rated == {rate(x) : x \in eligible}
           score == [r \in rated |-> r.score]
           Top(best) == /\ Cardinality(best) = Min({MaxPerTheme, Cardinality(rated)})
                        /\ \A x \in best, y \in rated \ best : x.score >= y.score
<1>1. members \subseteq Symbols
  <2>1. members = ThemeSymbols(m, Corpora[c], t)
    BY DEF Assessed, Assess
  <2> QED BY <2>1, TradingAssumption DEF ThemeSymbols
<1>2. \A x \in eligible : Composite(m, members, Grown(m, t), x) \in Int
  BY ScoringAssumption
<1>3. IsFiniteSet(eligible)
  BY <1>1, SymbolsFinite, FS_Subset
<1>4. IsFiniteSet(rated)
  <2> DEFINE f == [x \in eligible |-> rate(x)]
  <2>1. {f[x] : x \in eligible} = rated
    OBVIOUS
  <2> HIDE DEF f, rated, eligible
  <2> QED BY <1>3, <2>1, ImageFinite
<1>5. \A r \in rated : score[r] \in Int /\ score[r] = r.score /\ Buyable(m, r.symbol)
  BY <1>1, <1>2 DEF Buyable, Eligible
<1> HIDE DEF eligible, members, rated
<1>6. \E best \in SUBSET rated : Top(best)
  <2> HIDE DEF score
  <2>1. \A r \in rated : score[r] \in Int
    BY <1>5
  <2>2. MaxPerTheme \in Nat
    BY TradingAssumption
  <2>3. PICK best \in SUBSET rated :
           /\ Cardinality(best) = Min({MaxPerTheme, Cardinality(rated)})
           /\ \A x \in best, y \in rated \ best : score[x] >= score[y]
    BY <1>4, <2>1, <2>2, TopExists
  <2>4. \A x \in best, y \in rated \ best : x.score >= y.score
    BY <1>5, <2>3
  <2> QED BY <2>3, <2>4
<1>7. Ranked[k][c][t] = CHOOSE best \in SUBSET rated : Top(best)
  BY DEF Ranked, Rated, rated, eligible, members
<1>8. Ranked[k][c][t] \in SUBSET rated
  BY <1>6, <1>7
<1> QED BY <1>4, <1>5, <1>8, FS_Subset

(* The candidates of a report make a sequence of buyable instruments. *)
LEMMA CandidatesAreBuyable ==
    ASSUME NEW k \in DOMAIN Markets, NEW c \in DOMAIN Corpora,
           NEW ranked, NEW order, NEW shown, DOMAIN shown \subseteq Themes,
           ranked = [t \in DOMAIN shown |-> Ranked[k][c][t]], order \in Seq(DOMAIN shown),
           NEW list \in CandidateLists(ranked, order, shown)
    PROVE  /\ Len(list) \in Nat
           /\ \A i \in 1 .. Len(list) : Buyable(Markets[k], list[i].stock.symbol)
<1> DEFINE strong == Strong(order, shown)
           earlier(i) == {x.symbol : x \in UNION {ranked[order[j]] : j \in {h \in strong : h < i}}}
           fresh(i) == {y \in ranked[order[i]] : y.symbol \notin earlier(i)}
           credit == [i \in strong |-> {[stock |-> x, theme |-> order[i]] : x \in fresh(i)}]
           sure == {e \in Credited(ranked, order, strong) : e.stock.sure}
<1>1. IsFiniteSet(strong) /\ \A i \in strong : order[i] \in DOMAIN shown
  <2>1. IsFiniteSet(1 .. Len(order)) /\ strong \subseteq 1 .. Len(order)
    BY FS_Interval DEF Strong
  <2> QED BY <2>1, FS_Subset
<1>2. \A t \in DOMAIN shown : /\ IsFiniteSet(ranked[t])
                              /\ \A r \in ranked[t] : Buyable(Markets[k], r.symbol)
  BY RatedAreBuyable
<1> HIDE DEF strong
<1>3. ASSUME NEW i \in strong
      PROVE  IsFiniteSet(credit[i])
  <2> DEFINE f == [x \in fresh(i) |-> [stock |-> x, theme |-> order[i]]]
  <2>1. IsFiniteSet(fresh(i))
    BY <1>1, <1>2, FS_Subset
  <2>2. {f[x] : x \in fresh(i)} = credit[i]
    OBVIOUS
  <2> HIDE DEF f, fresh, credit
  <2> QED BY <2>1, <2>2, ImageFinite
<1>4. Credited(ranked, order, strong) = UNION {credit[i] : i \in strong}
  BY DEF Credited
<1>5. IsFiniteSet(Credited(ranked, order, strong))
  <2> HIDE DEF credit
  <2>1. IsFiniteSet({credit[i] : i \in strong})
    BY <1>1, ImageFinite
  <2>2. \A T \in {credit[i] : i \in strong} : IsFiniteSet(T)
    BY <1>3
  <2> QED BY <1>4, <2>1, <2>2, FS_UNION
<1>6. \A e \in Credited(ranked, order, strong) : Buyable(Markets[k], e.stock.symbol)
  <2>1. ASSUME NEW i \in strong, NEW e \in credit[i]
        PROVE  Buyable(Markets[k], e.stock.symbol)
    <3>1. PICK x \in ranked[order[i]] : e = [stock |-> x, theme |-> order[i]]
      BY DEF credit, fresh
    <3>2. Buyable(Markets[k], x.symbol)
      BY <1>1, <1>2
    <3> QED BY <3>1, <3>2
  <2> HIDE DEF credit
  <2> QED BY <1>4, <2>1
<1>7. Cardinality(sure) \in Nat /\ \A e \in sure : Buyable(Markets[k], e.stock.symbol)
  BY <1>5, <1>6, FS_Subset, FS_CardinalityType
<1>8. list \in [1 .. Cardinality(sure) -> sure]
  BY DEF CandidateLists, SetToSeqs, strong
<1> HIDE DEF sure
<1>9. Len(list) = Cardinality(sure) /\ \A i \in 1 .. Cardinality(sure) : list[i] \in sure
  <2>1. list \in Seq(sure)
    BY <1>7, <1>8
  <2> QED BY <1>7, <1>8, <2>1
<1> QED BY <1>7, <1>9

-----------------------------------------------------------------------------
\* The basket before the first candidate, and one step of the loop over them.
NoPurchase(m) == [book |-> m.book, cash |-> m.cash, picks |-> <<>>]

Fill(m, candidates, filled, n) ==
    IF n = 0 THEN NoPurchase(m)
    ELSE Considered(m, filled[n - 1], candidates[n].stock.symbol)

IsFilled(m, candidates, filled) ==
    \A n \in 0 .. Len(candidates) : filled[n] = Fill(m, candidates, filled, n)

(* The loop over the candidates is defined, and leaves the last basket. *)
LEMMA BasketIsFilled ==
    ASSUME NEW m, NEW candidates, Len(candidates) \in Nat
    PROVE  \E filled : /\ IsFilled(m, candidates, filled)
                       /\ Basketed(m, candidates) = filled[Len(candidates)].picks
<1> DEFINE last == Len(candidates)
           Loop(f, n) == f = [k \in 0 .. n |-> Fill(m, candidates, f, k)]
           P == {n \in Nat : \E f : Loop(f, n)}
           all == CHOOSE f : Loop(f, last)
<1> HIDE DEF last
<1>1. 0 \in P
  <2> DEFINE f == [k \in 0 .. 0 |-> NoPurchase(m)]
  <2>1. Loop(f, 0)
    BY DEF Fill
  <2> QED BY <2>1
<1>2. ASSUME NEW n \in P
      PROVE  n + 1 \in P
  <2>0. PICK f : Loop(f, n)
    OBVIOUS
  <2>1. \A k \in 0 .. n : f[k] = Fill(m, candidates, f, k)
    <3> DEFINE h == [k \in 0 .. n |-> Fill(m, candidates, f, k)]
    <3>1. \A k \in 0 .. n : h[k] = Fill(m, candidates, f, k)
      OBVIOUS
    <3>2. f = h
      BY <2>0
    <3> QED BY <3>1, <3>2
  <2> DEFINE g == [k \in 0 .. n + 1 |-> IF k = n + 1 THEN Fill(m, candidates, f, n + 1) ELSE f[k]]
  <2>2. ASSUME NEW k \in 0 .. n + 1
        PROVE  g[k] = Fill(m, candidates, g, k)
    <3>1. CASE k = 0
      <4>1. f[0] = Fill(m, candidates, f, 0) /\ g[0] = f[0]
        BY <2>1
      <4> QED BY <3>1, <4>1 DEF Fill
    <3>2. CASE k # 0
      <4>1. k - 1 \in 0 .. n /\ g[k - 1] = f[k - 1]
        BY <3>2
      <4>2. Fill(m, candidates, g, k) = Fill(m, candidates, f, k)
        BY <3>2, <4>1 DEF Fill
      <4>3. k # n + 1 => k \in 0 .. n /\ f[k] = Fill(m, candidates, f, k)
        BY <2>1
      <4>4. g[k] = Fill(m, candidates, f, k)
        BY <4>3
      <4> QED BY <4>2, <4>4
    <3> QED BY <3>1, <3>2
  <2>3. Loop(g, n + 1)
    BY <2>2
  <2> HIDE DEF g, Loop
  <2>4. \E h : Loop(h, n + 1)
    BY <2>3
  <2> QED BY <2>4
<1>3. last \in P
  <2> HIDE DEF P
  <2>1. P \subseteq Nat
    BY DEF P
  <2> QED BY <1>1, <1>2, <2>1, InductiveSet DEF last
<1>4. Loop(all, last)
  BY <1>3
<1>5. Basketed(m, candidates) = all[last].picks
  BY DEF Basketed, Fill, NoPurchase, last
<1>6. IsFilled(m, candidates, all)
  BY <1>4 DEF IsFilled, last
<1> QED BY <1>5, <1>6 DEF last

-----------------------------------------------------------------------------
(* size_position gives whole shares, and some only at a price. *)
LEMMA SizedIsWhole ==
    ASSUME NEW equity \in Int, NEW price \in Nat, NEW atr \in Nat
    PROVE  LET sized == SizePosition(equity, price, atr, Profile) IN
           sized \in Int /\ (sized > 0 => price > 0 /\ StopDistance(atr, Profile) \in Nat \ {0})
<1> DEFINE stop == StopDistance(atr, Profile)
           byRisk == (equity * Profile.risk_per_trade_pct) \div (Whole * stop)
           byCap == (equity * Profile.max_position_pct) \div (Whole * price)
           valid == equity > 0 /\ price > 0 /\ atr > 0 /\ stop < price
<1>1. Profile.atr_stop_multiple \in Nat \ {0}
      /\ Profile.risk_per_trade_pct \in Int /\ Profile.max_position_pct \in Int
  BY TradingAssumption
<1>2. SizePosition(equity, price, atr, Profile) = IF valid THEN Min({byRisk, byCap}) ELSE 0
  BY DEF SizePosition
<1>3. ASSUME valid
      PROVE  stop \in Nat \ {0} /\ Min({byRisk, byCap}) \in Int
  <2>1. stop \in Nat \ {0}
    BY <1>1, <1>3 DEF StopDistance
  <2> HIDE DEF stop
  <2>2. Whole * stop \in Nat \ {0} /\ Whole * price \in Nat \ {0}
    BY <1>3, <2>1 DEF Whole
  <2>3. equity * Profile.risk_per_trade_pct \in Int /\ equity * Profile.max_position_pct \in Int
    BY <1>1
  <2>4. byRisk \in Int /\ byCap \in Int
    BY <2>2, <2>3, Quotient
  <2> HIDE DEF byRisk, byCap
  <2>5. Min({byRisk, byCap}) \in {byRisk, byCap}
    BY <2>4, MinOfTwo
  <2> QED BY <2>1, <2>4, <2>5
<1> HIDE DEF stop, byRisk, byCap
<1>4. SizePosition(equity, price, atr, Profile) \in Int
  BY <1>2, <1>3
<1>5. SizePosition(equity, price, atr, Profile) > 0 => valid
  BY <1>2
<1> QED BY <1>3, <1>4, <1>5 DEF stop

(* The least of three numbers is at most the first. *)
LEMMA MinOfThree ==
    ASSUME NEW a \in Int, NEW b \in Int, NEW c \in Int
    PROVE  Min({a, b, c}) \in Int /\ Min({a, b, c}) <= a
<1> DEFINE m == IF a <= b /\ a <= c THEN a ELSE IF b <= c THEN b ELSE c
<1>1. m \in {a, b, c} /\ \A y \in {a, b, c} : m <= y
  OBVIOUS
<1>2. \A x \in {a, b, c} : (\A y \in {a, b, c} : x <= y) => x = m
  OBVIOUS
<1>3. Min({a, b, c}) = m
  BY <1>1, <1>2 DEF Min
<1> QED BY <1>1, <1>3

(* What allocate spends is at most what the engine approved, and the cash. *)
LEMMA AllocatedFits ==
    ASSUME NEW m, NEW book, NEW cash \in Int, NEW x, book.equity \in Int, Value(book, x) \in Int,
           m.facts[x].price \in Nat, m.facts[x].atr \in Nat,
           NEW dollars, dollars = Allocate(m, book, cash, x), dollars # 0
    PROVE  /\ dollars \in Nat /\ dollars <= Max({0, cash})
           /\ \E n \in Nat : LET c == Candidate(m, book, x, n) IN
                 Approved(c, book, Profile) /\ dollars <= Notional(c)
<1> DEFINE price  == m.facts[x].price
           atr    == m.facts[x].atr
           sized  == SizePosition(book.equity, price, atr, Profile)
           funds  == Max({0, cash})
           shares == IF sized * price > funds THEN funds \div price ELSE sized
           cap    == (book.equity * Profile.max_position_pct) \div Whole - Value(book, x)
           room   == Max({0, cap})
           perShare == (book.equity * Profile.risk_per_trade_pct) \div Whole
           stop   == StopDistance(atr, Profile)
           atRisk == (perShare * price) \div stop
           spent  == IF shares > 0 THEN shares * price ELSE Min({funds, room, atRisk})
           n      == Max({1, shares})
           fits   == sized > 0 /\ Approved(Candidate(m, book, x, n), book, Profile)
                     /\ spent >= MinDollars
<1>1. Allocate(m, book, cash, x) = IF fits THEN spent ELSE 0
  BY DEF Allocate
<1>2. fits /\ dollars = spent
  BY <1>1
<1>3. sized \in Int /\ price \in Nat \ {0} /\ stop \in Nat \ {0}
  <2>1. sized \in Int /\ (sized > 0 => price > 0 /\ stop \in Nat \ {0})
    BY SizedIsWhole
  <2>2. sized > 0
    BY <1>2
  <2> HIDE DEF sized, stop
  <2> QED BY <2>1, <2>2
<1>4. funds \in Nat
  BY MaxOfTwo
<1>5. room \in Int
  <2>1. book.equity * Profile.max_position_pct \in Int /\ Whole \in Nat \ {0}
    BY TradingAssumption DEF Whole
  <2>2. cap \in Int
    BY <2>1, Quotient
  <2> HIDE DEF cap
  <2> QED BY <2>2, MaxOfTwo
<1>6. atRisk \in Int
  <2>1. book.equity * Profile.risk_per_trade_pct \in Int /\ Whole \in Nat \ {0}
    BY TradingAssumption DEF Whole
  <2>2. perShare \in Int
    BY <2>1, Quotient
  <2> HIDE DEF perShare, price, stop
  <2>3. perShare * price \in Int
    BY <1>3, <2>2
  <2> QED BY <1>3, <2>3, Quotient
<1>7. Notional(Candidate(m, book, x, n)) = n * price
  BY DEF Notional, Candidate
<1>8. spent >= 10
  BY <1>2 DEF MinDollars
<1> HIDE DEF price, atr, sized, funds, room, stop, atRisk
<1>9. shares \in Int /\ shares * price <= funds
  <2>1. funds \div price \in Int /\ price * (funds \div price) <= funds
    BY <1>3, <1>4, Quotient
  <2> DEFINE q == funds \div price
  <2>2. q * price = price * q
    BY <1>3, <2>1
  <2>3. sized * price \in Int
    BY <1>3
  <2> QED BY <1>3, <1>4, <2>1, <2>2, <2>3
<1>10. shares <= 0 => funds < price
  <2>1. sized > 0
    BY <1>2
  <2>2. CASE sized * price > funds
    <3>1. funds \div price <= 0 <=> funds < price * 0 + price
      BY <1>3, <1>4, QuotientAtMost
    <3> QED BY <1>3, <1>4, <2>2, <3>1
  <2>3. CASE ~(sized * price > funds)
    BY <1>3, <2>1, <2>3
  <2> QED BY <2>2, <2>3
<1> HIDE DEF shares
<1>11. n = IF shares >= 1 THEN shares ELSE 1
  <2>1. Max({1, shares}) = IF 1 >= shares THEN 1 ELSE shares
    BY <1>9, MaxOfTwo
  <2> QED BY <1>9, <2>1
<1>12. spent \in Int /\ spent <= funds /\ spent <= n * price
  <2>1. CASE shares > 0
    BY <1>3, <1>9, <1>11, <2>1
  <2>2. CASE ~(shares > 0)
    <3>1. Min({funds, room, atRisk}) \in Int /\ Min({funds, room, atRisk}) <= funds
      BY <1>4, <1>5, <1>6, MinOfThree
    <3>2. n * price = price /\ funds < price
      BY <1>3, <1>9, <1>10, <1>11, <2>2
    <3> QED BY <1>3, <1>4, <2>2, <3>1, <3>2
  <2> QED BY <2>1, <2>2
<1>13. n \in Nat
  BY <1>9, <1>11
<1> HIDE DEF n, spent
<1>14. dollars \in Nat /\ dollars <= funds
  BY <1>2, <1>8, <1>12
<1>15. Approved(Candidate(m, book, x, n), book, Profile)
       /\ dollars <= Notional(Candidate(m, book, x, n))
  BY <1>2, <1>7, <1>12
<1> QED BY <1>13, <1>14, <1>15 DEF funds

-----------------------------------------------------------------------------
(* A sum over a sequence to which a term is appended. *)
LEMMA SumAppended ==
    ASSUME NEW n \in Nat, NEW f, NEW g, DOMAIN f = 1 .. n, DOMAIN g = 1 .. n + 1,
           \A i \in 1 .. n + 1 : g[i] \in Nat, \A i \in 1 .. n : f[i] = g[i]
    PROVE  /\ SumFunction(f) \in Nat
           /\ SumFunction(g) = SumFunction(f) + g[n + 1]
<1> DEFINE S == 1 .. n
           T == 1 .. n + 1
<1>1. IsFiniteSet(S) /\ IsFiniteSet(T)
  BY FS_Interval
<1>2. T \ {n + 1} = S /\ n + 1 \in T /\ n + 1 \notin S /\ S \subseteq T
  OBVIOUS
<1>3. \A i \in S : f[i] \in Nat /\ f[i] = g[i]
  OBVIOUS
<1>4. \A i \in T : g[i] \in Nat
  OBVIOUS
<1>5. SumFunction(f) = SumFunctionOnSet(f, S) /\ SumFunction(g) = SumFunctionOnSet(g, T)
  BY DEF SumFunction
<1> HIDE DEF S, T
<1>6. SumFunctionOnSet(f, S) \in Int /\ SumFunctionOnSet(f, S) = SumFunctionOnSet(g, S)
  <2>1. \A i \in S : f[i] \in Int /\ f[i] = g[i]
    BY <1>3
  <2> QED BY <1>1, <2>1, SumEqual, SumRecursion
<1>7. 0 <= SumFunctionOnSet(f, S)
  <2>1. \A i \in S : f[i] \in Int /\ f[i] >= 0
    BY <1>3
  <2> QED BY <1>1, <2>1, SumSubset
<1>8. SumFunctionOnSet(g, T) = g[n + 1] + SumFunctionOnSet(g, S)
  <2>1. \A i \in T : g[i] \in Int
    BY <1>4
  <2> QED BY <1>1, <1>2, <2>1, SumRecursion
<1>9. g[n + 1] \in Nat
  BY <1>2, <1>4
<1> QED BY <1>5, <1>6, <1>7, <1>8, <1>9

Pick == [symbol : Symbols, dollars : Nat]

Bought(picks) == {picks[i].symbol : i \in DOMAIN picks}

Paid(picks) == SumFunction([i \in DOMAIN picks |-> picks[i].dollars])

(* What another purchase adds to what is spent. *)
LEMMA SpentAppended ==
    ASSUME NEW picks \in Seq(Pick), NEW p \in Pick
    PROVE  LET more == Append(picks, p) IN
           /\ more \in Seq(Pick) /\ Bought(more) = Bought(picks) \cup {p.symbol}
           /\ Paid(picks) \in Nat /\ Paid(more) = Paid(picks) + p.dollars
           /\ \A x \in Symbols :
                /\ Spent(picks, x) \in Nat
                /\ Spent(more, x) = Spent(picks, x) + (IF p.symbol = x THEN p.dollars ELSE 0)
<1> DEFINE more == Append(picks, p)
           n == Len(picks)
<1>1. /\ n \in Nat /\ DOMAIN picks = 1 .. n /\ DOMAIN more = 1 .. n + 1
      /\ more \in Seq(Pick) /\ more[n + 1] = p
      /\ \A i \in 1 .. n : more[i] = picks[i] /\ picks[i] \in Pick
  OBVIOUS
<1> HIDE DEF more, n
<1>2. \A i \in 1 .. n + 1 : more[i] \in Pick
  <2>1. \A i \in 1 .. n + 1 : i \in 1 .. n \/ i = n + 1
    BY <1>1
  <2> QED BY <1>1, <2>1
<1>3. Bought(more) = Bought(picks) \cup {p.symbol}
  <2>1. \A i \in 1 .. n + 1 : i \in 1 .. n \/ i = n + 1
    BY <1>1
  <2>2. 1 .. n \subseteq 1 .. n + 1 /\ n + 1 \in 1 .. n + 1
    BY <1>1
  <2> QED BY <1>1, <2>1, <2>2 DEF Bought
<1>4. Paid(picks) \in Nat /\ Paid(more) = Paid(picks) + p.dollars
  <2> DEFINE f == [i \in DOMAIN picks |-> picks[i].dollars]
             g == [i \in DOMAIN more |-> more[i].dollars]
  <2>1. /\ DOMAIN f = 1 .. n /\ DOMAIN g = 1 .. n + 1 /\ \A i \in 1 .. n : f[i] = g[i]
        /\ \A i \in 1 .. n + 1 : g[i] \in Nat
        /\ g[n + 1] = p.dollars
    BY <1>1, <1>2 DEF Pick
  <2>2. Paid(picks) = SumFunction(f) /\ Paid(more) = SumFunction(g)
    BY DEF Paid
  <2> HIDE DEF f, g
  <2>3. SumFunction(f) \in Nat /\ SumFunction(g) = SumFunction(f) + g[n + 1]
    BY <1>1, <2>1, SumAppended
  <2> QED BY <2>1, <2>2, <2>3
<1>5. ASSUME NEW x \in Symbols
      PROVE  /\ Spent(picks, x) \in Nat
             /\ Spent(more, x) = Spent(picks, x) + (IF p.symbol = x THEN p.dollars ELSE 0)
  <2> DEFINE f == [i \in DOMAIN picks |-> IF picks[i].symbol = x THEN picks[i].dollars ELSE 0]
             g == [i \in DOMAIN more |-> IF more[i].symbol = x THEN more[i].dollars ELSE 0]
  <2>1. /\ DOMAIN f = 1 .. n /\ DOMAIN g = 1 .. n + 1 /\ \A i \in 1 .. n : f[i] = g[i]
        /\ \A i \in 1 .. n + 1 : g[i] \in Nat
        /\ g[n + 1] = IF p.symbol = x THEN p.dollars ELSE 0
    BY <1>1, <1>2 DEF Pick
  <2>2. Spent(picks, x) = SumFunction(f) /\ Spent(more, x) = SumFunction(g)
    BY DEF Spent
  <2> HIDE DEF f, g
  <2>3. SumFunction(f) \in Nat /\ SumFunction(g) = SumFunction(f) + g[n + 1]
    BY <1>1, <2>1, SumAppended
  <2> QED BY <2>1, <2>2, <2>3
<1> QED BY <1>1, <1>3, <1>4, <1>5 DEF more

(* Nothing is spent before the first purchase. *)
LEMMA NothingSpent ==
    /\ << >> \in Seq(Pick) /\ Bought(<< >>) = {} /\ Paid(<< >>) = 0
    /\ \A x \in Symbols : Spent(<< >>, x) = 0
<1> DEFINE none == << >>
<1>1. none \in Seq(Pick) /\ DOMAIN none = {}
  OBVIOUS
<1> HIDE DEF none
<1>2. \A f : DOMAIN f = {} => SumFunction(f) = 0
  <2>1. ASSUME NEW f PROVE SumFunctionOnSet(f, {}) = 0
    <3>1. IsFiniteSet({}) /\ \A i \in {} : f[i] \in Int
      BY FS_EmptySet
    <3> QED BY <3>1, SumRecursion
  <2> QED BY <2>1 DEF SumFunction
<1>3. Paid(none) = 0
  <2> DEFINE f == [i \in DOMAIN none |-> none[i].dollars]
  <2>1. DOMAIN f = {} /\ Paid(none) = SumFunction(f)
    BY <1>1 DEF Paid
  <2> HIDE DEF f
  <2> QED BY <1>2, <2>1
<1>4. ASSUME NEW x \in Symbols
      PROVE  Spent(none, x) = 0
  <2> DEFINE f == [i \in DOMAIN none |-> IF none[i].symbol = x THEN none[i].dollars ELSE 0]
  <2>1. DOMAIN f = {} /\ Spent(none, x) = SumFunction(f)
    BY <1>1 DEF Spent
  <2> HIDE DEF f
  <2> QED BY <1>2, <2>1
<1> QED BY <1>1, <1>3, <1>4 DEF Bought, none

-----------------------------------------------------------------------------
\* A portfolio without a short position.
LongOnly(book) ==
    /\ {"equity", "shares", "price", "sector"} \subseteq DOMAIN book
    /\ book.equity \in Int
    /\ book.shares \in [Symbols -> Nat] /\ book.price \in [Symbols -> Nat]
    /\ DOMAIN book.sector = Symbols

(* No position has a negative value. *)
LEMMA ValuesAreNatural ==
    ASSUME NEW book, LongOnly(book)
    PROVE  /\ \A x \in Symbols : Value(book, x) \in Nat
           /\ \A x \in Symbols \ Open(book) : Value(book, x) = 0
<1>1. \A x \in Symbols : book.shares[x] \in Nat /\ book.price[x] \in Nat
  BY DEF LongOnly
<1>2. \A x \in Symbols : Value(book, x) \in Nat
  BY <1>1 DEF Value
<1>3. \A x \in Symbols \ Open(book) : book.shares[x] = 0
  BY DEF Open
<1> QED BY <1>1, <1>2, <1>3 DEF Value

(* What fewer positions are worth is less, and what is not open is worth   *)
(* nothing.                                                                *)
LEMMA TotalsOfParts ==
    ASSUME NEW book, LongOnly(book), NEW X \in SUBSET Symbols, NEW Y \in SUBSET X
    PROVE  /\ Total(book, X) \in Nat /\ Total(book, Y) <= Total(book, X)
           /\ (\A x \in X \ Y : Value(book, x) = 0) => Total(book, Y) = Total(book, X)
<1> DEFINE worth == [x \in Symbols |-> Value(book, x)]
           part(U) == [x \in U |-> Value(book, x)]
<1>1. IsFiniteSet(X) /\ IsFiniteSet(Y)
  BY SymbolsFinite, FS_Subset
<1>2. \A x \in Symbols : worth[x] \in Nat /\ worth[x] = Value(book, x)
  BY ValuesAreNatural
<1>3. ASSUME NEW U \in SUBSET Symbols, IsFiniteSet(U)
      PROVE  Total(book, U) = SumFunctionOnSet(worth, U)
  <2>1. \A x \in U : part(U)[x] \in Int /\ part(U)[x] = worth[x]
    BY <1>2
  <2>2. Total(book, U) = SumFunctionOnSet(part(U), U)
    BY DEF Total, SumFunction
  <2> HIDE DEF part, worth
  <2> DEFINE g == part(U)
  <2>3. \A x \in U : g[x] \in Int /\ g[x] = worth[x]
    BY <2>1
  <2>4. Total(book, U) = SumFunctionOnSet(g, U)
    BY <2>2
  <2> HIDE DEF g
  <2> QED BY <1>3, <2>3, <2>4, SumEqual
<1> HIDE DEF worth
<1>4. \A x \in X : worth[x] \in Int /\ worth[x] >= 0
  BY <1>2
<1>5. Total(book, X) = SumFunctionOnSet(worth, X) /\ Total(book, Y) = SumFunctionOnSet(worth, Y)
  BY <1>1, <1>3
<1>6. 0 <= SumFunctionOnSet(worth, Y) /\ SumFunctionOnSet(worth, Y) <= SumFunctionOnSet(worth, X)
  BY <1>1, <1>4, SumSubset
<1>7. SumFunctionOnSet(worth, X) \in Int /\ SumFunctionOnSet(worth, Y) \in Int
  BY <1>1, <1>4, SumRecursion
<1>8. ASSUME \A x \in X \ Y : Value(book, x) = 0
      PROVE  SumFunctionOnSet(worth, X) = SumFunctionOnSet(worth, Y)
  <2>1. \A x \in X \ Y : worth[x] = 0
    BY <1>2, <1>8
  <2> QED BY <1>1, <1>4, <2>1, SumSupport
<1> QED BY <1>5, <1>6, <1>7, <1>8

(* A total moves with the one position in it that does. *)
LEMMA TotalMoves ==
    ASSUME NEW old, LongOnly(old), NEW new, LongOnly(new), NEW x \in Symbols, NEW d \in Int,
           Value(new, x) = Value(old, x) + d,
           \A y \in Symbols \ {x} : Value(new, y) = Value(old, y),
           NEW X \in SUBSET Symbols
    PROVE  Total(new, X) = Total(old, X) + (IF x \in X THEN d ELSE 0)
<1> DEFINE f == [y \in X |-> Value(old, y)]
           g == [y \in X |-> Value(new, y)]
<1>1. IsFiniteSet(X)
  BY SymbolsFinite, FS_Subset
<1>2. /\ \A y \in X : f[y] \in Int /\ g[y] \in Int
      /\ \A y \in X \ {x} : f[y] = g[y]
      /\ x \in X => g[x] = f[x] + d
  BY ValuesAreNatural
<1>3. Total(old, X) = SumFunctionOnSet(f, X) /\ Total(new, X) = SumFunctionOnSet(g, X)
  BY DEF Total, SumFunction
<1> HIDE DEF f, g
<1>4. SumFunctionOnSet(f, X) \in Int
  BY <1>1, <1>2, SumRecursion
<1>5. CASE x \in X
  <2>1. SumFunctionOnSet(g, X) = SumFunctionOnSet(f, X) + g[x] - f[x]
    BY <1>1, <1>2, <1>5, SumUpdate
  <2> QED BY <1>2, <1>3, <1>4, <1>5, <2>1
<1>6. CASE x \notin X
  <2>1. \A y \in X : f[y] \in Int /\ f[y] = g[y]
    BY <1>2, <1>6
  <2>2. SumFunctionOnSet(f, X) = SumFunctionOnSet(g, X)
    BY <1>1, <2>1, SumEqual
  <2> QED BY <1>3, <1>4, <1>6, <2>2
<1> QED BY <1>5, <1>6

\* A portfolio with a purchase of x in it.
Added(new, old, x, dollars, sector) ==
    /\ LongOnly(new) /\ new.equity = old.equity
    /\ Open(new) = Open(old) \cup {x}
    /\ Value(new, x) = Value(old, x) + dollars
    /\ \A y \in Symbols \ {x} : Value(new, y) = Value(old, y)
    /\ \A y \in Symbols : new.sector[y] = IF y = x THEN sector ELSE old.sector[y]

(* The working portfolio is such a one. *)
LEMMA ProposedBook ==
    ASSUME NEW m, NEW b, LongOnly(b.book), NEW x \in Symbols, NEW d \in Nat \ {0}
    PROVE  Added(WithProposed(m, b, x, d).book, b.book, x, d, m.facts[x].sector)
<1> DEFINE old == b.book
           new == WithProposed(m, b, x, d).book
           v == Value(old, x)
           sector == m.facts[x].sector
<1>1. v \in Nat
  BY ValuesAreNatural
<1>2. new = [old EXCEPT !.shares[x] = 1, !.price[x] = d + v, !.sector[x] = sector]
  BY DEF WithProposed
<1>3. LongOnly(old)
  OBVIOUS
<1> HIDE DEF old, new, v, sector
<1>4. /\ DOMAIN new = DOMAIN old /\ new.equity = old.equity
      /\ new.shares = [old.shares EXCEPT ![x] = 1]
      /\ new.price = [old.price EXCEPT ![x] = d + v]
      /\ new.sector = [old.sector EXCEPT ![x] = sector]
  BY <1>2, <1>3 DEF LongOnly
<1>5. LongOnly(new)
  BY <1>1, <1>3, <1>4 DEF LongOnly
<1>6. \A y \in Symbols : /\ new.shares[y] = IF y = x THEN 1 ELSE old.shares[y]
                         /\ new.price[y] = IF y = x THEN d + v ELSE old.price[y]
                         /\ new.sector[y] = IF y = x THEN sector ELSE old.sector[y]
  BY <1>3, <1>4 DEF LongOnly
<1>7. Open(new) = Open(old) \cup {x}
  BY <1>6 DEF Open
<1>8. Value(new, x) = v + d
  BY <1>1, <1>6 DEF Value
<1>9. \A y \in Symbols \ {x} : Value(new, y) = Value(old, y)
  BY <1>6 DEF Value
<1>10. Added(new, old, x, d, sector)
  BY <1>4, <1>5, <1>6, <1>7, <1>8, <1>9 DEF Added, v
<1> QED BY <1>10 DEF new, old, sector

-----------------------------------------------------------------------------
\* The open positions of the sector of x.
Peers(book, x) == {y \in Open(book) : book.sector[y] = book.sector[x]}

\* The working portfolio is the real one with the purchases in it, and the
\* cash is what they leave of it.
Carried(m, b) ==
    /\ LongOnly(b.book) /\ b.book.equity = m.book.equity
    /\ b.picks \in Seq(Pick)
    /\ b.cash \in Int /\ Paid(b.picks) + Max({0, b.cash}) <= Max({0, m.cash})
    /\ Open(b.book) = Open(m.book) \cup Bought(b.picks)
    /\ \A x \in Symbols :
          /\ Value(b.book, x) = Value(m.book, x) + Spent(b.picks, x)
          /\ b.book.sector[x] = IF x \in Bought(b.picks) THEN m.facts[x].sector
                                ELSE m.book.sector[x]

\* It is within the limits, once there is a purchase in it.
Limited(b) ==
    \A x \in Bought(b.picks) :
        /\ x \in Symbols
        /\ Cardinality(Open(b.book)) <= Profile.max_open_positions
        /\ Within(Total(b.book, Open(b.book)), Profile.max_portfolio_exposure_pct, b.book)
        /\ Within(Value(b.book, x), Profile.max_position_pct, b.book)
        /\ Within(Total(b.book, Peers(b.book, x)), Profile.max_sector_pct, b.book)

(* Less is within a limit, too. *)
LEMMA WithinIsMonotone ==
    ASSUME NEW a \in Int, NEW c \in Int, a <= c, NEW limit \in Int,
           NEW p, NEW q, p.equity \in Int, q.equity = p.equity, Within(c, limit, p)
    PROVE  Within(a, limit, q)
BY DEF Within, Whole

(* A purchase within what the engine approved of is carried.                *)
LEMMA ProposedIsCarried ==
    ASSUME NEW m, LongOnly(m.book), m.cash \in Int, NEW b, Carried(m, b), NEW x \in Symbols, NEW d \in Nat \ {0},
           d <= Max({0, b.cash})
    PROVE  Carried(m, WithProposed(m, b, x, d))
<1> DEFINE c == WithProposed(m, b, x, d)
           pick == [symbol |-> x, dollars |-> d]
<1>1. /\ LongOnly(c.book) /\ c.book.equity = b.book.equity
      /\ Open(c.book) = Open(b.book) \cup {x}
      /\ Value(c.book, x) = Value(b.book, x) + d
      /\ \A y \in Symbols \ {x} : Value(c.book, y) = Value(b.book, y)
      /\ \A y \in Symbols :
            c.book.sector[y] = IF y = x THEN m.facts[x].sector ELSE b.book.sector[y]
  <2>1. LongOnly(b.book)
    BY DEF Carried
  <2>2. Added(c.book, b.book, x, d, m.facts[x].sector)
    BY <2>1, ProposedBook
  <2> HIDE DEF c
  <2> QED BY <2>2 DEF Added
<1>2. c.picks = Append(b.picks, pick) /\ c.cash = Max({0, b.cash - d})
      /\ pick \in Pick /\ pick.symbol = x /\ pick.dollars = d
  BY DEF WithProposed, Pick
<1> HIDE DEF c, pick
<1>3. /\ c.picks \in Seq(Pick) /\ Bought(c.picks) = Bought(b.picks) \cup {x}
      /\ Paid(b.picks) \in Nat /\ Paid(c.picks) = Paid(b.picks) + d
      /\ \A y \in Symbols :
            /\ Spent(b.picks, y) \in Nat
            /\ Spent(c.picks, y) = Spent(b.picks, y) + (IF x = y THEN d ELSE 0)
  BY <1>2, SpentAppended DEF Carried
<1>4. c.cash \in Int /\ Paid(c.picks) + Max({0, c.cash}) <= Max({0, m.cash})
  <2>1. b.cash \in Int /\ b.cash - d \in Int
    BY DEF Carried
  <2>2. Max({0, b.cash}) = IF 0 >= b.cash THEN 0 ELSE b.cash
    BY <2>1, MaxOfTwo
  <2>3. c.cash = IF 0 >= b.cash - d THEN 0 ELSE b.cash - d
    BY <1>2, <2>1, MaxOfTwo
  <2>4. c.cash \in Int /\ Max({0, c.cash}) = IF 0 >= c.cash THEN 0 ELSE c.cash
    BY <2>1, <2>3, MaxOfTwo
  <2>5. Max({0, m.cash}) \in Int
    BY MaxOfTwo
  <2>6. Paid(b.picks) + Max({0, b.cash}) <= Max({0, m.cash})
    BY DEF Carried
  <2> QED BY <1>3, <2>1, <2>2, <2>3, <2>4, <2>5, <2>6
<1>5. Open(c.book) = Open(m.book) \cup Bought(c.picks)
  BY <1>1, <1>3 DEF Carried
<1>6. ASSUME NEW y \in Symbols
      PROVE  Value(c.book, y) = Value(m.book, y) + Spent(c.picks, y)
  <2>1. Value(b.book, y) = Value(m.book, y) + Spent(b.picks, y) /\ Value(b.book, y) \in Nat
    BY ValuesAreNatural DEF Carried
  <2>2. Spent(b.picks, y) \in Nat /\ Spent(c.picks, y) = Spent(b.picks, y) + (IF x = y THEN d ELSE 0)
    BY <1>3
  <2>3. Value(c.book, y) = Value(b.book, y) + (IF x = y THEN d ELSE 0)
    BY <1>1, <2>1
  <2>4. Value(m.book, y) \in Int
    BY ValuesAreNatural
  <2> QED BY <2>1, <2>2, <2>3, <2>4
<1>7. ASSUME NEW y \in Symbols
      PROVE  c.book.sector[y] = IF y \in Bought(c.picks) THEN m.facts[y].sector
                                ELSE m.book.sector[y]
  BY <1>1, <1>3 DEF Carried
<1> QED BY <1>1, <1>3, <1>4, <1>5, <1>6, <1>7 DEF Carried, c

(* What the engine approved keeps the working portfolio limited.           *)
LEMMA ApprovedKeepsLimits ==
    ASSUME NEW m, LongOnly(m.book), NEW b, Carried(m, b), Limited(b),
           NEW x \in Symbols, NEW d \in Nat \ {0}, NEW n \in Nat, m.facts[x].price \in Nat,
           Approved(Candidate(m, b.book, x, n), b.book, Profile),
           d <= Notional(Candidate(m, b.book, x, n))
    PROVE  Limited(WithProposed(m, b, x, d))
<1> DEFINE c == WithProposed(m, b, x, d)
           order == Candidate(m, b.book, x, n)
           old == b.book
           new == c.book
           now == Open(old) \cup {x}
           peers == {y \in Open(old) : old.sector[y] = m.facts[x].sector \/ y = x}
           cost == Notional(order)
<1>1. /\ LongOnly(new) /\ new.equity = old.equity
      /\ Open(new) = now
      /\ Value(new, x) = Value(old, x) + d
      /\ \A y \in Symbols \ {x} : Value(new, y) = Value(old, y)
      /\ \A y \in Symbols : new.sector[y] = IF y = x THEN m.facts[x].sector ELSE old.sector[y]
  <2>1. LongOnly(b.book)
    BY DEF Carried
  <2>2. Added(new, old, x, d, m.facts[x].sector)
    BY <2>1, ProposedBook
  <2> HIDE DEF new, old
  <2> QED BY <2>2 DEF Added
<1>2. /\ order.symbol = x /\ order.action = "BUY" /\ order.sector = m.facts[x].sector
      /\ cost = n * m.facts[x].price
  BY DEF Candidate, Notional
<1>3. /\ Within(Value(old, x) + cost, Profile.max_position_pct, old)
      /\ Cardinality(now) <= Profile.max_open_positions
      /\ Within(Total(old, peers) + cost, Profile.max_sector_pct, old)
      /\ Within(Total(old, Open(old)) + cost, Profile.max_portfolio_exposure_pct, old)
  <2>1. EntryRules(order, old, Profile)
    BY <1>2 DEF Approved
  <2>2. /\ MaxPositionPct(order, old, Profile) /\ MaxOpenPositions(order, old, Profile)
        /\ MaxSectorPct(order, old, Profile) /\ MaxPortfolioExposure(order, old, Profile)
    BY <2>1 DEF EntryRules
  <2> HIDE DEF order, old
  <2> QED BY <1>2, <2>2 DEF MaxPositionPct, MaxOpenPositions, MaxSectorPct, MaxPortfolioExposure
<1>4. cost \in Nat
  BY <1>2
<1>5. Bought(c.picks) = Bought(b.picks) \cup {x}
  <2>1. b.picks \in Seq(Pick) /\ [symbol |-> x, dollars |-> d] \in Pick
    BY DEF Carried, Pick
  <2>2. c.picks = Append(b.picks, [symbol |-> x, dollars |-> d])
    BY DEF WithProposed
  <2> HIDE DEF c
  <2> QED BY <2>1, <2>2, SpentAppended
<1>6. LongOnly(old) /\ old.equity \in Int
  BY DEF Carried, LongOnly
<1>7. /\ Profile.max_position_pct \in Int /\ Profile.max_sector_pct \in Int
      /\ Profile.max_portfolio_exposure_pct \in Int
  BY TradingAssumption
<1>8. d <= cost /\ d \in Nat
  OBVIOUS
<1> HIDE DEF c, order, old, new, cost
<1>9. Open(old) \subseteq Symbols /\ now \subseteq Symbols /\ peers \subseteq Open(old)
  BY DEF Open
<1>10. Value(old, x) \in Nat
  BY <1>6, ValuesAreNatural
\* The whole portfolio.
<1>11. Within(Total(new, now), Profile.max_portfolio_exposure_pct, new)
  <2>1. Total(new, now) = Total(old, now) + d
    BY <1>1, <1>6, <1>8, <1>9, TotalMoves
  <2>2. \A y \in now \ Open(old) : Value(old, y) = 0
    BY <1>6, <1>9, ValuesAreNatural
  <2>3. Total(old, Open(old)) = Total(old, now) /\ Total(old, now) \in Nat
    BY <1>6, <1>9, <2>2, TotalsOfParts
  <2>4. Total(new, now) <= Total(old, Open(old)) + cost
    BY <1>4, <1>8, <2>1, <2>3
  <2> HIDE DEF now
  <2> QED BY <1>1, <1>3, <1>4, <1>6, <1>7, <1>8, <2>1, <2>3, <2>4, WithinIsMonotone
\* The positions.
<1>12. Within(Value(new, x), Profile.max_position_pct, new)
  <2>1. Value(new, x) \in Int /\ Value(old, x) + cost \in Int /\ Value(new, x) <= Value(old, x) + cost
    BY <1>1, <1>4, <1>8, <1>10
  <2> QED BY <1>1, <1>3, <1>6, <1>7, <2>1, WithinIsMonotone
\* The sector of x.
<1>13. Within(Total(new, Peers(new, x)), Profile.max_sector_pct, new)
  <2> DEFINE group == Peers(new, x)
  <2>1. group = peers \cup {x}
    BY <1>1, <1>9 DEF Peers
  <2>2. group \subseteq Symbols /\ x \in group /\ peers \subseteq group
    BY <1>9, <2>1
  <2>3. \A y \in group \ peers : Value(old, y) = 0
    <3>1. \A y \in group \ peers : y \in Symbols \ Open(old)
      BY <1>9, <2>1
    <3> HIDE DEF group, peers
    <3> QED BY <1>6, <3>1, ValuesAreNatural
  <2> HIDE DEF group, peers
  <2>4. Total(new, group) = Total(old, group) + d
    BY <1>1, <1>6, <1>8, <2>2, TotalMoves
  <2>5. Total(old, peers) = Total(old, group) /\ Total(old, group) \in Nat
    BY <1>6, <2>2, <2>3, TotalsOfParts
  <2>6. /\ Total(new, group) \in Int /\ Total(old, peers) + cost \in Int
        /\ Total(new, group) <= Total(old, peers) + cost
    BY <1>4, <1>8, <2>4, <2>5
  <2>7. Within(Total(new, group), Profile.max_sector_pct, new)
    BY <1>1, <1>3, <1>6, <1>7, <2>6, WithinIsMonotone
  <2> QED BY <2>7 DEF group
<1>14. ASSUME NEW y \in Bought(b.picks), y # x
       PROVE  /\ y \in Symbols
              /\ Within(Value(new, y), Profile.max_position_pct, new)
              /\ Within(Total(new, Peers(new, y)), Profile.max_sector_pct, new)
  <2>1. /\ y \in Symbols
        /\ Within(Value(old, y), Profile.max_position_pct, old)
        /\ Within(Total(old, Peers(old, y)), Profile.max_sector_pct, old)
    BY DEF Limited, old
  <2>2. Within(Value(new, y), Profile.max_position_pct, new)
    <3>1. Value(new, y) = Value(old, y) /\ Value(old, y) \in Nat
      BY <1>1, <1>6, <1>14, <2>1, ValuesAreNatural
    <3> QED BY <1>1, <1>6, <1>7, <2>1, <3>1, WithinIsMonotone
  <2>3. CASE old.sector[y] = m.facts[x].sector
    <3>1. Peers(new, y) = Peers(new, x)
      BY <1>1, <1>14, <2>1, <2>3 DEF Peers
    <3> QED BY <1>13, <2>1, <2>2, <3>1
  <2>4. CASE old.sector[y] # m.facts[x].sector
    <3> DEFINE group == Peers(new, y)
               before == Peers(old, y)
    <3>1. group \subseteq before /\ x \notin group
      BY <1>1, <1>9, <1>14, <2>1, <2>4 DEF Peers
    <3>2. before \subseteq Symbols
      BY <1>9 DEF Peers
    <3> HIDE DEF group, before
    <3>3. Total(new, group) = Total(old, group)
      <4>1. Total(new, group) = Total(old, group) + 0
        BY <1>1, <1>6, <1>8, <3>1, <3>2, TotalMoves
      <4>2. Total(old, group) \in Nat
        BY <1>6, <3>1, <3>2, TotalsOfParts
      <4> QED BY <4>1, <4>2
    <3>4. /\ Total(old, group) \in Int /\ Total(old, before) \in Int
          /\ Total(old, group) <= Total(old, before)
      BY <1>6, <3>1, <3>2, TotalsOfParts
    <3>5. Within(Total(new, group), Profile.max_sector_pct, new)
      BY <1>1, <1>6, <1>7, <2>1, <3>3, <3>4, WithinIsMonotone DEF before
    <3> QED BY <2>1, <2>2, <3>5 DEF group
  <2> QED BY <2>3, <2>4
<1> HIDE DEF now, peers
<1> QED BY <1>1, <1>3, <1>5, <1>11, <1>12, <1>13, <1>14 DEF Limited, c, new

(* Whatever the loop makes of a candidate, the working portfolio is        *)
(* carried and limited.                                                    *)
LEMMA ConsideredIsSound ==
    ASSUME NEW k \in DOMAIN Markets, NEW x, Buyable(Markets[k], x),
           NEW b, Carried(Markets[k], b), Limited(b)
    PROVE  LET after == Considered(Markets[k], b, x) IN Carried(Markets[k], after) /\ Limited(after)
<1> DEFINE m == Markets[k]
           dollars == Allocate(m, b.book, b.cash, x)
           after == WithProposed(m, b, x, dollars)
<1>1. /\ LongOnly(m.book) /\ m.cash \in Int
      /\ x \in Symbols /\ m.facts[x].price \in Nat /\ m.facts[x].atr \in Nat
  BY TradingAssumption DEF LongOnly, Buyable
<1>2. Considered(m, b, x) = b \/ (dollars # 0 /\ Considered(m, b, x) = after)
  BY DEF Considered
<1> SUFFICES ASSUME dollars # 0
             PROVE  Carried(m, after) /\ Limited(after)
  BY <1>2
<1>3. /\ b.book.equity \in Int /\ b.cash \in Int /\ Value(b.book, x) \in Int
  <2> DEFINE book == b.book
  <2>1. LongOnly(book) /\ b.cash \in Int
    BY DEF Carried
  <2> HIDE DEF book
  <2>2. Value(book, x) \in Nat /\ book.equity \in Int
    BY <1>1, <2>1, ValuesAreNatural DEF LongOnly
  <2> QED BY <2>1, <2>2 DEF book
<1> HIDE DEF dollars, m
<1>4. /\ dollars \in Nat /\ dollars <= Max({0, b.cash})
      /\ \E n \in Nat : LET c == Candidate(m, b.book, x, n) IN
            Approved(c, b.book, Profile) /\ dollars <= Notional(c)
  BY <1>1, <1>3, AllocatedFits DEF dollars
<1>5. PICK n \in Nat : /\ Approved(Candidate(m, b.book, x, n), b.book, Profile)
                       /\ dollars <= Notional(Candidate(m, b.book, x, n))
  BY <1>4
<1>6. Carried(m, b) /\ Limited(b) /\ dollars \in Nat \ {0}
  BY <1>4 DEF m
<1>7. Carried(m, after)
  BY <1>1, <1>4, <1>6, ProposedIsCarried
<1>8. Limited(after)
  BY <1>1, <1>5, <1>6, ApprovedKeepsLimits
<1> QED BY <1>7, <1>8

(* The total of one position. *)
LEMMA TotalOfOne ==
    ASSUME NEW book, LongOnly(book), NEW x \in Symbols
    PROVE  Total(book, {x}) = Value(book, x)
<1> DEFINE f == [y \in {x} |-> Value(book, y)]
<1>1. f[x] \in Int /\ f[x] = Value(book, x)
  BY ValuesAreNatural
<1>2. Total(book, {x}) = SumFunctionOnSet(f, {x})
  BY DEF Total, SumFunction
<1> HIDE DEF f
<1>3. IsFiniteSet({x}) /\ \A y \in {x} : f[y] \in Int
  BY <1>1, FS_Singleton
<1>4. SumFunctionOnSet(f, {x}) = f[x] + SumFunctionOnSet(f, {x} \ {x}) /\ SumFunctionOnSet(f, {}) = 0
  BY <1>3, SumRecursion
<1>5. {x} \ {x} = {}
  OBVIOUS
<1> QED BY <1>1, <1>2, <1>4, <1>5

(* What is paid is a number. *)
LEMMA PaidIsNatural ==
    ASSUME NEW picks \in Seq(Pick)
    PROVE  Paid(picks) \in Nat
<1> DEFINE f == [i \in DOMAIN picks |-> picks[i].dollars]
           S == DOMAIN picks
<1>1. IsFiniteSet(S)
  <2>1. S = 1 .. Len(picks) /\ Len(picks) \in Nat
    OBVIOUS
  <2> QED BY <2>1, FS_Interval
<1>2. \A i \in S : f[i] \in Int /\ f[i] >= 0
  <2>1. \A i \in S : picks[i] \in Pick
    OBVIOUS
  <2> QED BY <2>1 DEF Pick
<1>3. Paid(picks) = SumFunctionOnSet(f, S)
  BY DEF Paid, SumFunction
<1> HIDE DEF f, S
<1>4. 0 <= SumFunctionOnSet(f, S) /\ SumFunctionOnSet(f, S) \in Int
  BY <1>1, <1>2, SumSubset, SumRecursion
<1> QED BY <1>3, <1>4

(* The purchases of a basket fit the portfolio they are for.               *)
LEMMA SoundBasketFits ==
    ASSUME NEW m, LongOnly(m.book), m.cash \in Int, NEW b, Carried(m, b), Limited(b)
    PROVE  BasketFits(m, b.picks)
<1> DEFINE picks == b.picks
           bought == Bought(picks)
           held == Open(m.book) \cup bought
           sector(x) == IF x \in bought THEN m.facts[x].sector ELSE m.book.sector[x]
           worth(X) == SumFunction([x \in X |-> Value(m.book, x) + Spent(picks, x)])
           inSector(x) == {y \in held : sector(y) = sector(x)}
<1>1. /\ held = Open(b.book) /\ held \subseteq Symbols /\ b.book.equity = m.book.equity
      /\ \A x \in held : sector(x) = b.book.sector[x]
  BY DEF Carried, Open
<1>2. ASSUME NEW X \in SUBSET Symbols
      PROVE  worth(X) = Total(b.book, X)
  <2>1. \A x \in X : Value(m.book, x) + Spent(picks, x) = Value(b.book, x)
    BY DEF Carried
  <2>2. [x \in X |-> Value(m.book, x) + Spent(picks, x)] = [x \in X |-> Value(b.book, x)]
    BY <2>1
  <2> QED BY <2>2 DEF Total
<1>3. ASSUME NEW x \in bought
      PROVE  /\ x \in held /\ inSector(x) = Peers(b.book, x)
             /\ worth({x}) = Value(b.book, x)
  <2>1. x \in held /\ x \in Symbols
    BY <1>1
  <2>2. inSector(x) = Peers(b.book, x)
    BY <1>1, <2>1 DEF Peers
  <2>3. Total(b.book, {x}) = Value(b.book, x)
    <3>1. LongOnly(b.book)
      BY DEF Carried
    <3> QED BY <2>1, <3>1, TotalOfOne
  <2> QED BY <1>2, <2>1, <2>2, <2>3
<1>4. ASSUME NEW x \in bought
      PROVE  /\ Cardinality(held) <= Profile.max_open_positions
             /\ Within(worth(held), Profile.max_portfolio_exposure_pct, m.book)
             /\ Within(worth({x}), Profile.max_position_pct, m.book)
             /\ Within(worth(inSector(x)), Profile.max_sector_pct, m.book)
  <2>1. /\ Cardinality(Open(b.book)) <= Profile.max_open_positions
        /\ Within(Total(b.book, Open(b.book)), Profile.max_portfolio_exposure_pct, b.book)
        /\ Within(Value(b.book, x), Profile.max_position_pct, b.book)
        /\ Within(Total(b.book, Peers(b.book, x)), Profile.max_sector_pct, b.book)
    BY DEF Limited
  <2>2. \A a, limit : Within(a, limit, b.book) <=> Within(a, limit, m.book)
    BY <1>1 DEF Within
  <2>3. worth(held) = Total(b.book, Open(b.book))
    BY <1>1, <1>2
  <2>4. worth(inSector(x)) = Total(b.book, Peers(b.book, x))
    <3>1. Peers(b.book, x) \subseteq Symbols
      BY DEF Peers, Open
    <3>2. inSector(x) = Peers(b.book, x)
      BY <1>3
    <3> QED BY <1>2, <3>1, <3>2
  <2> HIDE DEF worth, held, inSector
  <2> QED BY <1>1, <1>3, <2>1, <2>2, <2>3, <2>4
<1>5. Paid(picks) <= Max({0, m.cash})
  <2>1. Max({0, b.cash}) \in Nat /\ Max({0, m.cash}) \in Int
    BY MaxOfTwo DEF Carried
  <2>2. Paid(picks) \in Nat
    BY PaidIsNatural DEF Carried
  <2> QED BY <2>1, <2>2 DEF Carried
<1> HIDE DEF picks
<1>6. /\ bought = {picks[i].symbol : i \in DOMAIN picks}
      /\ Paid(picks) = SumFunction([i \in DOMAIN picks |-> picks[i].dollars])
  BY DEF Bought, Paid
<1>7. BasketFits(m, picks)
  BY <1>4, <1>5, <1>6 DEF BasketFits
<1> QED BY <1>7 DEF picks

(* What the loop buys from candidates past the quality gate fits.          *)
LEMMA FilledFits ==
    ASSUME NEW k \in DOMAIN Markets, NEW candidates, Len(candidates) \in Nat,
           \A i \in 1 .. Len(candidates) : Buyable(Markets[k], candidates[i].stock.symbol)
    PROVE  BasketFits(Markets[k], Basketed(Markets[k], candidates))
<1> DEFINE m == Markets[k]
           last == Len(candidates)
<1>1. PICK filled : /\ IsFilled(m, candidates, filled)
                    /\ Basketed(m, candidates) = filled[last].picks
  BY BasketIsFilled
<1> DEFINE Sound(b) == Carried(m, b) /\ Limited(b)
           P == {n \in Nat : n <= last => Sound(filled[n])}
<1>2. LongOnly(m.book) /\ m.cash \in Int
  BY TradingAssumption DEF LongOnly
<1>3. Sound(NoPurchase(m))
  <2> DEFINE b == NoPurchase(m)
  <2>1. b.book = m.book /\ b.cash = m.cash /\ b.picks = << >>
    BY DEF NoPurchase
  <2> HIDE DEF b, m
  <2>2. \A x \in Symbols : Value(m.book, x) \in Nat
    BY <1>2, ValuesAreNatural
  <2>3. Max({0, b.cash}) = Max({0, m.cash}) /\ Max({0, m.cash}) \in Int
    BY <1>2, <2>1, MaxOfTwo
  <2>4. /\ b.picks \in Seq(Pick) /\ Bought(b.picks) = {} /\ Paid(b.picks) = 0
        /\ \A x \in Symbols : Spent(b.picks, x) = 0
    BY <2>1, NothingSpent
  <2>5. Carried(m, b)
    BY <1>2, <2>1, <2>2, <2>3, <2>4 DEF Carried
  <2>6. Limited(b)
    BY <2>4 DEF Limited
  <2> QED BY <2>5, <2>6 DEF b
<1>4. 0 \in P
  BY <1>1, <1>3 DEF IsFilled, Fill
<1>5. ASSUME NEW n \in P
      PROVE  n + 1 \in P
  <2> SUFFICES ASSUME n + 1 <= last
               PROVE  Sound(filled[n + 1])
    OBVIOUS
  <2>1. Sound(filled[n]) /\ n + 1 \in 1 .. last /\ n + 1 \in 0 .. last /\ (n + 1) - 1 = n /\ n + 1 # 0
    OBVIOUS
  <2>2. filled[n + 1] = Considered(m, filled[n], candidates[n + 1].stock.symbol)
    <3>1. filled[n + 1] = Fill(m, candidates, filled, n + 1)
      BY <1>1, <2>1 DEF IsFilled
    <3> QED BY <2>1, <3>1 DEF Fill
  <2>3. Buyable(m, candidates[n + 1].stock.symbol)
    BY <2>1
  <2> DEFINE x == candidates[n + 1].stock.symbol
             b == filled[n]
  <2>4. Buyable(Markets[k], x) /\ Carried(Markets[k], b) /\ Limited(b)
    BY <2>1, <2>3
  <2> HIDE DEF x, b
  <2>5. Carried(Markets[k], Considered(Markets[k], b, x)) /\ Limited(Considered(Markets[k], b, x))
    BY <2>4, ConsideredIsSound
  <2> QED BY <2>2, <2>5 DEF x, b
<1>6. last \in P
  <2> HIDE DEF P, last
  <2>1. P \subseteq Nat /\ last \in Nat
    BY DEF P, last
  <2> QED BY <1>4, <1>5, <2>1, InductiveSet
<1>7. Sound(filled[last])
  BY <1>6
<1> HIDE DEF m, last
<1>8. BasketFits(m, filled[last].picks)
  BY <1>2, <1>7, SoundBasketFits
<1> QED BY <1>1, <1>8 DEF m

(* What Build puts on a report fits. *)
LEMMA BuiltFits ==
    ASSUME ReportInv, NEW s \in Sessions, Build(s)
    PROVE  BasketFits(Markets[market], session'[s].picks)
<1> DEFINE r == session[s]
           order == StrongestFirst(r.order, r.shown)
           ranked == [t \in DOMAIN r.shown |-> Ranked[market][r.corpus][t]]
<1>1. PICK candidates \in CandidateLists(ranked, order, r.shown) :
         session' = [session EXCEPT
            ![s].rows = Rewritten(r), ![s].order = order,
            ![s].picks = Basketed(Markets[market], candidates),
            ![s].id = NextId, ![s].pc = IF r.kind = "report" THEN "send" ELSE "commit"]
  BY DEF Build
<1>2. GoodSession(r) /\ r.pc = "review" /\ market \in DOMAIN Markets
  BY OfSession DEF Build, ReportInv
<1>3. session = [t \in Sessions |-> session[t]]
  BY DEF ReportInv
<1>4. /\ "picks" \in DOMAIN r /\ r.corpus \in DOMAIN Corpora
      /\ DOMAIN r.shown \subseteq Themes /\ \A t \in DOMAIN r.shown : r.shown[t].score \in Int
      /\ r.order \in Seq(DOMAIN r.shown)
  <2>1. /\ Fields \subseteq DOMAIN r /\ r.corpus \in DOMAIN Corpora /\ DOMAIN r.shown \subseteq Themes
        /\ \A t \in DOMAIN r.shown : Fine(r.shown[t])
        /\ RowsFollow(r)
    BY <1>2 DEF GoodSession
  <2>2. OrderCovers(r)
    BY <1>2, <2>1 DEF RowsFollow
  <2> QED BY <2>1, <2>2 DEF OrderCovers, Fine, Fields
<1>5. session'[s].picks = Basketed(Markets[market], candidates)
  <2> DEFINE picks == Basketed(Markets[market], candidates)
  <2>1. PICK rows, sorted, id, step : session' = [session EXCEPT
            ![s].rows = rows, ![s].order = sorted, ![s].picks = picks,
            ![s].id = id, ![s].pc = step]
    BY <1>1
  <2> HIDE DEF picks
  <2> QED BY <1>3, <1>4, <2>1 DEF picks
<1>6. order \in Seq(DOMAIN r.shown)
  <2>1. r.order \in Seq(Themes)
    BY <1>4
  <2> QED BY <1>4, <2>1, StrongestFirstCovers
<1> DEFINE k == market
           c == r.corpus
           shown == r.shown
<1>7. /\ Len(candidates) \in Nat
      /\ \A i \in 1 .. Len(candidates) : Buyable(Markets[k], candidates[i].stock.symbol)
  <2>1. /\ k \in DOMAIN Markets /\ c \in DOMAIN Corpora /\ DOMAIN shown \subseteq Themes
        /\ order \in Seq(DOMAIN shown) /\ ranked = [t \in DOMAIN shown |-> Ranked[k][c][t]]
        /\ candidates \in CandidateLists(ranked, order, shown)
    BY <1>2, <1>4, <1>6
  <2> HIDE DEF k, c, shown, order, ranked
  <2> QED BY <2>1, CandidatesAreBuyable
<1>8. BasketFits(Markets[k], Basketed(Markets[k], candidates))
  <2>1. k \in DOMAIN Markets
    BY <1>2
  <2> HIDE DEF k
  <2> QED BY <1>7, <2>1, FilledFits
<1> QED BY <1>5, <1>8

\* Every report, and every session, has purchases that fit.
BasketInv == ReportInv /\ \A s \in Sessions : BasketFits(Markets[market], session[s].picks)

(* Nothing bought fits any portfolio. *)
LEMMA NothingFits == \A m : BasketFits(m, << >>)
BY DEF BasketFits

(* Only Build gives a session purchases. *)
LEMMA OnlyBuildBuys ==
    ASSUME ReportInv, NEW s \in Sessions, NEW o \in Sessions,
           \/ \E kind \in {"trend", "collect", "report", "build"} : Start(s, kind)
           \/ Score(s) \/ Look(s) \/ Write(s) \/ ReviewTheme(s) \/ (Build(s) /\ o # s)
           \/ Send(s) \/ Commit(s) \/ RolledBack(s)
    PROVE  session'[o].picks \in {session[o].picks, << >>} /\ market' = market
<1> DEFINE r == session[o]
<1>1. "picks" \in DOMAIN r /\ session = [t \in Sessions |-> session[t]]
  BY DEF ReportInv, GoodSession, Fields
<1>2. ASSUME NEW kind \in {"trend", "collect", "report", "build"}, Start(s, kind)
      PROVE  session'[o].picks \in {r.picks, << >>} /\ market' = market
  <2>1. PICK corpus, cap : session' = [session EXCEPT ![s] =
               [Idle EXCEPT !.pc = "score", !.kind = kind, !.cap = cap,
                            !.corpus = IF kind = "collect" THEN corpus ELSE NotKnown]]
    BY <1>2 DEF Start
  <2> QED BY <1>1, <1>2, <2>1 DEF Start, Idle
<1>3. CASE Score(s)
  <2> DEFINE read == IF session[s].corpus = NotKnown THEN documents ELSE session[s].corpus
             scores(scored) == [t \in scored |-> Assessed[market][read][t]]
             sorted(scored) == StrongestFirst(Taxonomy, scores(scored))
             after(scored) == Onward(session[s].kind, scored)
  <2>0. PICK scored \in SUBSET Themes : session' = [session EXCEPT
            ![s].corpus = read, ![s].shown = scores(scored), ![s].order = sorted(scored),
            ![s].pc = after(scored)]
    BY <1>3 DEF Score
  <2> HIDE DEF read, scores, sorted, after
  <2>1. PICK corpus, shown, order, step : session' = [session EXCEPT
            ![s].corpus = corpus, ![s].shown = shown, ![s].order = order, ![s].pc = step]
    BY <2>0
  <2> QED BY <1>1, <1>3, <2>1 DEF Score
<1>4. CASE Look(s)
  BY <1>1, <1>4 DEF Look
<1>5. CASE Write(s)
  BY <1>1, <1>5 DEF Write
<1>6. CASE ReviewTheme(s)
  <2> DEFINE me == session[s]
             t == me.order[me.next]
             story == Story(me.corpus, t, me.shown[t])
             skipped == [me EXCEPT !.next = me.next + 1]
             judged(v) == [me EXCEPT !.next = me.next + 1, !.shown[t] = Reviewed(me.shown[t], v)]
             paid(v) == [judged(v) EXCEPT !.calls = @ + 1,
                                          !.bought = @ \cup {[story |-> story, verdict |-> v]}]
  <2>1. \/ session' = [session EXCEPT ![s] = skipped]
        \/ \E v : session' = [session EXCEPT ![s] = judged(v)]
        \/ \E v : session' = [session EXCEPT ![s] = paid(v)]
    BY <1>6 DEF ReviewTheme
  <2>2. "picks" \in DOMAIN me
    BY DEF ReportInv, GoodSession, Fields
  <2> HIDE DEF me
  <2>3. skipped.picks = me.picks /\ \A v : judged(v).picks = me.picks
    BY <2>2
  <2> HIDE DEF story, t, skipped
  <2>4. \A v : DOMAIN judged(v) = DOMAIN me
    OBVIOUS
  <2> HIDE DEF judged
  <2>5. \A v : paid(v).picks = me.picks
    BY <2>2, <2>3, <2>4
  <2> HIDE DEF paid
  <2>6. session'[o].picks = r.picks
    BY <1>1, <2>1, <2>3, <2>5 DEF me
  <2> QED BY <1>6, <2>6 DEF ReviewTheme
<1>7. CASE Build(s) /\ o # s
  BY <1>1, <1>7 DEF Build
<1>8. CASE Send(s)
  BY <1>1, <1>8 DEF Send
<1>9. CASE Commit(s)
  BY <1>1, <1>9 DEF Commit, Idle
<1>10. CASE RolledBack(s)
  BY <1>1, <1>10 DEF RolledBack, Idle
<1> QED BY <1>2, <1>3, <1>4, <1>5, <1>6, <1>7, <1>8, <1>9, <1>10

LEMMA BasketStep == BasketInv /\ [Next]_vars => BasketInv'
<1> SUFFICES ASSUME BasketInv, [Next]_vars PROVE BasketInv'
  OBVIOUS
<1>1. ReportInv /\ ReportInv'
  BY StepPreserves DEF BasketInv
<1>2. CASE UNCHANGED vars
  <2>1. session' = session /\ market' = market
    BY <1>2 DEF vars
  <2> QED BY <1>1, <2>1 DEF BasketInv
<1>3. CASE Next
  <2>1. PICK s \in Sessions :
          \/ \E kind \in {"trend", "collect", "report", "build"} : Start(s, kind)
          \/ Score(s) \/ Look(s) \/ Write(s) \/ ReviewTheme(s) \/ Build(s)
          \/ Send(s) \/ Commit(s) \/ Fail(s) \/ Deadlocked(s) \/ KeyTaken(s)
    BY <1>3 DEF Next
  <2>2. Fail(s) \/ Deadlocked(s) \/ KeyTaken(s) => RolledBack(s)
    BY DEF Fail, Deadlocked, KeyTaken
  <2>3. Build(s) => market' = market
    BY DEF Build
  <2>4. ASSUME NEW o \in Sessions
        PROVE  BasketFits(Markets[market], session'[o].picks) /\ market' = market
    <3>1. BasketFits(Markets[market], session[o].picks)
      BY DEF BasketInv
    <3>2. CASE Build(s) /\ o = s
      BY <1>1, <2>3, <3>2, BuiltFits
    <3>3. CASE ~(Build(s) /\ o = s)
      <4>1. session'[o].picks \in {session[o].picks, << >>} /\ market' = market
        BY <1>1, <2>1, <2>2, <3>3, OnlyBuildBuys
      <4> QED BY <3>1, <4>1, NothingFits
    <3> QED BY <3>2, <3>3
  <2>5. market' = market
    BY <2>1, <2>4
  <2> QED BY <1>1, <2>4, <2>5 DEF BasketInv
<1> QED BY <1>2, <1>3

(* Taking every purchase of a report keeps the portfolio within the limits *)
(* and the cash (allocate, and the loop of agent.py that adds each         *)
(* purchase to the portfolio the next one is judged by): the engine passes *)
(* an order of at least the dollars that are spent, and what it passed     *)
(* before is judged with it, or is in a sector that does not grow.         *)
THEOREM BasketsFit == Spec => []BasketWithinLimits
<1>1. Init => BasketInv
  <2> SUFFICES ASSUME Init PROVE BasketInv
    OBVIOUS
  <2>1. \A s \in Sessions : session[s].picks = << >>
    BY DEF Init, Idle
  <2> QED BY <2>1, InitialReportInv, NothingFits DEF BasketInv
<1>2. BasketInv /\ [Next]_vars => BasketInv'
  BY BasketStep
<1>3. BasketInv => BasketWithinLimits
  BY DEF BasketInv, BasketWithinLimits
<1> QED BY <1>1, <1>2, <1>3, PTL DEF Spec
=============================================================================
