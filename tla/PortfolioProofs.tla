--------------------------- MODULE PortfolioProofs ---------------------------
(***************************************************************************)
(* Proofs about Portfolio, for any symbols, requests and lots, and about   *)
(* Holdings, for any market and profile.  What makes DerivedUnlessRaced    *)
(* inductive is FreshUnlessRaced: on a symbol where no two requests        *)
(* overlapped, an active request still holds the row as it is committed.   *)
(* What keeps the advice from turning is what a fill leaves behind:        *)
(* AddedSettled and SoldSettled.                                           *)
(***************************************************************************)
EXTENDS Portfolio, Holdings, SumTheorems, TLAPS

\* A request past its oversell check is within what it loaded.
FlushedFits ==
    \A r \in Requests : request[r].phase = "flushed" => ~Oversells(request[r])

\* On an unraced symbol the active request is alone, and its copy is current.
FreshUnlessRaced ==
    \A r \in Requests, x \in Traded : ~raced[x] /\ ActiveOn(r, x) =>
        /\ request[r].seen = rows[x]
        /\ \A other \in Requests : ActiveOn(other, x) => other = r

PortfolioInv ==
    /\ TypeOK
    /\ FlushedFits
    /\ FreshUnlessRaced
    /\ NeverShort
    /\ DerivedUnlessRaced

-----------------------------------------------------------------------------
(* The sizes of a trade are non-zero integers. *)
LEMMA DeltaType == \A d \in Deltas : d \in Int /\ d # 0
BY PortfolioAssumption DEF Deltas

(* An active request is a Loaded record; an idle one is not. *)
LEMMA ActiveType ==
    ASSUME TypeOK, NEW r \in Requests
    PROVE  /\ Active(r) => request[r] \in Loaded
           /\ request[r].phase \in {"loaded", "flushed"} => Active(r)
           /\ ~Active(r) => request[r] = NoRequest
<1>1. request[r] \in Loaded \cup {NoRequest}
  BY DEF TypeOK
<1>2. \A q \in Loaded : q.phase \in {"loaded", "flushed"}
  BY DEF Loaded
<1> QED BY <1>1, <1>2 DEF Active, NoRequest

(* The row a request writes. *)
LEMMA WrittenType ==
    ASSUME NEW q \in Loaded, NEW current \in Row
    PROVE  /\ Written(q, current) \in Row
           /\ Written(q, current).shares = q.seen.shares + q.delta
BY DeltaType DEF Loaded, Row, Written, NewShares, NewBasis

(* Over the row it loaded, a request writes a cost basis exactly while the *)
(* position is open.                                                       *)
LEMMA WrittenBasis ==
    ASSUME NEW q \in Loaded, q.seen.shares >= 0, ~Oversells(q),
           q.seen.basis = 1 <=> q.seen.shares > 0
    PROVE  Written(q, q.seen).basis = 1 <=> Written(q, q.seen).shares > 0
BY DeltaType DEF Loaded, Row, Written, NewShares, NewBasis, Oversells

LEMMA InitInv == Init => PortfolioInv
<1> SUFFICES ASSUME Init PROVE PortfolioInv
  OBVIOUS
<1> USE PortfolioAssumption
<1>1. NoRow \in Row
  BY DEF NoRow, Row
<1>2. TypeOK
  BY <1>1 DEF Init, TypeOK, NoRequest, NoReading
<1>3. \A r \in Requests : request[r] = NoRequest
  BY DEF Init
<1>4. FlushedFits /\ FreshUnlessRaced
  BY <1>3 DEF FlushedFits, FreshUnlessRaced, ActiveOn, Active, NoRequest
<1>5. NeverShort /\ DerivedUnlessRaced
  BY DEF Init, NeverShort, DerivedUnlessRaced, NoRow
<1> QED BY <1>2, <1>4, <1>5 DEF PortfolioInv

-----------------------------------------------------------------------------
(* One lemma per action that changes a request. *)
LEMMA LoadStep ==
    ASSUME PortfolioInv, NEW r \in Requests, NEW x \in Traded, NEW d \in Deltas,
           LoadPosition(r, x, d)
    PROVE  PortfolioInv'
<1> USE PortfolioAssumption DEF LoadPosition, PortfolioInv
<1>1. rows[x] \in Row /\ ~Active(r) /\ request[r] = NoRequest
  BY ActiveType DEF TypeOK
<1> DEFINE loaded == [phase |-> "loaded", symbol |-> x, delta |-> d, seen |-> rows[x]]
<1>2. loaded \in Loaded
  BY <1>1 DEF Loaded
<1>3. /\ request' = [request EXCEPT ![r] = loaded]
      /\ request \in [Requests -> Loaded \cup {NoRequest}]
  BY DEF TypeOK
<1>4. /\ request' \in [Requests -> Loaded \cup {NoRequest}]
      /\ request'[r] = loaded
      /\ \A other \in Requests : other # r => request'[other] = request[other]
  BY <1>2, <1>3
<1>5. raced' \in [Traded -> BOOLEAN]
  <2>1. raced \in [Traded -> BOOLEAN]
    BY DEF TypeOK
  <2>2. (raced[x] \/ \E other \in Requests : ActiveOn(other, x)) \in BOOLEAN
    OBVIOUS
  <2> QED BY <2>1, <2>2
<1>6. TypeOK'
  <2>1. submitted' \in 0 .. MaxTrades
    BY DEF TypeOK
  <2>2. \A y \in Traded, q \in Requests :
           lock'[y] = q <=> request'[q].phase = "flushed" /\ request'[q].symbol = y
    BY <1>1, <1>4 DEF TypeOK, NoRequest
  <2> QED BY <1>4, <1>5, <2>1, <2>2 DEF TypeOK
<1>7. FlushedFits'
  BY <1>4 DEF FlushedFits, Oversells
<1>8. /\ \A y \in Traded : ~raced'[y] => ~raced[y]
      /\ ~raced'[x] => \A other \in Requests : ~ActiveOn(other, x)
  <2>1. raced \in [Traded -> BOOLEAN]
    BY DEF TypeOK
  <2>2. /\ raced'[x] = (raced[x] \/ \E other \in Requests : ActiveOn(other, x))
        /\ \A y \in Traded : y # x => raced'[y] = raced[y]
    BY <2>1
  <2> QED BY <2>2
<1>9. FreshUnlessRaced'
  BY <1>1, <1>4, <1>8 DEF FreshUnlessRaced, ActiveOn, Active, NoRequest
<1>10. NeverShort' /\ DerivedUnlessRaced'
  BY <1>8 DEF NeverShort, DerivedUnlessRaced
<1> QED BY <1>6, <1>7, <1>9, <1>10

(* A request that goes away without writing: rejected, refused or aborted. *)
LEMMA DropStep ==
    ASSUME PortfolioInv, NEW r \in Requests, Active(r),
           request' = [request EXCEPT ![r] = NoRequest],
           lock' = [x \in Traded |-> IF lock[x] = r THEN Free ELSE lock[x]],
           UNCHANGED <<rows, bought, sold, raced, valuation, equity, hwm, submitted>>
    PROVE  PortfolioInv'
<1> USE PortfolioAssumption DEF PortfolioInv
<1>1. /\ request' \in [Requests -> Loaded \cup {NoRequest}]
      /\ request'[r] = NoRequest
      /\ \A other \in Requests : other # r => request'[other] = request[other]
  BY DEF TypeOK
<1>2. TypeOK'
  <2>1. lock' \in [Traded -> Requests \cup {Free}]
    BY DEF TypeOK
  <2>2. \A y \in Traded, q \in Requests :
           lock'[y] = q <=> request'[q].phase = "flushed" /\ request'[q].symbol = y
    BY <1>1 DEF TypeOK, NoRequest
  <2> QED BY <1>1, <2>1, <2>2 DEF TypeOK
<1>3. FlushedFits'
  BY <1>1 DEF FlushedFits, Oversells, NoRequest
<1>4. FreshUnlessRaced'
  BY <1>1 DEF FreshUnlessRaced, ActiveOn, Active, NoRequest
<1>5. NeverShort' /\ DerivedUnlessRaced'
  BY DEF NeverShort, DerivedUnlessRaced
<1> QED BY <1>2, <1>3, <1>4, <1>5

(* A request that holds no lock frees none when it goes. *)
LEMMA UnlockedDrop ==
    ASSUME PortfolioInv, NEW r \in Requests, request[r].phase = "loaded",
           UNCHANGED lock
    PROVE  lock' = [x \in Traded |-> IF lock[x] = r THEN Free ELSE lock[x]]
<1>1. \A x \in Traded : lock[x] # r
  BY DEF PortfolioInv, TypeOK
<1>2. lock = [x \in Traded |-> lock[x]]
  BY DEF PortfolioInv, TypeOK
<1> QED BY <1>1, <1>2

LEMMA FlushStep ==
    ASSUME PortfolioInv, NEW r \in Requests, Flush(r)
    PROVE  PortfolioInv'
<1> USE PortfolioAssumption DEF Flush, PortfolioInv
<1>1. request[r] \in Loaded /\ request[r].symbol \in Traded
  BY ActiveType DEF Loaded
<1> DEFINE x == request[r].symbol
           flushed == [request[r] EXCEPT !.phase = "flushed"]
<1>2. /\ flushed \in Loaded
      /\ flushed.phase = "flushed"
      /\ flushed.symbol = x
      /\ flushed.delta = request[r].delta
      /\ flushed.seen = request[r].seen
  BY <1>1 DEF Loaded
<1>3. /\ request' \in [Requests -> Loaded \cup {NoRequest}]
      /\ request'[r] = flushed
      /\ \A other \in Requests : other # r => request'[other] = request[other]
  BY <1>2 DEF TypeOK
<1> HIDE DEF flushed
<1>4. TypeOK'
  <2>1. /\ lock' \in [Traded -> Requests \cup {Free}]
        /\ lock'[x] = r
        /\ \A y \in Traded : y # x => lock'[y] = lock[y]
    BY <1>1 DEF TypeOK
  <2>2. \A y \in Traded, q \in Requests :
           lock'[y] = q <=> request'[q].phase = "flushed" /\ request'[q].symbol = y
    <3> SUFFICES ASSUME NEW y \in Traded, NEW q \in Requests
                 PROVE  lock'[y] = q <=> request'[q].phase = "flushed" /\ request'[q].symbol = y
      OBVIOUS
    <3>1. lock[y] = q <=> request[q].phase = "flushed" /\ request[q].symbol = y
      BY DEF TypeOK
    <3> QED BY <1>2, <1>3, <2>1, <3>1
  <2> QED BY <1>3, <2>1, <2>2 DEF TypeOK
<1>5. FlushedFits'
  BY <1>2, <1>3 DEF FlushedFits, Oversells
<1>6. FreshUnlessRaced'
  BY <1>2, <1>3 DEF FreshUnlessRaced, ActiveOn, Active
<1>7. NeverShort' /\ DerivedUnlessRaced'
  BY DEF NeverShort, DerivedUnlessRaced
<1> QED BY <1>4, <1>5, <1>6, <1>7

LEMMA CommitStep ==
    ASSUME PortfolioInv, NEW r \in Requests, Commit(r)
    PROVE  PortfolioInv'
<1> USE PortfolioAssumption DEF PortfolioInv
<1> DEFINE q == request[r]
           x == q.symbol
<1>1. /\ q \in Loaded /\ x \in Traded /\ q.seen \in Row
      /\ q.delta \in Int /\ q.delta # 0 /\ ActiveOn(r, x) /\ ~Oversells(q)
      /\ q.phase = "flushed" /\ rows[x] \in Row
  BY ActiveType, DeltaType DEF Commit, Loaded, FlushedFits, ActiveOn, Active, TypeOK
<1>2. /\ rows' \in [Traded -> Row]
      /\ rows'[x] = Written(q, rows[x])
      /\ rows'[x].shares = q.seen.shares + q.delta
      /\ \A y \in Traded : y # x => rows'[y] = rows[y]
  BY <1>1, WrittenType DEF Commit, TypeOK
<1>3. /\ bought' \in [Traded -> Nat] /\ sold' \in [Traded -> Nat]
      /\ bought'[x] - sold'[x] = (bought[x] - sold[x]) + q.delta
      /\ \A y \in Traded : y # x => bought'[y] = bought[y] /\ sold'[y] = sold[y]
  <2>1. CASE q.delta > 0
    BY <1>1, <2>1 DEF Commit, TypeOK
  <2>2. CASE q.delta < 0
    BY <1>1, <2>2 DEF Commit, TypeOK
  <2> QED BY <1>1, <2>1, <2>2
<1>4. /\ request' \in [Requests -> Loaded \cup {NoRequest}]
      /\ request'[r] = NoRequest
      /\ \A other \in Requests : other # r => request'[other] = request[other]
  BY DEF TypeOK, Commit
<1>5. TypeOK'
  <2>1. /\ lock' \in [Traded -> Requests \cup {Free}]
        /\ lock'[x] = Free
        /\ \A y \in Traded : y # x => lock'[y] = lock[y]
    BY <1>1 DEF TypeOK, Commit
  <2>2. lock[x] = r
    BY <1>1 DEF TypeOK
  <2>3. \A y \in Traded, p \in Requests :
           lock'[y] = p <=> request'[p].phase = "flushed" /\ request'[p].symbol = y
    <3> SUFFICES ASSUME NEW y \in Traded, NEW p \in Requests
                 PROVE  lock'[y] = p <=> request'[p].phase = "flushed" /\ request'[p].symbol = y
      OBVIOUS
    <3>1. lock[y] = p <=> request[p].phase = "flushed" /\ request[p].symbol = y
      BY DEF TypeOK
    <3> QED BY <1>4, <2>1, <2>2, <3>1 DEF NoRequest
  <2>4. valuation' \in [phase : {"none", "half", "done"}, torn : BOOLEAN]
    BY DEF TypeOK, Commit
  <2> QED BY <1>2, <1>3, <1>4, <2>1, <2>3, <2>4 DEF TypeOK, Commit
<1>6. FlushedFits'
  BY <1>4 DEF FlushedFits, Oversells, NoRequest
<1>7. raced' = raced
  BY DEF Commit
<1>8. FreshUnlessRaced'
  <2> SUFFICES ASSUME NEW p \in Requests, NEW y \in Traded, ~raced[y], ActiveOn(p, y)'
               PROVE  /\ request'[p].seen = rows'[y]
                      /\ \A other \in Requests : ActiveOn(other, y)' => other = p
    BY <1>7 DEF FreshUnlessRaced
  <2>1. p # r /\ ActiveOn(p, y)
    BY <1>4 DEF ActiveOn, Active, NoRequest
  <2>2. y # x
    BY <1>1, <2>1 DEF FreshUnlessRaced
  <2> QED BY <1>2, <1>4, <2>1, <2>2 DEF FreshUnlessRaced, ActiveOn, Active, NoRequest
<1>9. NeverShort'
  BY <1>1, <1>2 DEF NeverShort, Oversells, Loaded, Row
<1>10. DerivedUnlessRaced'
  <2> SUFFICES ASSUME NEW y \in Traded, ~raced[y]
               PROVE  /\ rows'[y].shares = bought'[y] - sold'[y]
                      /\ rows'[y].basis = 1 <=> rows'[y].shares > 0
    BY <1>7 DEF DerivedUnlessRaced
  <2>1. CASE y # x
    BY <1>2, <1>3, <2>1 DEF DerivedUnlessRaced
  <2>2. CASE y = x
    <3>1. q.seen = rows[x]
      BY <1>1, <2>2 DEF FreshUnlessRaced
    <3>2. /\ rows[x].shares = bought[x] - sold[x]
          /\ rows[x].basis = 1 <=> rows[x].shares > 0
          /\ rows[x].shares >= 0
      BY <1>1, <2>2 DEF DerivedUnlessRaced, NeverShort
    <3>3. bought[x] \in Nat /\ sold[x] \in Nat
      BY <1>1 DEF TypeOK
    <3>4. rows'[x].basis = 1 <=> rows'[x].shares > 0
      BY <1>1, <1>2, <3>1, <3>2, WrittenBasis
    <3> QED BY <1>1, <1>2, <1>3, <2>2, <3>1, <3>2, <3>3, <3>4
  <2> QED BY <2>1, <2>2
<1> QED BY <1>5, <1>6, <1>8, <1>9, <1>10

(* The valuation reads the tables and changes none of them. *)
LEMMA ValuationStep ==
    ASSUME PortfolioInv, ReadPositions \/ ReadTrades \/ SnapshotEquity
    PROVE  PortfolioInv'
<1> USE PortfolioAssumption DEF PortfolioInv
<1>1. UNCHANGED <<rows, bought, sold, lock, request, raced, submitted>>
  BY DEF ReadPositions, ReadTrades, SnapshotEquity
<1>2. valuation' \in [phase : {"none", "half", "done"}, torn : BOOLEAN]
  <2> DEFINE Readings == [phase : {"none", "half", "done"}, torn : BOOLEAN]
  <2>1. NoReading \in Readings /\ [phase |-> "half", torn |-> FALSE] \in Readings
    BY Zenon DEF NoReading
  <2>2. [valuation EXCEPT !.phase = "done"] \in Readings
    BY DEF TypeOK
  <2> HIDE DEF Readings
  <2>3. valuation' \in Readings
    BY <2>1, <2>2 DEF ReadPositions, ReadTrades, SnapshotEquity
  <2> QED BY <2>3 DEF Readings
<1>3. TypeOK'
  BY <1>1, <1>2 DEF TypeOK
<1>4. FlushedFits' /\ FreshUnlessRaced'
  BY <1>1 DEF FlushedFits, Oversells, FreshUnlessRaced, ActiveOn, Active
<1>5. NeverShort' /\ DerivedUnlessRaced'
  BY <1>1 DEF NeverShort, DerivedUnlessRaced
<1> QED BY <1>3, <1>4, <1>5

LEMMA StepInv == PortfolioInv /\ [Next]_vars => PortfolioInv'
<1> SUFFICES ASSUME PortfolioInv, [Next]_vars PROVE PortfolioInv'
  OBVIOUS
<1>1. ASSUME NEW r \in Requests, NEW x \in Traded, NEW d \in Deltas, LoadPosition(r, x, d)
      PROVE  PortfolioInv'
  BY <1>1, LoadStep
<1>2. ASSUME NEW r \in Requests, RejectSell(r) \/ DuplicateRow(r)
      PROVE  PortfolioInv'
  <2>1. request[r].phase = "loaded" /\ Active(r) /\ UNCHANGED lock
    BY <1>2 DEF RejectSell, DuplicateRow, Active
  <2>2. lock' = [x \in Traded |-> IF lock[x] = r THEN Free ELSE lock[x]]
    BY <2>1, UnlockedDrop
  <2> QED BY <1>2, <2>1, <2>2, DropStep DEF RejectSell, DuplicateRow
<1>3. ASSUME NEW r \in Requests, Abort(r)
      PROVE  PortfolioInv'
  BY <1>3, DropStep DEF Abort
<1>4. ASSUME NEW r \in Requests, Flush(r) PROVE PortfolioInv'
  BY <1>4, FlushStep
<1>5. ASSUME NEW r \in Requests, Commit(r) PROVE PortfolioInv'
  BY <1>5, CommitStep
<1>6. CASE ReadPositions \/ ReadTrades \/ SnapshotEquity
  BY <1>6, ValuationStep
<1>7. CASE UNCHANGED vars
  <2> USE <1>7 DEF vars, PortfolioInv
  <2>1. TypeOK'
    BY DEF TypeOK
  <2>2. FlushedFits' /\ FreshUnlessRaced'
    BY DEF FlushedFits, Oversells, FreshUnlessRaced, ActiveOn, Active
  <2>3. NeverShort' /\ DerivedUnlessRaced'
    BY DEF NeverShort, DerivedUnlessRaced
  <2> QED BY <2>1, <2>2, <2>3
<1> QED BY <1>1, <1>2, <1>3, <1>4, <1>5, <1>6, <1>7 DEF Next, TradeStep

(* The invariant holds of every behaviour. *)
THEOREM Invariance == Spec => []PortfolioInv
<1>1. Init => PortfolioInv
  BY InitInv
<1>2. PortfolioInv /\ [Next]_vars => PortfolioInv'
  BY StepInv
<1> QED BY <1>1, <1>2, PTL DEF Spec

(* A row lock is held by the flushed request on its row and no one else,   *)
(* and the rest of the type invariant.                                     *)
THEOREM TypeCorrect == Spec => []TypeOK
<1>1. PortfolioInv => TypeOK
  BY DEF PortfolioInv
<1> QED BY <1>1, Invariance, PTL

(* No position is ever short, however many requests overlap. *)
THEOREM NoShortPosition == Spec => []NeverShort
<1>1. PortfolioInv => NeverShort
  BY DEF PortfolioInv
<1> QED BY <1>1, Invariance, PTL

(* Where no two requests overlapped, a position is the sum of its trades,  *)
(* with a cost basis exactly while it is open.                             *)
THEOREM PositionsDerivedFromTrades == Spec => []DerivedUnlessRaced
<1>1. PortfolioInv => DerivedUnlessRaced
  BY DEF PortfolioInv
<1> QED BY <1>1, Invariance, PTL

-----------------------------------------------------------------------------
(* The values the account sees in this state. *)
Held == [x \in Traded |-> IF raced[x] THEN 0 ELSE rows[x].shares]
Net  == [x \in Traded |-> IF raced[x] THEN 0 ELSE bought[x] - sold[x]]
Contested == {x \in Traded : raced[x]}

(* A commit on a symbol nobody raced on is one trade of the account. *)
LEMMA CommitIsTrade ==
    ASSUME PortfolioInv, NEW r \in Requests, Commit(r), ~raced[request[r].symbol]
    PROVE  request[r].symbol \in Traded /\ A!Trade(request[r].symbol)
<1> USE PortfolioAssumption DEF PortfolioInv
<1> DEFINE q == request[r]
           x == q.symbol
<1>1. /\ q \in Loaded /\ x \in Traded /\ q.seen = rows[x]
      /\ q.delta \in Deltas /\ q.delta \in Int /\ q.delta # 0
      /\ q.seen.shares + q.delta >= 0
  <2>1. q.phase = "flushed" /\ Active(r) /\ q \in Loaded
    BY ActiveType DEF Commit
  <2>2. x \in Traded /\ q.delta \in Deltas /\ q.seen.shares \in Int
    BY <2>1 DEF Loaded, Row
  <2>3. q.seen = rows[x]
    BY <2>1, <2>2 DEF FreshUnlessRaced, ActiveOn
  <2>4. ~(q.seen.shares + q.delta < 0)
    BY <2>1 DEF FlushedFits, Oversells
  <2> QED BY <2>1, <2>2, <2>3, <2>4, DeltaType
<1>2. /\ rows'[x].shares = rows[x].shares + q.delta
      /\ \A y \in Traded : y # x => rows'[y] = rows[y]
  BY <1>1, WrittenType DEF Commit, TypeOK
<1>3. /\ bought'[x] - sold'[x] = (bought[x] - sold[x]) + q.delta
      /\ \A y \in Traded : y # x => bought'[y] = bought[y] /\ sold'[y] = sold[y]
  <2>1. CASE q.delta > 0
    BY <1>1, <2>1 DEF Commit, TypeOK
  <2>2. CASE q.delta < 0
    BY <1>1, <2>2 DEF Commit, TypeOK
  <2> QED BY <1>1, <2>1, <2>2
<1>4. raced' = raced
  BY DEF Commit
<1>5. Held' = [Held EXCEPT ![x] = @ + q.delta]
  BY <1>1, <1>2, <1>4 DEF Held
<1>6. Net' = [Net EXCEPT ![x] = @ + q.delta]
  BY <1>1, <1>3, <1>4 DEF Net
<1>7. Held[x] + q.delta >= 0
  BY <1>1 DEF Held
<1>8. x \notin Contested /\ Contested' = Contested
  BY <1>4 DEF Contested
<1> QED BY <1>1, <1>5, <1>6, <1>7, <1>8 DEF A!Trade, Held, Net, Contested

(* A commit on a symbol somebody raced on is invisible to the account. *)
LEMMA RacedCommitHidden ==
    ASSUME PortfolioInv, NEW r \in Requests, Commit(r), raced[request[r].symbol]
    PROVE  UNCHANGED A!accountVars
<1>1. raced' = raced
  BY DEF Commit
<1>2. \A y \in Traded : ~raced[y] =>
          rows'[y] = rows[y] /\ bought'[y] = bought[y] /\ sold'[y] = sold[y]
  BY DEF Commit, PortfolioInv, TypeOK
<1> QED BY <1>1, <1>2 DEF A!accountVars

(* A load contests its symbol, or is invisible to the account. *)
LEMMA LoadMayContest ==
    ASSUME PortfolioInv, NEW r \in Requests, NEW x \in Traded, NEW d \in Deltas,
           LoadPosition(r, x, d)
    PROVE  A!Contest(x) \/ UNCHANGED A!accountVars
<1>1. UNCHANGED <<rows, bought, sold>> /\ raced \in [Traded -> BOOLEAN]
  BY DEF LoadPosition, PortfolioInv, TypeOK
<1>2. CASE raced' = raced
  BY <1>1, <1>2 DEF A!accountVars
<1>3. CASE raced' # raced
  <2>1. ~raced[x] /\ raced' = [raced EXCEPT ![x] = TRUE]
    BY <1>1, <1>3 DEF LoadPosition
  <2>2. x \notin Contested /\ Contested' = Contested \cup {x}
    BY <1>1, <2>1 DEF Contested
  <2>3. Held' = [Held EXCEPT ![x] = 0]
    BY <1>1, <2>1 DEF Held
  <2>4. Net' = [Net EXCEPT ![x] = 0]
    BY <1>1, <2>1 DEF Net
  <2> QED BY <2>2, <2>3, <2>4 DEF A!Contest, Held, Net, Contested
<1> QED BY <1>2, <1>3

(* The portfolio implements the account: a commit is one of its atomic     *)
(* trades, unless requests overlapped on the symbol, and nothing else      *)
(* moves a position or the ledger.                                         *)
THEOREM Refinement == Spec => ImplementsAccount
<1>1. Init => A!Init
  BY DEF Init, A!Init, NoRow
<1>2. PortfolioInv /\ [Next]_vars => [A!Next]_(A!accountVars)
  <2> SUFFICES ASSUME PortfolioInv, [Next]_vars
               PROVE  A!Next \/ UNCHANGED A!accountVars
    OBVIOUS
  <2>1. ASSUME NEW r \in Requests, Commit(r) PROVE A!Next \/ UNCHANGED A!accountVars
    <3>1. CASE raced[request[r].symbol]
      BY <2>1, <3>1, RacedCommitHidden
    <3>2. CASE ~raced[request[r].symbol]
      <4>1. request[r].symbol \in Traded /\ A!Trade(request[r].symbol)
        BY <2>1, <3>2, CommitIsTrade
      <4> QED BY <4>1 DEF A!Next, A!Trade
    <3> QED BY <3>1, <3>2
  <2>2. ASSUME NEW r \in Requests, NEW x \in Traded, NEW d \in Deltas, LoadPosition(r, x, d)
        PROVE  A!Next \/ UNCHANGED A!accountVars
    <3>1. A!Contest(x) \/ UNCHANGED A!accountVars
      BY <2>2, LoadMayContest
    <3> QED BY <3>1 DEF A!Next, A!Contest
  <2>3. CASE UNCHANGED <<rows, bought, sold, raced>>
    BY <2>3 DEF A!accountVars
  <2> QED BY <2>1, <2>2, <2>3 DEF Next, TradeStep, RejectSell, Flush, DuplicateRow,
              Abort, ReadPositions, ReadTrades, SnapshotEquity, vars
<1> QED BY <1>1, <1>2, Invariance, PTL DEF Spec, ImplementsAccount, A!Spec

-----------------------------------------------------------------------------
(* The valuation.  Between its two statements it holds the market value of *)
(* the positions as they still are, unless a commit has torn it; afterwards*)
(* it is not told of trades any more.                                      *)
HalfCurrent == valuation.phase = "half" /\ ~valuation.torn => equity = MarketValue

ValuationInv == HalfCurrent /\ EquityConserved

(* Where nobody raced, the cash is what the positions have cost. *)
LEMMA CashIsTheRest ==
    ASSUME PortfolioInv, \A x \in Traded : ~raced[x]
    PROVE  MarketValue \in Int /\ MarketValue + CashBalance = Start
<1> DEFINE worth == [x \in Traded |-> rows[x].shares]
           spent == [x \in Traded |-> sold[x] - bought[x]]
           none  == [x \in Traded |-> 0]
<1>1. IsFiniteSet(Traded) /\ Start \in Nat
  BY PortfolioAssumption
<1>2. \A x \in Traded : worth[x] \in Int /\ spent[x] \in Int /\ none[x] = worth[x] + spent[x]
  <2>1. \A x \in Traded : rows[x].shares \in Int /\ bought[x] \in Nat /\ sold[x] \in Nat
    BY DEF PortfolioInv, TypeOK, Row
  <2>2. \A x \in Traded : rows[x].shares = bought[x] - sold[x]
    BY DEF PortfolioInv, DerivedUnlessRaced
  <2> QED BY <2>1, <2>2
<1>3. \A x \in Traded : none[x] = 0
  OBVIOUS
<1>4. MarketValue = SumFunctionOnSet(worth, Traded)
  BY DEF MarketValue, SumFunction
<1>5. CashBalance = Start + SumFunctionOnSet(spent, Traded)
  BY DEF CashBalance, SumFunction
<1> HIDE DEF worth, spent, none
<1>6. /\ SumFunctionOnSet(worth, Traded) \in Int
      /\ SumFunctionOnSet(spent, Traded) \in Int
  BY <1>1, <1>2, SumRecursion
<1>7. SumFunctionOnSet(none, Traded) = SumFunctionOnSet(worth, Traded) + SumFunctionOnSet(spent, Traded)
  BY <1>1, <1>2, SumAdd
<1>8. SumFunctionOnSet(none, Traded) = 0
  BY <1>1, <1>3, SumOfZeros
<1> QED BY <1>1, <1>4, <1>5, <1>6, <1>7, <1>8

LEMMA ValuationStepInv ==
    ASSUME PortfolioInv, ValuationInv, [Next]_vars
    PROVE  ValuationInv'
<1>1. CASE ReadPositions
  BY <1>1 DEF ReadPositions, ValuationInv, HalfCurrent, EquityConserved, MarketValue
<1>2. CASE ReadTrades
  <2>1. HalfCurrent'
    BY <1>2 DEF ReadTrades, HalfCurrent, PortfolioInv, TypeOK
  <2>2. ASSUME ~valuation.torn, \A x \in Traded : ~raced[x]
        PROVE  equity' = Start
    <3>1. equity = MarketValue
      BY <1>2, <2>2 DEF ReadTrades, ValuationInv, HalfCurrent
    <3> QED BY <1>2, <2>2, <3>1, CashIsTheRest DEF ReadTrades
  <2>3. raced' = raced /\ valuation'.torn = valuation.torn
    BY <1>2 DEF ReadTrades, PortfolioInv, TypeOK
  <2>4. EquityConserved'
    BY <2>2, <2>3 DEF EquityConserved
  <2> QED BY <2>1, <2>4 DEF ValuationInv
<1>3. CASE SnapshotEquity
  BY <1>3 DEF SnapshotEquity, NoReading, ValuationInv, HalfCurrent, EquityConserved
<1>4. ASSUME NEW r \in Requests, Commit(r)
      PROVE  ValuationInv'
  <2>1. valuation.phase = "half" => valuation'.phase = "half" /\ valuation'.torn
    BY <1>4 DEF Commit, PortfolioInv, TypeOK
  <2>2. valuation.phase # "half" => valuation' = valuation
    BY <1>4 DEF Commit
  <2>3. equity' = equity /\ raced' = raced
    BY <1>4 DEF Commit
  <2> QED BY <2>1, <2>2, <2>3 DEF ValuationInv, HalfCurrent, EquityConserved
<1>5. ASSUME NEW r \in Requests, NEW x \in Traded, NEW d \in Deltas, LoadPosition(r, x, d)
      PROVE  ValuationInv'
  <2>1. UNCHANGED <<rows, valuation, equity>>
    BY <1>5 DEF LoadPosition
  <2>2. \A y \in Traded : ~raced'[y] => ~raced[y]
    BY <1>5 DEF LoadPosition, PortfolioInv, TypeOK
  <2> QED BY <2>1, <2>2 DEF ValuationInv, HalfCurrent, EquityConserved, MarketValue
<1>6. CASE UNCHANGED <<rows, raced, valuation, equity>>
  BY <1>6 DEF ValuationInv, HalfCurrent, EquityConserved, MarketValue
<1> QED BY <1>1, <1>2, <1>3, <1>4, <1>5, <1>6
        DEF Next, TradeStep, RejectSell, Flush, DuplicateRow, Abort, vars

(* A valuation that no commit fell into, over positions nobody raced on,   *)
(* finds the equity that trading at one price has left unchanged: what the *)
(* positions are worth and what they have cost add up to the start.        *)
THEOREM TradingConservesEquity == Spec => []EquityConserved
<1>1. Init => ValuationInv
  BY DEF Init, NoReading, ValuationInv, HalfCurrent, EquityConserved
<1>2. PortfolioInv /\ ValuationInv /\ [Next]_vars => ValuationInv'
  BY ValuationStepInv
<1>3. ValuationInv => EquityConserved
  BY DEF ValuationInv
<1> QED BY <1>1, <1>2, <1>3, Invariance, PTL DEF Spec

-----------------------------------------------------------------------------
LEMMA LeastOfTwo ==
    ASSUME NEW a \in Int, NEW b \in Int
    PROVE  Min({a, b}) = IF a <= b THEN a ELSE b
BY DEF Min

LEMMA GreatestOfTwo ==
    ASSUME NEW a \in Int, NEW b \in Int
    PROVE  Max({a, b}) = IF a >= b THEN a ELSE b
BY DEF Max

-----------------------------------------------------------------------------
(* Position management.  Fills move money between cash and shares, so that *)
(* the equity, and with it every limit, stands while the market does; what *)
(* a fill leaves behind (AddedSettled, SoldSettled) is then a reason for   *)
(* the next review not to turn around.                                     *)
HoldingsTypes ==
    /\ shares \in [Symbols -> Nat]
    /\ cost \in [Symbols -> Nat]
    /\ mark \in [Symbols -> Nat \ {0}]
    /\ chart \in [Symbols -> Charts]
    /\ cash \in Int
    /\ last \in [Symbols -> {"nothing", "added", "sold"}]

Cap == Profile.max_position_pct * Equity

\* An addition was made on a small gain, leaves the gain small, and stays in
\* the limit: no reason to exit, to trim or to take profits.
AddedSettled(x) ==
    /\ Judgeable(Holding(x)) /\ chart[x].sma50 = TRUE
    /\ Gain(Holding(x)) >= 0 /\ ~Onside(Holding(x), Profile)
    /\ Whole * (shares[x] * mark[x]) <= Cap

\* What was sold and not closed was a winner, or fills its limit.
SoldSettled(x) ==
    Onside(Holding(x), Profile) \/ Cap < Whole * (shares[x] * mark[x] + mark[x])

Settled ==
    \A x \in Symbols : shares[x] # 0 =>
        /\ last[x] = "added" => AddedSettled(x)
        /\ last[x] = "sold" => SoldSettled(x)

HoldingsInv == HoldingsTypes /\ Settled

LEMMA ProfileTypes ==
    /\ Profile.max_position_pct \in Nat \ {0}
    /\ Profile.risk_per_trade_pct \in Nat \ {0}
<1>1. Profile.max_position_pct \in 1 .. Whole /\ Profile.risk_per_trade_pct \in Nat \ {0}
  BY HoldingsAssumption
<1>2. \A n \in 1 .. Whole : n \in Nat \ {0}
  BY DEF Whole
<1> QED BY <1>1, <1>2

LEMMA EquityType == HoldingsTypes => Equity \in Int
<1> SUFFICES ASSUME HoldingsTypes PROVE Equity \in Int
  OBVIOUS
<1> DEFINE worth == [x \in Symbols |-> shares[x] * mark[x]]
<1>1. \A x \in Symbols : worth[x] \in Int
  BY DEF HoldingsTypes
<1>2. Equity = cash + SumFunctionOnSet(worth, Symbols)
  BY DEF Equity, SumFunction
<1> HIDE DEF worth
<1>3. SumFunctionOnSet(worth, Symbols) \in Int
  BY <1>1, SymbolsFinite, SumRecursion
<1> QED BY <1>2, <1>3 DEF HoldingsTypes

(* A fill at the mark leaves the equity as it is. *)
LEMMA FillKeepsEquity ==
    ASSUME HoldingsTypes, NEW x \in Symbols, NEW d \in Int,
           shares' = [shares EXCEPT ![x] = @ + d], cash' = cash - d * mark[x], mark' = mark
    PROVE  Equity' = Equity
<1> DEFINE worth == [y \in Symbols |-> shares[y] * mark[y]]
           after == [y \in Symbols |-> shares'[y] * mark'[y]]
<1>1. \A y \in Symbols : worth[y] \in Int /\ after[y] \in Int
  BY DEF HoldingsTypes
<1>2. \A y \in Symbols \ {x} : worth[y] = after[y]
  BY DEF HoldingsTypes
<1>3. after[x] = worth[x] + d * mark[x]
  <2>1. shares[x] \in Int /\ mark[x] \in Int /\ shares'[x] = shares[x] + d
    BY DEF HoldingsTypes
  <2>2. (shares[x] + d) * mark[x] = shares[x] * mark[x] + d * mark[x]
    BY <2>1
  <2> QED BY <2>1, <2>2
<1>4. /\ Equity = cash + SumFunctionOnSet(worth, Symbols)
      /\ Equity' = cash' + SumFunctionOnSet(after, Symbols)
  BY DEF Equity, SumFunction
<1> HIDE DEF worth, after
<1>5. /\ SumFunctionOnSet(worth, Symbols) \in Int
      /\ SumFunctionOnSet(after, Symbols) = SumFunctionOnSet(worth, Symbols) + after[x] - worth[x]
  <2>1. SumFunctionOnSet(worth, Symbols) \in Int
    BY <1>1, SymbolsFinite, SumRecursion
  <2>2. SumFunctionOnSet(after, Symbols) = SumFunctionOnSet(worth, Symbols) + after[x] - worth[x]
    BY <1>1, <1>2, SymbolsFinite, SumUpdate
  <2> QED BY <2>1, <2>2
<1>6. mark[x] \in Int /\ cash \in Int
  BY DEF HoldingsTypes
<1> QED BY <1>1, <1>3, <1>4, <1>5, <1>6

-----------------------------------------------------------------------------
(* The ladder: what a verdict says about the rungs above it. *)
LEMMA Verdicts ==
    ASSUME NEW h, NEW p, NEW r
    PROVE  LET verdict == ReviewPosition(h, p, r) IN
           /\ IsSell(verdict) =>
                 /\ Judgeable(h)
                 /\ \/ ShouldExit(h, r) /\ verdict.delta = -h.shares
                    \/ Outgrown(h, p, r) /\ verdict.delta = -Trim(h, p, r)
                    \/ /\ ~Outgrown(h, p, r) /\ TargetReached(h, r)
                       /\ h.shares >= 2 /\ verdict.delta = -(h.shares \div 2)
           /\ verdict.action = "INCREASE" =>
                 /\ Judgeable(h) /\ ~ShouldExit(h, r) /\ ~Onside(h, r)
                 /\ CanAdd(h, p, r) /\ verdict.delta = Addition(h, p, r)
<1> USE DEF ReviewPosition, IsSell, Selling, Advice
<1>1. CASE ~Judgeable(h)
  BY <1>1
<1>2. CASE Judgeable(h) /\ ShouldExit(h, r)
  BY <1>2
<1>3. CASE Judgeable(h) /\ ~ShouldExit(h, r) /\ Outgrown(h, p, r)
  BY <1>3
<1>4. CASE /\ Judgeable(h) /\ ~ShouldExit(h, r) /\ ~Outgrown(h, p, r)
           /\ TargetReached(h, r) /\ h.shares >= 2
  BY <1>4
<1>5. CASE /\ Judgeable(h) /\ ~ShouldExit(h, r) /\ ~Outgrown(h, p, r)
           /\ ~(TargetReached(h, r) /\ h.shares >= 2)
  BY <1>5
<1> QED BY <1>1, <1>2, <1>3, <1>4, <1>5

\* The numbers a review of x works with.
LEMMA Reviewed ==
    ASSUME HoldingsTypes, NEW x \in Symbols
    PROVE  /\ Holding(x).shares = shares[x] /\ Holding(x).mark = mark[x]
           /\ Holding(x).cost = cost[x] /\ Holding(x).chart = chart[x]
           /\ Worth(Holding(x)) = shares[x] * mark[x] /\ Gain(Holding(x)) = mark[x] - cost[x]
           /\ Book.equity = Equity
           /\ shares[x] \in Nat /\ cost[x] \in Nat /\ mark[x] \in Nat \ {0}
           /\ shares[x] * mark[x] \in Nat /\ Gain(Holding(x)) \in Int
           /\ Judgeable(Holding(x)) =>
                 /\ cost[x] > 0 /\ chart[x].atr \in Nat \ {0}
                 /\ Risked(Holding(x), Profile) \in Nat \ {0}
                 /\ Risked(Holding(x), Profile) = StopDistance(chart[x].atr, Profile)
<1>1. /\ Holding(x).shares = shares[x] /\ Holding(x).mark = mark[x]
      /\ Holding(x).cost = cost[x] /\ Holding(x).chart = chart[x] /\ Book.equity = Equity
  BY DEF Holding, Book
<1>2. shares[x] \in Nat /\ cost[x] \in Nat /\ mark[x] \in Nat \ {0} /\ chart[x] \in Charts
  BY DEF HoldingsTypes
<1>3. shares[x] * mark[x] \in Nat
  BY <1>2
<1>4. ASSUME Judgeable(Holding(x))
      PROVE  /\ cost[x] > 0 /\ chart[x].atr \in Nat \ {0}
             /\ StopDistance(chart[x].atr, Profile) \in Nat \ {0}
  <2>1. cost[x] > 0 /\ chart[x].atr \in Nat \ {0}
    BY <1>1, <1>2, <1>4, HoldingsAssumption DEF Judgeable
  <2>2. \A m, n \in Nat \ {0} : m * n \in Nat \ {0}
    OBVIOUS
  <2> QED BY <2>1, <2>2, HoldingsAssumption DEF StopDistance
<1> QED BY <1>1, <1>2, <1>3, <1>4 DEF Worth, Gain, Risked

LEMMA OnsideMeans ==
    ASSUME NEW h, Gain(h) \in Int, Risked(h, Profile) \in Nat \ {0}
    PROVE  /\ RMultiple(h, Profile) \in Int
           /\ Onside(h, Profile) <=> 200 * Gain(h) >= 199 * Risked(h, Profile)
<1> DEFINE gain == Gain(h)
           risk == Risked(h, Profile)
           R    == RMultiple(h, Profile)
<1>1. gain \in Int /\ risk \in Nat \ {0}
  OBVIOUS
<1>2. 200 * gain + risk \in Int /\ 2 * risk \in Nat \ {0} /\ R = (200 * gain + risk) \div (2 * risk)
  BY <1>1 DEF RMultiple
<1> HIDE DEF gain, risk, R
<1>3. R \in Int
  BY <1>2, Quotient
<1>4. R <= 99 <=> 200 * gain + risk < (2 * risk) * 99 + 2 * risk
  BY <1>2, QuotientAtMost
<1>5. R >= 100 <=> 200 * gain >= 199 * risk
  BY <1>1, <1>3, <1>4
<1> QED BY <1>3, <1>5 DEF gain, risk, R, Onside

(* What a position's gain, in units of the risk, is compared with. *)
LEMMA Gains ==
    ASSUME HoldingsTypes, NEW x \in Symbols, Judgeable(Holding(x))
    PROVE  LET gain == Gain(Holding(x))
               risk == Risked(Holding(x), Profile) IN
           /\ RMultiple(Holding(x), Profile) \in Int
           /\ Onside(Holding(x), Profile) <=> 200 * gain >= 199 * risk
           /\ RMultiple(Holding(x), Profile) > 0 <=> 200 * gain >= risk
           /\ gain >= 0 => ~StopBreached(Holding(x), Profile)
           /\ TargetReached(Holding(x), Profile) => Onside(Holding(x), Profile)
<1> DEFINE gain == Gain(Holding(x))
           risk == Risked(Holding(x), Profile)
           R    == RMultiple(Holding(x), Profile)
<1>1. gain \in Int /\ risk \in Nat \ {0}
  BY Reviewed
<1>2. 200 * gain + risk \in Int /\ 2 * risk \in Nat \ {0} /\ R = (200 * gain + risk) \div (2 * risk)
  BY <1>1 DEF RMultiple
<1> HIDE DEF gain, risk, R
<1>3. R \in Int
  BY <1>2, Quotient
<1>5. R <= 0 <=> 200 * gain + risk < (2 * risk) * 0 + 2 * risk
  BY <1>2, QuotientAtMost
<1>6. R <= -100 <=> 200 * gain + risk < (2 * risk) * (-100) + 2 * risk
  BY <1>2, QuotientAtMost
<1>7. R >= 100 <=> 200 * gain >= 199 * risk
  BY <1>1, OnsideMeans DEF gain, risk, R, Onside
<1>8. R > 0 <=> 200 * gain >= risk
  BY <1>1, <1>3, <1>5
<1>9. gain >= 0 => ~(R <= -100)
  BY <1>1, <1>3, <1>6
<1>10. R >= 100 * Profile.min_reward_risk => R >= 100
  BY <1>3, HoldingsAssumption
<1> QED BY <1>3, <1>7, <1>8, <1>9, <1>10 DEF gain, risk, R, Onside, StopBreached, TargetReached

(* The weight of a position, rounded to a basis point, against its limit. *)
LEMMA Weights ==
    ASSUME HoldingsTypes, NEW x \in Symbols
    PROVE  LET worth == Whole * (shares[x] * mark[x]) IN
           /\ Cap \in Int
           /\ Outgrown(Holding(x), Book, Profile) =>
                 Equity > 0 /\ Cap > 0 /\ 2 * worth >= 2 * Cap + Equity
           /\ ~Outgrown(Holding(x), Book, Profile) /\ Equity > 0 =>
                 Cap >= Equity /\ 2 * worth < 2 * Cap + Equity
<1> DEFINE pct   == Profile.max_position_pct
           worth == Whole * (shares[x] * mark[x])
           W     == Weight(Holding(x), Book)
<1>1. pct \in Nat \ {0} /\ Equity \in Int /\ worth \in Nat
  <2>1. pct \in Nat \ {0}
    BY ProfileTypes
  <2>2. shares[x] * mark[x] \in Nat
    BY Reviewed
  <2>3. worth \in Nat
    BY <2>2 DEF Whole
  <2> QED BY <2>1, <2>3, EquityType
<1>2. Outgrown(Holding(x), Book, Profile) <=> W > pct
  BY Reviewed DEF Outgrown
<1>3. Cap = pct * Equity
  BY DEF Cap
<1>4. ~(Equity > 0) => W = 0
  BY <1>1, Reviewed DEF Weight
<1>5. Equity > 0 => W = (2 * worth + Equity) \div (2 * Equity)
  BY <1>1, Reviewed DEF Weight, Whole
<1> HIDE DEF pct, worth, W
<1>6. ASSUME Equity > 0
      PROVE  /\ W <= pct <=> 2 * worth < 2 * (pct * Equity) + Equity
             /\ W \in Int /\ pct * Equity >= Equity
  <2>1. 2 * worth + Equity \in Int /\ 2 * Equity \in Nat \ {0}
    BY <1>1, <1>6
  <2>2. W \in Int /\ (W <= pct <=> 2 * worth + Equity < (2 * Equity) * pct + 2 * Equity)
    BY <1>1, <1>5, <1>6, <2>1, Quotient, QuotientAtMost
  <2>3. (2 * Equity) * pct = 2 * (pct * Equity) /\ pct * Equity \in Int
    BY <1>1
  <2>4. pct * Equity >= Equity
    BY <1>1, <1>6
  <2> QED BY <1>1, <2>2, <2>3, <2>4
<1>7. pct * Equity \in Int
  BY <1>1
<1> QED BY <1>1, <1>2, <1>3, <1>4, <1>6, <1>7 DEF worth, W

LEMMA SizeType ==
    ASSUME HoldingsTypes, NEW x \in Symbols, Judgeable(Holding(x))
    PROVE  SizePosition(Equity, mark[x], chart[x].atr, Profile) \in Int
<1> DEFINE risk == StopDistance(chart[x].atr, Profile)
<1>1. risk \in Nat \ {0} /\ mark[x] \in Nat \ {0} /\ Equity \in Int
  BY Reviewed, EquityType
<1>2. Profile.risk_per_trade_pct \in Int /\ Profile.max_position_pct \in Int
  BY ProfileTypes
<1> DEFINE byRisk == (Equity * Profile.risk_per_trade_pct) \div (Whole * risk)
           byCap  == (Equity * Profile.max_position_pct) \div (Whole * mark[x])
<1> HIDE DEF risk
<1>3. byRisk \in Int /\ byCap \in Int
  <2>1. Whole * risk \in Nat \ {0} /\ Whole * mark[x] \in Nat \ {0}
    BY <1>1 DEF Whole
  <2>2. /\ Equity * Profile.risk_per_trade_pct \in Int
        /\ Equity * Profile.max_position_pct \in Int
    BY <1>1, <1>2
  <2> QED BY <2>1, <2>2, Quotient
<1>4. Min({byRisk, byCap}) \in Int
  <2> HIDE DEF byRisk, byCap
  <2> QED BY <1>3, LeastOfTwo
<1> QED BY <1>4 DEF SizePosition, risk

(* An addition: a small gain on which the trend stands, and room for it. *)
LEMMA Added ==
    ASSUME HoldingsTypes, NEW x \in Symbols, AdviceOn(x).action = "INCREASE"
    PROVE  LET d == AdviceOn(x).delta IN
           /\ d \in Nat \ {0} /\ Equity > 0
           /\ Judgeable(Holding(x)) /\ chart[x].sma50 = TRUE
           /\ ~Onside(Holding(x), Profile)
           /\ 200 * Gain(Holding(x)) >= Risked(Holding(x), Profile)
           /\ Whole * ((shares[x] + d) * mark[x]) <= Cap
           /\ Approved(AdditionOrder(Holding(x), d), Book, Profile)
<1> DEFINE d     == AdviceOn(x).delta
           h     == Holding(x)
           worth == Whole * (shares[x] * mark[x])
           size  == SizePosition(Equity, mark[x], chart[x].atr, Profile)
           slack == Max({0, Equity * Profile.max_position_pct - worth})
           room  == slack \div (Whole * mark[x])
<1>1. /\ Judgeable(h) /\ ~Onside(h, Profile) /\ CanAdd(h, Book, Profile)
      /\ d = Addition(h, Book, Profile)
  BY Verdicts DEF AdviceOn
<1>2. Addition(h, Book, Profile) = Min({size, room})
  BY Reviewed DEF Addition
<1>3. size \in Int /\ mark[x] \in Nat \ {0} /\ shares[x] \in Nat /\ Equity \in Int
  BY <1>1, SizeType, Reviewed, EquityType
<1>4. Cap \in Int /\ Cap = Equity * Profile.max_position_pct
  BY <1>3, ProfileTypes DEF Cap
<1>5. worth \in Nat /\ Whole * mark[x] \in Nat \ {0}
  <2>1. shares[x] * mark[x] \in Nat
    BY <1>3
  <2> QED BY <1>3, <2>1 DEF Whole
<1>6. slack = IF 0 >= Cap - worth THEN 0 ELSE Cap - worth
  <2> HIDE DEF worth
  <2> QED BY <1>4, <1>5, GreatestOfTwo
<1> HIDE DEF slack, worth, size
<1>7. /\ room \in Int
      /\ (Whole * mark[x]) * room <= slack
  <2>1. slack \in Int
    BY <1>4, <1>5, <1>6
  <2> QED BY <1>5, <2>1, Quotient
<1> HIDE DEF room
<1>8. d \in Int /\ d > 0 /\ d <= room
  BY <1>1, <1>2, <1>3, <1>7, LeastOfTwo DEF CanAdd
<1>9. (Whole * mark[x]) * d <= (Whole * mark[x]) * room
  BY <1>5, <1>7, <1>8
<1>10. (Whole * mark[x]) * d > 0
  BY <1>5, <1>8
<1>11. worth + (Whole * mark[x]) * d <= Cap
  BY <1>4, <1>5, <1>6, <1>7, <1>8, <1>9, <1>10
<1>12. worth + (Whole * mark[x]) * d = Whole * ((shares[x] + d) * mark[x])
  BY <1>3, <1>8 DEF worth, Whole
<1>13. Equity > 0
  <2>1. Cap > 0
    BY <1>4, <1>5, <1>8, <1>10, <1>11
  <2> QED BY <1>3, <1>4, <2>1, ProfileTypes
<1>14. chart[x].sma50 = TRUE /\ RMultiple(h, Profile) > 0
  BY <1>1, Reviewed DEF CanAdd, RoomToAdd
<1>15. 200 * Gain(h) >= Risked(h, Profile)
  BY <1>1, <1>14, Gains
<1>16. Approved(AdditionOrder(h, d), Book, Profile)
  BY <1>1 DEF CanAdd
<1> QED BY <1>1, <1>8, <1>11, <1>12, <1>13, <1>14, <1>15, <1>16

(* A sale closes the position, halves a winner, or fills the limit. *)
LEMMA Sold ==
    ASSUME HoldingsTypes, NEW x \in Symbols, IsSell(AdviceOn(x))
    PROVE  LET d    == AdviceOn(x).delta
               left == Whole * ((shares[x] + d) * mark[x]) IN
           /\ d \in Int /\ shares[x] + d \in Nat
           /\ \/ shares[x] + d = 0
              \/ Onside(Holding(x), Profile) /\ (Equity > 0 => left <= Cap)
              \/ left <= Cap /\ Cap < left + Whole * mark[x]
<1> DEFINE d     == AdviceOn(x).delta
           h     == Holding(x)
           worth == Whole * (shares[x] * mark[x])
           left  == Whole * ((shares[x] + d) * mark[x])
<1>1. /\ Judgeable(h)
      /\ \/ d = -shares[x]
         \/ Outgrown(h, Book, Profile) /\ d = -Trim(h, Book, Profile)
         \/ /\ ~Outgrown(h, Book, Profile) /\ TargetReached(h, Profile)
            /\ shares[x] >= 2 /\ d = -(shares[x] \div 2)
  BY Verdicts, Reviewed DEF AdviceOn
<1>2. shares[x] \in Nat /\ mark[x] \in Nat \ {0} /\ Equity \in Int /\ Cap \in Int
  BY Reviewed, EquityType, Weights
<1>3. worth \in Nat /\ Whole * mark[x] \in Nat \ {0} /\ worth = (Whole * mark[x]) * shares[x]
  BY <1>2 DEF Whole
<1>4. CASE d = -shares[x]
  BY <1>2, <1>4
<1>5. CASE Outgrown(h, Book, Profile) /\ d = -Trim(h, Book, Profile)
  <2> DEFINE allowed == (Equity * Profile.max_position_pct) \div (Whole * mark[x])
  <2>1. Cap = Equity * Profile.max_position_pct
    BY <1>2, ProfileTypes DEF Cap
  <2>2. Cap > 0 /\ Cap < worth
    BY <1>2, <1>3, <1>5, Weights
  <2>3. allowed \in Int /\ (Whole * mark[x]) * allowed <= Cap /\ Cap < (Whole * mark[x]) * allowed + Whole * mark[x]
    BY <1>2, <1>3, <2>1, Quotient
  <2>4. Trim(h, Book, Profile) =
            Min({shares[x], Max({1, shares[x] - Max({0, allowed})})})
    BY Reviewed DEF Trim
  <2> HIDE DEF allowed, worth
  <2>5. 0 <= allowed
    <3>1. ASSUME allowed <= -1 PROVE FALSE
      <4>1. (Whole * mark[x]) * allowed <= (Whole * mark[x]) * (-1)
        BY <1>3, <2>3, <3>1
      <4> QED BY <1>2, <1>3, <2>2, <2>3, <4>1
    <3> QED BY <2>3, <3>1
  <2>6. allowed < shares[x]
    <3>1. ASSUME allowed >= shares[x] PROVE FALSE
      <4>1. (Whole * mark[x]) * allowed >= (Whole * mark[x]) * shares[x]
        BY <1>2, <1>3, <2>3, <3>1
      <4> QED BY <1>2, <1>3, <2>2, <2>3, <4>1
    <3> QED BY <1>2, <2>3, <3>1
  <2>7. Trim(h, Book, Profile) = shares[x] - allowed
    <3> DEFINE excess == shares[x] - allowed
    <3>1. Max({0, allowed}) = allowed
      BY <2>3, <2>5, GreatestOfTwo
    <3>2. shares[x] \in Int /\ excess \in Int /\ 1 <= excess /\ excess <= shares[x]
      BY <1>2, <2>3, <2>5, <2>6
    <3> HIDE DEF excess
    <3>3. Max({1, excess}) = excess
      BY <3>2, GreatestOfTwo
    <3>4. Min({shares[x], excess}) = excess
      BY <3>2, LeastOfTwo
    <3> QED BY <2>4, <3>1, <3>3, <3>4 DEF excess
  <2>8. d \in Int /\ shares[x] + d = allowed
    BY <1>2, <1>5, <2>3, <2>7
  <2>9. left = (Whole * mark[x]) * allowed
    BY <1>2, <2>3, <2>8 DEF Whole
  <2> QED BY <2>3, <2>5, <2>8, <2>9
<1>6. CASE /\ ~Outgrown(h, Book, Profile) /\ TargetReached(h, Profile)
           /\ shares[x] >= 2 /\ d = -(shares[x] \div 2)
  <2>1. shares[x] \div 2 \in Int /\ 2 * (shares[x] \div 2) <= shares[x] /\ shares[x] < 2 * (shares[x] \div 2) + 2
    BY <1>2, Quotient
  <2>2. d \in Int /\ shares[x] + d \in Nat /\ 3 * (shares[x] + d) <= 2 * shares[x]
    BY <1>2, <1>6, <2>1
  <2>3. Onside(h, Profile)
    BY <1>1, <1>6, Gains
  <2>4. ASSUME Equity > 0 PROVE left <= Cap
    <3>1. Cap >= Equity /\ 2 * worth < 2 * Cap + Equity
      BY <1>6, <2>4, Weights
    <3>2. left = (Whole * mark[x]) * (shares[x] + d) /\ left \in Int
      BY <1>2, <2>2 DEF Whole
    <3>3. (Whole * mark[x]) * (3 * (shares[x] + d)) <= (Whole * mark[x]) * (2 * shares[x])
      BY <1>2, <1>3, <2>2
    <3>4. 3 * left <= 2 * worth
      <4>1. 3 * left = (Whole * mark[x]) * (3 * (shares[x] + d))
        BY <1>3, <2>2, <3>2
      <4>2. 2 * worth = (Whole * mark[x]) * (2 * shares[x])
        BY <1>2, <1>3
      <4> QED BY <3>3, <4>1, <4>2
    <3> HIDE DEF left, worth
    <3> QED BY <1>2, <1>3, <3>1, <3>2, <3>4
  <2> QED BY <2>2, <2>3, <2>4
<1> QED BY <1>1, <1>4, <1>5, <1>6

-----------------------------------------------------------------------------
(* What a fill leaves as it is, of the positions it does not touch and of  *)
(* the chart and, while the position stays open, the basis of its own.     *)
LEMMA Untouched ==
    ASSUME HoldingsInv, NEW x \in Symbols, Equity' = Equity,
           UNCHANGED <<mark[x], chart[x], cost[x], shares[x], last[x]>>, shares'[x] # 0
    PROVE  /\ last'[x] = "added" => AddedSettled(x)'
           /\ last'[x] = "sold" => SoldSettled(x)'
<1>1. /\ last[x] = "added" => AddedSettled(x)
      /\ last[x] = "sold" => SoldSettled(x)
  BY DEF HoldingsInv, Settled
<1>2. /\ Holding(x).cost = cost[x] /\ Holding(x).mark = mark[x] /\ Holding(x).chart = chart[x]
      /\ Holding(x)'.cost = cost'[x] /\ Holding(x)'.mark = mark'[x] /\ Holding(x)'.chart = chart'[x]
  BY DEF Holding
<1>3. Judgeable(Holding(x))' <=> Judgeable(Holding(x))
  BY <1>2 DEF Judgeable
<1>4. Gain(Holding(x))' = Gain(Holding(x)) /\ Risked(Holding(x), Profile)' = Risked(Holding(x), Profile)
  BY <1>2 DEF Gain, Risked
<1>5. Onside(Holding(x), Profile)' <=> Onside(Holding(x), Profile)
  BY <1>4 DEF Onside, RMultiple
<1>6. Cap' = Cap
  BY DEF Cap
<1> QED BY <1>1, <1>3, <1>4, <1>5, <1>6 DEF AddedSettled, SoldSettled

LEMMA AddStep ==
    ASSUME HoldingsInv, NEW x \in Symbols, FollowAdd(x)
    PROVE  /\ HoldingsInv' /\ Equity' = Equity
           /\ Whole * (shares'[x] * mark'[x]) <= Cap
<1> DEFINE d == AdviceOn(x).delta
           h == Holding(x)
           paid == shares[x] * cost[x] + d * mark[x]
<1>1. HoldingsTypes
  BY DEF HoldingsInv
<1>2. /\ d \in Nat \ {0} /\ Equity > 0
      /\ Judgeable(h) /\ chart[x].sma50 = TRUE
      /\ ~Onside(h, Profile)
      /\ 200 * Gain(h) >= Risked(h, Profile)
      /\ Whole * ((shares[x] + d) * mark[x]) <= Cap
  BY <1>1, Added DEF FollowAdd
<1>3. /\ shares[x] \in Nat /\ mark[x] \in Nat \ {0} /\ cost[x] \in Nat \ {0}
      /\ Risked(h, Profile) \in Nat \ {0}
      /\ Gain(h) = mark[x] - cost[x]
  BY <1>1, <1>2, Reviewed
<1>4. /\ shares' = [shares EXCEPT ![x] = @ + d]
      /\ cost' = [cost EXCEPT ![x] = paid \div (shares[x] + d)]
      /\ cash' = cash - d * mark[x]
      /\ last' = [last EXCEPT ![x] = "added"]
      /\ UNCHANGED <<mark, chart>>
  BY DEF FollowAdd
<1> HIDE DEF d, h, paid
<1>5. Equity' = Equity /\ Cap' = Cap
  <2>1. d \in Int
    BY <1>2
  <2>2. Equity' = Equity
    BY <1>1, <1>4, <2>1, FillKeepsEquity
  <2> QED BY <2>2 DEF Cap
<1> USE DEF paid
<1>6. /\ shares[x] + d \in Nat \ {0} /\ paid \in Int
      /\ cost[x] < mark[x]
  BY <1>2, <1>3
<1>7. /\ (shares[x] + d) * cost[x] <= paid
      /\ paid <= (shares[x] + d) * mark[x]
  <2>1. shares[x] * cost[x] <= shares[x] * mark[x] /\ d * cost[x] <= d * mark[x]
    BY <1>2, <1>3, <1>6
  <2>2. /\ (shares[x] + d) * cost[x] = shares[x] * cost[x] + d * cost[x]
        /\ (shares[x] + d) * mark[x] = shares[x] * mark[x] + d * mark[x]
    BY <1>2, <1>3
  <2> QED BY <1>2, <1>3, <2>1, <2>2
<1> HIDE DEF paid
<1> DEFINE average == paid \div (shares[x] + d)
<1>8. average \in Int /\ cost[x] <= average /\ average <= mark[x]
  <2>1. cost[x] \in Int /\ mark[x] \in Int /\ paid \in Int /\ shares[x] + d \in Nat \ {0}
    BY <1>3, <1>6
  <2> HIDE DEF paid
  <2> QED BY <1>7, <2>1, QuotientBetween
<1> HIDE DEF average
<1>9. HoldingsTypes'
  <2>1. shares'[x] \in Nat /\ cost'[x] \in Nat /\ cash' \in Int
    BY <1>1, <1>2, <1>3, <1>4, <1>6, <1>8 DEF HoldingsTypes, average
  <2> QED BY <1>1, <1>4, <2>1 DEF HoldingsTypes
<1>10. /\ shares'[x] = shares[x] + d /\ cost'[x] = average /\ last'[x] = "added"
       /\ mark'[x] = mark[x] /\ chart'[x] = chart[x]
  BY <1>1, <1>4 DEF HoldingsTypes, average
<1>11. Whole * (shares'[x] * mark'[x]) <= Cap
  BY <1>2, <1>10
<1>12. AddedSettled(x)'
  <2>1. /\ Holding(x)'.cost = average /\ Holding(x)'.mark = mark[x] /\ Holding(x)'.chart = chart[x]
        /\ h.chart = chart[x]
    BY <1>10 DEF Holding, h
  <2>2. Judgeable(Holding(x))'
    BY <1>2, <1>3, <1>8, <2>1 DEF Judgeable
  <2>3. /\ Gain(Holding(x))' = mark[x] - average
        /\ Risked(Holding(x), Profile)' = Risked(h, Profile)
    BY <2>1 DEF Gain, Risked
  <2>4. Onside(h, Profile) <=> 200 * Gain(h) >= 199 * Risked(h, Profile)
    BY <1>1, <1>2, Gains DEF h
  <2>5. Onside(Holding(x), Profile)' <=>
            200 * Gain(Holding(x))' >= 199 * Risked(Holding(x), Profile)'
    <3>1. Gain(Holding(x)') \in Int /\ Risked(Holding(x)', Profile) \in Nat \ {0}
      BY <1>3, <1>8, <2>3
    <3> QED BY <3>1, OnsideMeans
  <2>6. ~Onside(Holding(x), Profile)' /\ Gain(Holding(x))' >= 0
    BY <1>2, <1>3, <1>8, <2>3, <2>4, <2>5
  <2> QED BY <1>2, <1>5, <1>10, <1>11, <2>2, <2>6 DEF AddedSettled
<1>13. ASSUME NEW y \in Symbols, shares'[y] # 0
       PROVE  /\ last'[y] = "added" => AddedSettled(y)'
              /\ last'[y] = "sold" => SoldSettled(y)'
  <2>1. CASE y = x
    BY <1>10, <1>12, <2>1
  <2>2. CASE y # x
    <3>1. UNCHANGED <<mark[y], chart[y], cost[y], shares[y], last[y]>>
      BY <1>1, <1>4, <2>2 DEF HoldingsTypes
    <3> QED BY <1>5, <1>13, <3>1, Untouched
  <2> QED BY <2>1, <2>2
<1>14. Settled'
  BY <1>13 DEF Settled
<1> QED BY <1>5, <1>9, <1>11, <1>14 DEF HoldingsInv

LEMMA SellStep ==
    ASSUME HoldingsInv, NEW x \in Symbols, FollowSell(x)
    PROVE  /\ HoldingsInv' /\ Equity' = Equity
           /\ Equity > 0 => Whole * (shares'[x] * mark'[x]) <= Cap
<1> DEFINE d == AdviceOn(x).delta
           h == Holding(x)
           left == Whole * ((shares[x] + d) * mark[x])
<1>1. HoldingsTypes
  BY DEF HoldingsInv
<1>2. /\ d \in Int /\ shares[x] + d \in Nat
      /\ \/ shares[x] + d = 0
         \/ Onside(h, Profile) /\ (Equity > 0 => left <= Cap)
         \/ left <= Cap /\ Cap < left + Whole * mark[x]
  BY <1>1, Sold DEF FollowSell
<1>3. /\ shares[x] \in Nat /\ mark[x] \in Nat \ {0} /\ Equity \in Int /\ Cap \in Int
  BY <1>1, Reviewed, EquityType, Weights
<1>4. /\ shares' = [shares EXCEPT ![x] = @ + d]
      /\ cost' = IF shares'[x] = 0 THEN [cost EXCEPT ![x] = 0] ELSE cost
      /\ cash' = cash - d * mark[x]
      /\ last' = [last EXCEPT ![x] = "sold"]
      /\ UNCHANGED <<mark, chart>>
  BY DEF FollowSell
<1> HIDE DEF d, h
<1>5. Equity' = Equity /\ Cap' = Cap
  <2>1. Equity' = Equity
    BY <1>1, <1>2, <1>4, FillKeepsEquity
  <2> QED BY <2>1 DEF Cap
<1>6. HoldingsTypes'
  <2>1. cash' \in Int
    BY <1>1, <1>2, <1>3, <1>4 DEF HoldingsTypes
  <2> QED BY <1>1, <1>2, <1>4, <2>1 DEF HoldingsTypes
<1>7. /\ shares'[x] = shares[x] + d /\ last'[x] = "sold"
      /\ mark'[x] = mark[x] /\ chart'[x] = chart[x]
      /\ shares'[x] # 0 => cost'[x] = cost[x]
  BY <1>1, <1>4 DEF HoldingsTypes
<1>8. Equity > 0 => Whole * (shares'[x] * mark'[x]) <= Cap
  <2>1. CASE shares[x] + d = 0
    <3>1. Whole * (shares'[x] * mark'[x]) = 0
      BY <1>3, <1>7, <2>1 DEF Whole
    <3>2. Equity > 0 => Cap > 0
      BY <1>3, ProfileTypes DEF Cap
    <3> QED BY <1>3, <3>1, <3>2
  <2>2. CASE shares[x] + d # 0
    BY <1>2, <1>7, <2>2
  <2> QED BY <2>1, <2>2
<1>9. ASSUME shares'[x] # 0 PROVE SoldSettled(x)'
  <2>1. CASE Onside(h, Profile)
    <3>1. /\ h.cost = cost[x] /\ h.mark = mark[x] /\ h.chart = chart[x]
          /\ Holding(x)'.cost = cost[x] /\ Holding(x)'.mark = mark[x] /\ Holding(x)'.chart = chart[x]
      BY <1>7, <1>9 DEF Holding, h
    <3>2. RMultiple(Holding(x), Profile)' = RMultiple(h, Profile)
      BY <3>1 DEF RMultiple, Gain, Risked
    <3> QED BY <2>1, <3>2 DEF Onside, SoldSettled
  <2>2. CASE left <= Cap /\ Cap < left + Whole * mark[x]
    <3>1. shares'[x] * mark'[x] \in Int /\ left = Whole * (shares'[x] * mark'[x])
      BY <1>2, <1>3, <1>7
    <3>2. Whole * (shares'[x] * mark'[x] + mark'[x]) = left + Whole * mark[x]
      BY <1>3, <1>7, <3>1 DEF Whole
    <3> QED BY <1>5, <2>2, <3>2 DEF SoldSettled
  <2> QED BY <1>2, <1>7, <1>9, <2>1, <2>2
<1>10. ASSUME NEW y \in Symbols, shares'[y] # 0
       PROVE  /\ last'[y] = "added" => AddedSettled(y)'
              /\ last'[y] = "sold" => SoldSettled(y)'
  <2>1. CASE y = x
    BY <1>7, <1>9, <1>10, <2>1
  <2>2. CASE y # x
    <3>1. UNCHANGED <<mark[y], chart[y], cost[y], shares[y], last[y]>>
      BY <1>1, <1>4, <2>2 DEF HoldingsTypes
    <3> QED BY <1>5, <1>10, <3>1, Untouched
  <2> QED BY <2>1, <2>2
<1>11. Settled'
  BY <1>10 DEF Settled
<1> QED BY <1>5, <1>6, <1>8, <1>11 DEF HoldingsInv

LEMMA MoveStep ==
    ASSUME HoldingsInv, NEW x \in Symbols, NEW price \in Marks, NEW snapshot \in Charts,
           NEW quiet \in BOOLEAN, MarketMoves(x, price, snapshot, quiet)
    PROVE  HoldingsInv'
<1>1. Marks \subseteq Nat \ {0}
  BY HoldingsAssumption
<1>2. HoldingsTypes'
  BY <1>1 DEF MarketMoves, HoldingsInv, HoldingsTypes
<1>3. Settled'
  BY DEF MarketMoves, Settled
<1> QED BY <1>2, <1>3 DEF HoldingsInv

LEMMA HoldingsStep == HoldingsInv /\ [HoldingsNext]_holdingsVars => HoldingsInv'
<1> SUFFICES ASSUME HoldingsInv, [HoldingsNext]_holdingsVars PROVE HoldingsInv'
  OBVIOUS
<1>1. CASE UNCHANGED holdingsVars
  <2>1. HoldingsTypes'
    BY <1>1 DEF holdingsVars, HoldingsInv, HoldingsTypes
  <2>2. ASSUME NEW y \in Symbols, shares'[y] # 0
        PROVE  /\ last'[y] = "added" => AddedSettled(y)'
               /\ last'[y] = "sold" => SoldSettled(y)'
    <3>1. Equity' = Equity /\ UNCHANGED <<mark[y], chart[y], cost[y], shares[y], last[y]>>
      BY <1>1 DEF holdingsVars, Equity
    <3> QED BY <2>2, <3>1, Untouched
  <2>3. Settled'
    BY <2>2 DEF Settled
  <2> QED BY <2>1, <2>3 DEF HoldingsInv
<1> QED BY <1>1, AddStep, SellStep, MoveStep DEF HoldingsNext

LEMMA HoldingsStart == HoldingsInit => HoldingsInv
<1> SUFFICES ASSUME HoldingsInit PROVE HoldingsInv
  OBVIOUS
<1>1. /\ Opening.shares \in [Symbols -> Nat]
      /\ Opening.mark \in [Symbols -> Nat \ {0}]
      /\ Opening.cash \in Nat
  BY HoldingsAssumption
<1>2. HoldingsTypes
  BY <1>1 DEF HoldingsInit, HoldingsTypes
<1>3. Settled
  BY DEF HoldingsInit, Settled
<1> QED BY <1>2, <1>3 DEF HoldingsInv

LEMMA SettledNoWhipsaw == HoldingsInv => NoWhipsaw
<1> SUFFICES ASSUME HoldingsInv, NEW x \in Open(Book)
             PROVE  /\ last[x] = "added" => ~IsSell(AdviceOn(x))
                    /\ last[x] = "sold" => AdviceOn(x).action # "INCREASE"
  BY DEF NoWhipsaw
<1> DEFINE h == Holding(x)
<1>1. HoldingsTypes /\ x \in Symbols /\ shares[x] # 0
  BY DEF HoldingsInv, Open, Book
<1>2. /\ last[x] = "added" => AddedSettled(x)
      /\ last[x] = "sold" => SoldSettled(x)
  BY <1>1 DEF HoldingsInv, Settled
<1>3. shares[x] \in Nat /\ mark[x] \in Nat \ {0} /\ Equity \in Int /\ Cap \in Int /\ h.chart = chart[x]
  BY <1>1, Reviewed, EquityType, Weights
<1>4. ASSUME AddedSettled(x), IsSell(AdviceOn(x)) PROVE FALSE
  <2>1. /\ Judgeable(h) /\ chart[x].sma50 = TRUE /\ Gain(h) >= 0 /\ ~Onside(h, Profile)
        /\ Whole * (shares[x] * mark[x]) <= Cap
    BY <1>4 DEF AddedSettled
  <2>2. ShouldExit(h, Profile) \/ Outgrown(h, Book, Profile) \/ TargetReached(h, Profile)
    BY <1>4, Verdicts DEF AdviceOn
  <2>3. ~StopBreached(h, Profile) /\ ~TargetReached(h, Profile)
    BY <1>1, <2>1, Gains
  <2>4. ~TrendBroken(h)
    BY <1>3, <2>1 DEF TrendBroken
  <2>5. ~Outgrown(h, Book, Profile)
    <3>1. Whole * (shares[x] * mark[x]) \in Int
      BY <1>3 DEF Whole
    <3>2. ASSUME Outgrown(h, Book, Profile) PROVE FALSE
      <4>1. Equity > 0 /\ 2 * (Whole * (shares[x] * mark[x])) >= 2 * Cap + Equity
        BY <1>1, <3>2, Weights
      <4> HIDE DEF h
      <4> QED BY <1>3, <2>1, <3>1, <4>1
    <3> QED BY <3>2
  <2> QED BY <2>2, <2>3, <2>4, <2>5 DEF ShouldExit
<1>5. ASSUME SoldSettled(x), AdviceOn(x).action = "INCREASE" PROVE FALSE
  <2> DEFINE d == AdviceOn(x).delta
  <2>1. d \in Nat \ {0} /\ ~Onside(h, Profile) /\ Whole * ((shares[x] + d) * mark[x]) <= Cap
    BY <1>1, <1>5, Added
  <2>2. Cap < Whole * (shares[x] * mark[x] + mark[x])
    BY <1>5, <2>1 DEF SoldSettled
  <2> HIDE DEF d, h
  <2>3. shares[x] * mark[x] + mark[x] <= (shares[x] + d) * mark[x]
    <3>1. (shares[x] + d) * mark[x] = shares[x] * mark[x] + d * mark[x]
      BY <1>3, <2>1
    <3>2. d * mark[x] >= mark[x] /\ d * mark[x] \in Int /\ shares[x] * mark[x] \in Int
      BY <1>3, <2>1
    <3> QED BY <1>3, <3>1, <3>2
  <2>4. shares[x] * mark[x] + mark[x] \in Int /\ (shares[x] + d) * mark[x] \in Int
    BY <1>3, <2>1
  <2> QED BY <1>3, <2>1, <2>2, <2>3, <2>4 DEF Whole
<1> QED BY <1>2, <1>4, <1>5

(* While the market stands still the advice does not turn: what was added *)
(* on it is not sold on it, what was sold on it is not added back.        *)
THEOREM AdviceDoesNotTurn == HoldingsSpec => []NoWhipsaw
<1> QED BY HoldingsStart, HoldingsStep, SettledNoWhipsaw, PTL DEF HoldingsSpec
-----------------------------------------------------------------------------
(* Without margin the risk engine lets no addition spend more than the     *)
(* cash there is, and whoever holds a position has equity.                 *)
LEMMA NoMargin ==
    ASSUME Profile.max_portfolio_exposure_pct <= Whole,
           HoldingsInv, cash >= 0, [HoldingsNext]_holdingsVars
    PROVE  cash' >= 0
<1>1. HoldingsTypes /\ cash \in Int
  BY DEF HoldingsInv, HoldingsTypes
<1>2. ASSUME NEW x \in Symbols, FollowAdd(x) PROVE cash' >= 0
  <2> DEFINE d == AdviceOn(x).delta
             worth == [y \in Symbols |-> shares[y] * mark[y]]
             held  == [y \in Open(Book) |-> Value(Book, y)]
  <2>1. d \in Nat \ {0} /\ Equity > 0 /\ Approved(AdditionOrder(Holding(x), d), Book, Profile)
    BY <1>1, <1>2, Added DEF FollowAdd
  <2>2. Within(Total(Book, Open(Book)) + Notional(AdditionOrder(Holding(x), d)),
               Profile.max_portfolio_exposure_pct, Book)
    BY <2>1 DEF Approved, EntryRules, MaxPortfolioExposure, AdditionOrder
  <2>3. Notional(AdditionOrder(Holding(x), d)) = d * mark[x]
    BY <1>1, Reviewed DEF Notional, AdditionOrder
  <2>4. Total(Book, Open(Book)) = SumFunctionOnSet(held, Open(Book))
    BY DEF Total, SumFunction
  <2>5. Equity = cash + SumFunctionOnSet(worth, Symbols)
    BY DEF Equity, SumFunction
  <2>6. /\ \A y \in Symbols : worth[y] \in Int
        /\ \A y \in Symbols \ Open(Book) : worth[y] = 0
        /\ \A y \in Open(Book) : held[y] = worth[y]
        /\ Open(Book) \in SUBSET Symbols
    BY <1>1 DEF HoldingsTypes, Open, Book, Value
  <2>7. /\ d * mark[x] \in Int /\ Equity \in Int /\ Book.equity = Equity
        /\ cash' = cash - d * mark[x]
    BY <1>1, <1>2, <2>1, Reviewed, EquityType DEF FollowAdd
  <2> HIDE DEF worth, held, d
  <2>8. SumFunctionOnSet(worth, Symbols) = SumFunctionOnSet(worth, Open(Book))
    BY <2>6, SymbolsFinite, SumSupport
  <2>9. SumFunctionOnSet(held, Open(Book)) = SumFunctionOnSet(worth, Open(Book))
    <3>1. IsFiniteSet(Open(Book)) /\ \A y \in Open(Book) : held[y] \in Int
      BY <2>6, SymbolsFinite, FS_Subset
    <3> QED BY <2>6, <3>1, SumEqual
  <2>10. SumFunctionOnSet(worth, Symbols) \in Int
    BY <2>6, SymbolsFinite, SumRecursion
  <2> DEFINE total == SumFunctionOnSet(worth, Symbols)
             limit == Profile.max_portfolio_exposure_pct
  <2>11. Whole * (total + d * mark[x]) <= limit * Equity
    BY <2>2, <2>3, <2>4, <2>7, <2>8, <2>9 DEF Within
  <2>12. limit \in Int /\ limit <= Whole
    <3>1. limit \in 1 .. 2 * Whole
      BY HoldingsAssumption
    <3>2. \A n \in 1 .. 2 * Whole : n \in Int
      BY DEF Whole
    <3> QED BY <3>1, <3>2
  <2> HIDE DEF total, limit
  <2>13. limit * Equity <= Whole * Equity
    BY <2>1, <2>7, <2>12 DEF Whole
  <2>14. total + d * mark[x] <= Equity
    BY <2>7, <2>10, <2>11, <2>12, <2>13 DEF Whole, total
  <2> QED BY <1>1, <2>5, <2>7, <2>10, <2>14 DEF total
<1>3. ASSUME NEW x \in Symbols, FollowSell(x) PROVE cash' >= 0
  <2> DEFINE d == AdviceOn(x).delta
  <2>1. d < 0 /\ d \in Int /\ mark[x] \in Nat \ {0}
    BY <1>1, <1>3, Sold, Reviewed DEF FollowSell, IsSell
  <2>2. cash' = cash - d * mark[x]
    BY <1>3 DEF FollowSell
  <2> HIDE DEF d
  <2>3. d * mark[x] <= 0 /\ d * mark[x] \in Int
    BY <2>1
  <2> QED BY <1>1, <2>2, <2>3
<1>4. ASSUME UNCHANGED cash PROVE cash' >= 0
  BY <1>4
<1> QED BY <1>2, <1>3, <1>4 DEF HoldingsNext, MarketMoves, holdingsVars

LEMMA HeldHasEquity ==
    ASSUME HoldingsTypes, cash >= 0, NEW x \in Symbols, shares[x] # 0
    PROVE  Equity > 0
<1> DEFINE worth == [y \in Symbols |-> shares[y] * mark[y]]
<1>1. \A y \in Symbols : worth[y] \in Int /\ worth[y] >= 0
  BY DEF HoldingsTypes
<1>2. worth[x] > 0
  BY DEF HoldingsTypes
<1>3. Equity = cash + SumFunctionOnSet(worth, Symbols)
  BY DEF Equity, SumFunction
<1> HIDE DEF worth
<1>4. SumFunctionOnSet(worth, {x}) = worth[x]
  <2>1. IsFiniteSet({x}) /\ \A y \in {x} : worth[y] \in Int
    BY <1>1, FS_Singleton
  <2>2. \A y \in {x} : SumFunctionOnSet(worth, {x}) = worth[y] + SumFunctionOnSet(worth, {x} \ {y})
    BY <2>1, SumRecursion
  <2>3. SumFunctionOnSet(worth, {}) = 0
    BY <2>1, SumRecursion
  <2>4. {x} \ {x} = {} /\ worth[x] + 0 = worth[x]
    BY <1>1
  <2> QED BY <2>2, <2>3, <2>4
<1>5. SumFunctionOnSet(worth, {x}) <= SumFunctionOnSet(worth, Symbols)
  BY <1>1, SymbolsFinite, SumSubset
<1>6. SumFunctionOnSet(worth, Symbols) \in Int /\ cash \in Int
  BY <1>1, SymbolsFinite, SumRecursion DEF HoldingsTypes
<1> QED BY <1>1, <1>2, <1>3, <1>4, <1>5, <1>6

(* On a profile without margin (max_portfolio_exposure_pct at most 100, as *)
(* it is by default), every fill of the advice leaves the position within  *)
(* the size limit.                                                         *)
THEOREM FillsStayWithinCap ==
    ASSUME Profile.max_portfolio_exposure_pct <= Whole
    PROVE  HoldingsSpec => FillsRestoreCap
<1>1. HoldingsInit => HoldingsInv /\ cash >= 0
  <2>1. Opening.cash \in Nat
    BY HoldingsAssumption
  <2>2. HoldingsInit => cash >= 0
    BY <2>1 DEF HoldingsInit
  <2> QED BY <2>2, HoldingsStart
<1>2. HoldingsInv /\ cash >= 0 /\ [HoldingsNext]_holdingsVars => (HoldingsInv /\ cash >= 0)'
  BY HoldingsStep, NoMargin
<1>3. ASSUME HoldingsInv, cash >= 0, NEW x \in Symbols, FollowSell(x) \/ FollowAdd(x)
      PROVE  Whole * shares'[x] * mark[x] <= Profile.max_position_pct * Equity'
  <2>1. HoldingsTypes /\ shares[x] # 0
    BY <1>3 DEF HoldingsInv, FollowSell, FollowAdd, Open, Book
  <2>2. Equity > 0
    BY <1>3, <2>1, HeldHasEquity
  <2>3. /\ HoldingsInv' /\ Equity' = Equity
        /\ Whole * (shares'[x] * mark'[x]) <= Cap
    BY <1>3, <2>2, AddStep, SellStep
  <2>4. shares'[x] \in Nat /\ mark[x] \in Nat /\ mark'[x] = mark[x]
    BY <1>3, <2>1, <2>3 DEF HoldingsInv, HoldingsTypes, FollowSell, FollowAdd
  <2>5. Whole * shares'[x] * mark[x] = Whole * (shares'[x] * mark'[x])
    BY <2>4 DEF Whole
  <2> QED BY <2>3, <2>5 DEF Cap
<1>4. HoldingsInv /\ cash >= 0 /\ [HoldingsNext]_holdingsVars =>
          [\A x \in Symbols : FollowSell(x) \/ FollowAdd(x) =>
              Whole * shares'[x] * mark[x] <= Profile.max_position_pct * Equity']_holdingsVars
  BY <1>3
<1> QED BY <1>1, <1>2, <1>4, PTL DEF HoldingsSpec, FillsRestoreCap
=============================================================================
