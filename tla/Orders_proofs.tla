---------------------------- MODULE Orders_proofs ----------------------------
(***************************************************************************)
(* Proofs about the two ends of an automatic order.                        *)
(*                                                                         *)
(* RiskEngine, for any accounts, symbols, setups, prices and limits: the   *)
(* figures of the accounts add up, and a halt is acted on once.            *)
(*                                                                         *)
(* OrderPath, for any number of orders, attempts, polls, sessions and      *)
(* reports: one session whoever connects, updates that go to their order   *)
(* and never run ahead of the broker, and reports that are lost only for a *)
(* cause that is known.                                                    *)
(***************************************************************************)
EXTENDS RiskEngine, OrderPath, FiniteSetTheorems, TLAPS

-----------------------------------------------------------------------------
(* RiskEngine *)


\* The flattens, which RiskTypeOK leaves out.
Closings      == [sym : Symbols, qty : Nat, side : Sides]
FlattenStates == {NoFlatten} \cup
                 [stage : {"cancel", "close"}, acct : Accounts, day : Nat, todo : SUBSET Closings]

\* A flatten in progress belongs to a halt that still stands, or to a day before the
\* account's.
FlattenOfHalt ==
  /\ flatten \in [Tasks -> FlattenStates]
  /\ \A a \in Accounts : date[a] <= today
  /\ \A t \in Tasks : flatten[t] # NoFlatten =>
       /\ flatten[t].day <= date[flatten[t].acct]
       /\ flatten[t].day = date[flatten[t].acct] => halted[flatten[t].acct]

\* A plan that waits for the broker is the default account's; once that is halted, no
\* other has been let through since.
WaitingIsTheOne ==
  plan # NoSetup => /\ DefaultAccount \in Accounts
                    /\ halted[DefaultAccount] => late[DefaultAccount] = 0

HaltInv == HaltIsActedOnOnce /\ FlattenOfHalt /\ WaitingIsTheOne
RiskInv    == BookAddsUp /\ HaltInv

-----------------------------------------------------------------------------
(* The arithmetic of a fill *)

\* max() and min() as _apply_fill and the high-water mark use them.
LEMMA MaxOfTwo ==
  ASSUME NEW x \in Int, NEW y \in Int
  PROVE  /\ Max({x, y}) \in {x, y}
         /\ Max({x, y}) >= x /\ Max({x, y}) >= y
  <1>1. \E m \in {x, y} : \A z \in {x, y} : m >= z
    <2>1. CASE x >= y BY <2>1
    <2>2. CASE ~(x >= y) BY <2>2
    <2> QED BY <2>1, <2>2
  <1> QED BY <1>1 DEF Max

LEMMA MinOfTwo ==
  ASSUME NEW x \in Int, NEW y \in Int
  PROVE  /\ Min({x, y}) \in {x, y}
         /\ Min({x, y}) <= x /\ Min({x, y}) <= y
  <1>1. \E m \in {x, y} : \A z \in {x, y} : m =< z
    <2>1. CASE x <= y BY <2>1
    <2>2. CASE ~(x <= y) BY <2>2
    <2> QED BY <2>1, <2>2
  <1> QED BY <1>1 DEF Min

\* The average price of two lots is a price.
LEMMA AverageIsNat ==
  ASSUME NEW v \in Nat, NEW p \in Nat, NEW w \in Nat, NEW q \in Nat \ {0}
  PROVE  (v * p + w * q) \div (p + q) \in Nat
  <1> DEFINE m == v * p + w * q
             n == p + q
  <1>1. v * p \in Nat /\ w * q \in Nat
    OBVIOUS
  <1>2. m \in Nat /\ n \in Nat \ {0}
    BY <1>1
  <1> HIDE DEF m, n
  <1>3. m \div n \in Nat
    BY <1>2
  <1> QED BY <1>3 DEF m, n

\* _apply_fill keeps a position a position: what is closed never exceeds it.
LEMMA FillType ==
  ASSUME NEW pos \in Positions \cup {NoPosition}, NEW side \in Sides,
         NEW qty \in Nat \ {0}, NEW price \in Nat
  PROVE  /\ apply_fill(pos, side, qty, price).pos \in Positions \cup {NoPosition}
         /\ apply_fill(pos, side, qty, price).realized \in Int
         /\ pos = NoPosition => apply_fill(pos, side, qty, price).pos # NoPosition
  <1> DEFINE closed == Min({qty, pos.qty})
  <1>1. CASE pos = NoPosition
    BY <1>1, RiskConstants DEF apply_fill, Positions, Sides
  <1>2. CASE pos # NoPosition /\ pos.side # side
    <2>1. pos.qty \in Nat \ {0} /\ pos.avg \in Nat
      BY <1>2 DEF Positions
    <2>2. closed \in {qty, pos.qty} /\ closed <= pos.qty
      <3>1. qty \in Int /\ pos.qty \in Int
        BY <2>1
      <3> QED BY <3>1, MinOfTwo, Zenon
    <2>3. closed \in Nat
      BY <2>1, <2>2
    <2> HIDE DEF closed
    <2>4. (pos.avg - price) * closed \in Int /\ (price - pos.avg) * closed \in Int
      BY <2>1, <2>3
    <2>5. pos.qty # closed => [pos EXCEPT !.qty = @ - closed] \in Positions
      BY <1>2, <2>1, <2>2, <2>3 DEF Positions
    <2> QED BY <1>2, <2>4, <2>5 DEF apply_fill, closed
  <1>3. CASE pos # NoPosition /\ pos.side = side
    <2>1. pos.qty \in Nat \ {0} /\ pos.avg \in Nat
      BY <1>3 DEF Positions
    <2>2. (pos.avg * pos.qty + price * qty) \div (pos.qty + qty) \in Nat
      BY <2>1, AverageIsNat
    <2>3. pos.qty + qty \in Nat \ {0}
      BY <2>1
    <2> DEFINE average == (pos.avg * pos.qty + price * qty) \div (pos.qty + qty)
    <2>4. [pos EXCEPT !.qty = @ + qty, !.avg = average] \in Positions
      <3> HIDE DEF average
      <3> QED BY <1>3, <2>1, <2>2, <2>3 DEF Positions, average
    <2> QED BY <1>3, <2>4 DEF apply_fill
  <1> QED BY <1>1, <1>2, <1>3
-----------------------------------------------------------------------------
(* Halting *)

\* A halt starts at most one flatten, on an account that was not halted: a flatten the
\* other task still has on it is of an earlier day.
LEMMA HaltOnce ==
  ASSUME RiskTypeOK, HaltInv, NEW t \in Tasks, NEW a \in Accounts,
         check_halt(t, a), UNCHANGED <<today, date, plan>>
  PROVE  /\ halted' \in [Accounts -> BOOLEAN] /\ late' \in [Accounts -> Nat]
         /\ HaltInv'
  <1> USE DEF RiskTypeOK, HaltInv
  <1> DEFINE breach == kill_switch(realized'[a], unrealized'[a], high'[a])
             begun  == [stage |-> "cancel", acct |-> a, day |-> date[a], todo |-> {}]
  <1>1. CASE ~(breach /\ ~halted[a])
    <2>1. UNCHANGED <<halted, late, flatten>>
      BY <1>1 DEF check_halt
    <2> QED BY <2>1 DEF HaltIsActedOnOnce, AtMostOneLateEntry, OneFlattenPerHalt,
                        FlattenOfHalt, WaitingIsTheOne
  <1>2. CASE breach /\ ~halted[a]
    <2>1. /\ halted' = [halted EXCEPT ![a] = TRUE]
          /\ late' = [late EXCEPT ![a] = 0]
          /\ flatten' \in {flatten, [flatten EXCEPT ![t] = begun]}
      BY <1>2 DEF check_halt
    <2>2. AtMostOneLateEntry'
      BY <2>1 DEF HaltIsActedOnOnce, AtMostOneLateEntry
    <2>3. WaitingIsTheOne'
      BY <2>1 DEF WaitingIsTheOne
    <2>4. begun \in FlattenStates
      BY DEF FlattenStates
    <2>5. FlattenOfHalt'
      <3>1. flatten' \in [Tasks -> FlattenStates]
        BY <2>1, <2>4 DEF FlattenOfHalt
      <3>2. ASSUME NEW u \in Tasks, flatten'[u] # NoFlatten
            PROVE  /\ flatten'[u].acct \in Accounts
                   /\ flatten'[u].day <= date[flatten'[u].acct]
                   /\ flatten'[u].day = date[flatten'[u].acct] => halted'[flatten'[u].acct]
        <4>1. CASE flatten'[u] = begun
          BY <4>1, <2>1
        <4>2. CASE flatten'[u] = flatten[u]
          <5>1. flatten[u].acct \in Accounts
            BY <3>2, <4>2 DEF FlattenOfHalt, FlattenStates
          <5> QED BY <3>2, <4>2, <5>1, <2>1 DEF FlattenOfHalt
        <4> QED BY <4>1, <4>2, <2>1 DEF FlattenOfHalt
      <3> QED BY <3>1, <3>2 DEF FlattenOfHalt
    <2>6. OneFlattenPerHalt'
      <3>1. ASSUME NEW u \in Tasks, u # t, flatten[u] # NoFlatten, flatten[u].acct = a
            PROVE  flatten[u].day # date[a]
        BY <1>2, <3>1 DEF FlattenOfHalt
      <3>2. CASE flatten' = flatten
        BY <3>2 DEF HaltIsActedOnOnce, OneFlattenPerHalt
      <3>3. CASE flatten' = [flatten EXCEPT ![t] = begun]
        <4>1. flatten'[t] = begun /\ \A u \in Tasks : u # t => flatten'[u] = flatten[u]
          BY <3>3 DEF FlattenOfHalt
        <4> QED BY <3>1, <4>1 DEF OneFlattenPerHalt, Tasks
      <3> QED BY <2>1, <3>2, <3>3
    <2> QED BY <2>1, <2>2, <2>3, <2>5, <2>6 DEF HaltIsActedOnOnce
  <1> QED BY <1>1, <1>2

\* The steps of a flatten end it or shorten its list; they never start one.
LEMMA FlattenStep ==
  ASSUME BookAddsUp, HaltInv, NEW t \in Tasks, Flatten(t)
  PROVE  BookAddsUp' /\ HaltInv'
  <1>1. /\ UNCHANGED <<today, money, plan, seen, late, syncing, left, fills>>
        /\ flatten[t] # NoFlatten
    BY DEF Flatten, FlattenCancel, FlattenFails, FlattenClose, NoFlatten
  <1>2. /\ flatten[t] \in [stage : {"cancel", "close"}, acct : Accounts, day : Nat,
                           todo : SUBSET Closings]
        /\ flatten \in [Tasks -> FlattenStates]
    BY <1>1 DEF HaltInv, FlattenOfHalt, FlattenStates
  <1>3. \E next \in FlattenStates :
          /\ flatten' = [flatten EXCEPT ![t] = next]
          /\ next # NoFlatten => next.acct = flatten[t].acct /\ next.day = flatten[t].day
    <2>1. NoFlatten \in FlattenStates
      BY DEF FlattenStates
    <2>2. CASE FlattenCancel(t)
      <3> DEFINE a == flatten[t].acct
                 todo == {[sym |-> s, qty |-> book[a][s].qty,
                           side |-> IF book[a][s].side = "BUY" THEN "SELL" ELSE "BUY"] :
                            s \in {x \in Symbols : book[a][x] # NoPosition}}
                 next == IF todo = {} THEN NoFlatten
                         ELSE [flatten[t] EXCEPT !.stage = "close", !.todo = todo]
      <3>1. a \in Accounts
        BY <1>2
      <3>2. \A s \in Symbols : book[a][s] # NoPosition => book[a][s].qty \in Nat
        BY <3>1 DEF BookAddsUp, RiskTypeOK, Positions
      <3>3. todo \in SUBSET Closings
        BY <3>2 DEF Closings, Sides
      <3>4. flatten' = [flatten EXCEPT ![t] = next]
        BY <2>2 DEF FlattenCancel
      <3> HIDE DEF todo
      <3>5. next \in FlattenStates /\ (next # NoFlatten => next.acct = a /\ next.day = flatten[t].day)
        BY <1>2, <3>3, <2>1 DEF FlattenStates
      <3> QED BY <3>4, <3>5
    <2>3. CASE FlattenFails(t)
      BY <2>1, <2>3 DEF FlattenFails
    <2>4. CASE FlattenClose(t)
      <3>1. PICK c \in flatten[t].todo :
              LET rest == flatten[t].todo \ {c}
              IN  flatten' = [flatten EXCEPT ![t] = IF rest = {} THEN NoFlatten
                                                    ELSE [@ EXCEPT !.todo = rest]]
        BY <2>4 DEF FlattenClose
      <3> DEFINE rest == flatten[t].todo \ {c}
                 next == IF rest = {} THEN NoFlatten ELSE [flatten[t] EXCEPT !.todo = rest]
      <3>2. flatten' = [flatten EXCEPT ![t] = next]
        BY <3>1
      <3>3. next \in FlattenStates
            /\ (next # NoFlatten => next.acct = flatten[t].acct /\ next.day = flatten[t].day)
        BY <1>2, <2>1 DEF FlattenStates
      <3> QED BY <3>2, <3>3
    <2> QED BY <2>2, <2>3, <2>4 DEF Flatten
  <1>4. BookAddsUp'
    BY <1>1 DEF BookAddsUp, RiskTypeOK, OpenCountMatchesBook, HighWaterCovers, current_pnl, money
  <1>5. PICK next \in FlattenStates :
          /\ flatten' = [flatten EXCEPT ![t] = next]
          /\ next # NoFlatten => next.acct = flatten[t].acct /\ next.day = flatten[t].day
    BY <1>3
  <1>6. \A u \in Tasks : flatten'[u] # NoFlatten =>
          /\ flatten[u] # NoFlatten
          /\ flatten'[u].acct = flatten[u].acct /\ flatten'[u].day = flatten[u].day
    BY <1>1, <1>2, <1>5
  <1>7. FlattenOfHalt'
    <2>1. flatten' \in [Tasks -> FlattenStates]
      BY <1>2, <1>5
    <2> QED BY <1>1, <1>6, <2>1 DEF HaltInv, FlattenOfHalt, money
  <1>8. OneFlattenPerHalt'
    BY <1>6 DEF HaltInv, HaltIsActedOnOnce, OneFlattenPerHalt, Tasks
  <1>9. AtMostOneLateEntry' /\ WaitingIsTheOne'
    BY <1>1 DEF HaltInv, HaltIsActedOnOnce, AtMostOneLateEntry, WaitingIsTheOne, money
  <1> QED BY <1>4, <1>7, <1>8, <1>9 DEF HaltInv, HaltIsActedOnOnce
-----------------------------------------------------------------------------
(* Fills *)

Occupied(b) == {s \in Symbols : b[s] # NoPosition}

\* One entry of the book changes the number of entries by one or not at all.
LEMMA EntryCount ==
  ASSUME NEW b \in [Symbols -> Positions \cup {NoPosition}], NEW sym \in Symbols,
         NEW pos \in Positions \cup {NoPosition}
  PROVE  LET n == Cardinality(Occupied(b))
             m == Cardinality(Occupied([b EXCEPT ![sym] = pos]))
         IN  /\ n \in Nat
             /\ b[sym] = NoPosition /\ pos # NoPosition => m = n + 1
             /\ b[sym] # NoPosition /\ pos = NoPosition => n > 0 /\ m = n - 1
             /\ (b[sym] = NoPosition <=> pos = NoPosition) => m = n
  <1> DEFINE c == [b EXCEPT ![sym] = pos]
             n == Cardinality(Occupied(b))
             m == Cardinality(Occupied(c))
  <1>1. IsFiniteSet(Occupied(b))
    BY RiskConstants, FS_Subset DEF Occupied
  <1>2. n \in Nat
    BY <1>1, FS_CardinalityType
  <1>3. ASSUME b[sym] = NoPosition, pos # NoPosition
        PROVE  m = n + 1
    <2>1. Occupied(c) = Occupied(b) \cup {sym} /\ sym \notin Occupied(b)
      BY <1>3 DEF Occupied
    <2> QED BY <1>1, <2>1, FS_AddElement
  <1>4. ASSUME b[sym] # NoPosition, pos = NoPosition
        PROVE  n > 0 /\ m = n - 1
    <2>1. Occupied(c) = Occupied(b) \ {sym} /\ sym \in Occupied(b)
      BY <1>4 DEF Occupied
    <2>2. n # 0
      BY <1>1, <2>1, FS_EmptySet
    <2>3. m = n - 1
      BY <1>1, <2>1, FS_RemoveElement
    <2> HIDE DEF m, n
    <2> QED BY <1>2, <2>2, <2>3
  <1>5. ASSUME b[sym] = NoPosition <=> pos = NoPosition
        PROVE  m = n
    <2>1. Occupied(c) = Occupied(b)
      BY <1>5 DEF Occupied
    <2> QED BY <2>1
  <1> QED BY <1>2, <1>3, <1>4, <1>5

\* A fill keeps the count with the book and the high-water mark with the P&L.
LEMMA FillStep ==
  ASSUME RiskInv, NEW a \in ReportedAccounts, NEW sym \in Symbols, NEW side \in Sides,
         NEW q \in Quantities, NEW price \in Prices, HandleFill(a, sym, side, q, price)
  PROVE  RiskInv'
  <1> USE DEF RiskInv
  <1>1. CASE a \notin Accounts
    <2>1. UNCHANGED riskVars
      BY <1>1 DEF HandleFill, riskVars
    <2> QED BY <2>1 DEF riskVars, money, BookAddsUp, RiskTypeOK, OpenCountMatchesBook, HighWaterCovers,
          current_pnl, HaltInv, HaltIsActedOnOnce, AtMostOneLateEntry, OneFlattenPerHalt,
          FlattenOfHalt, WaitingIsTheOne
  <1>2. CASE a \in Accounts
    <2> DEFINE f == apply_fill(book[a][sym], side, q, price)
    <2>1. /\ book' = [book EXCEPT ![a][sym] = f.pos]
          /\ open' = [open EXCEPT ![a] =
                        IF book[a][sym] = NoPosition THEN @ + 1
                        ELSE IF f.pos = NoPosition THEN Max({0, @ - 1}) ELSE @]
          /\ realized' = [realized EXCEPT ![a] = @ + f.realized]
          /\ high' = [high EXCEPT ![a] = Max({@, realized'[a] + unrealized[a]})]
          /\ fills' = fills + 1 /\ check_halt("fill", a)
          /\ UNCHANGED <<unrealized, date, today, plan, seen, syncing, left>>
      BY <1>2 DEF HandleFill
    <2>2. /\ book[a] \in [Symbols -> Positions \cup {NoPosition}]
          /\ q \in Nat \ {0} /\ price \in Nat
      BY <1>2, RiskConstants DEF BookAddsUp, RiskTypeOK
    <2>3. /\ f.pos \in Positions \cup {NoPosition} /\ f.realized \in Int
          /\ book[a][sym] = NoPosition => f.pos # NoPosition
      BY <2>2, FillType
    <2> HIDE DEF f
    <2>4. HaltInv' /\ halted' \in [Accounts -> BOOLEAN] /\ late' \in [Accounts -> Nat]
      BY <1>2, <2>1, HaltOnce DEF BookAddsUp, Tasks
    <2>5. realized' \in [Accounts -> Int] /\ realized'[a] + unrealized[a] \in Int
      BY <1>2, <2>1, <2>3 DEF BookAddsUp, RiskTypeOK
    <2>6. high' \in [Accounts -> Int] /\ HighWaterCovers'
      <3> DEFINE pnl == realized'[a] + unrealized[a]
      <3>1. /\ Max({high[a], pnl}) \in Int
            /\ Max({high[a], pnl}) >= high[a] /\ Max({high[a], pnl}) >= pnl
        <4>1. high[a] \in Int
          BY <1>2 DEF BookAddsUp, RiskTypeOK
        <4> QED BY <4>1, <2>5, MaxOfTwo
      <3>2. high' = [high EXCEPT ![a] = Max({high[a], pnl})]
        BY <2>1
      <3> HIDE DEF pnl
      <3>3. high' \in [Accounts -> Int]
        BY <3>1, <3>2 DEF BookAddsUp, RiskTypeOK
      <3>4. ASSUME NEW b \in Accounts
            PROVE  high'[b] >= realized'[b] + unrealized[b] /\ high'[b] >= 0
        <4>1. CASE b = a
          BY <4>1, <3>1, <3>2 DEF BookAddsUp, RiskTypeOK, HighWaterCovers, pnl
        <4>2. CASE b # a
          BY <4>2, <2>1, <3>2 DEF BookAddsUp, RiskTypeOK, HighWaterCovers, current_pnl
        <4> QED BY <4>1, <4>2
      <3> QED BY <2>1, <3>3, <3>4 DEF HighWaterCovers, current_pnl
    <2>7. book' \in [Accounts -> [Symbols -> Positions \cup {NoPosition}]]
      BY <2>1, <2>3 DEF BookAddsUp, RiskTypeOK
    <2>8. open' \in [Accounts -> Nat] /\ OpenCountMatchesBook'
      <3>1. open[a] \in Nat /\ open[a] = Cardinality(Occupied(book[a]))
        BY <1>2 DEF BookAddsUp, RiskTypeOK, OpenCountMatchesBook, Occupied
      <3>2. book'[a] = [book[a] EXCEPT ![sym] = f.pos]
        BY <1>2, <2>1, <2>2 DEF BookAddsUp, RiskTypeOK
      <3>3. Max({0, open[a] - 1}) \in Nat /\ (open[a] > 0 => Max({0, open[a] - 1}) = open[a] - 1)
        <4>1. open[a] - 1 \in Int /\ 0 \in Int
          BY <3>1
        <4>2. /\ Max({0, open[a] - 1}) \in {0, open[a] - 1}
              /\ Max({0, open[a] - 1}) >= 0 /\ Max({0, open[a] - 1}) >= open[a] - 1
          BY <4>1, MaxOfTwo
        <4> QED BY <4>1, <4>2, <3>1
      <3> DEFINE entries == IF book[a][sym] = NoPosition THEN open[a] + 1
                            ELSE IF f.pos = NoPosition THEN Max({0, open[a] - 1}) ELSE open[a]
      <3>4. open' = [open EXCEPT ![a] = entries]
        BY <2>1
      <3>5. entries \in Nat
        BY <3>1, <3>3
      <3>6. entries = Cardinality(Occupied(book'[a]))
        <4>1. LET n == open[a]
                  m == Cardinality(Occupied(book'[a]))
              IN  /\ book[a][sym] = NoPosition /\ f.pos # NoPosition => m = n + 1
                  /\ book[a][sym] # NoPosition /\ f.pos = NoPosition => n > 0 /\ m = n - 1
                  /\ (book[a][sym] = NoPosition <=> f.pos = NoPosition) => m = n
          BY <2>2, <2>3, <3>1, <3>2, EntryCount
        <4> QED BY <2>3, <3>3, <4>1
      <3> HIDE DEF entries
      <3>7. open' \in [Accounts -> Nat]
        BY <3>4, <3>5 DEF BookAddsUp, RiskTypeOK
      <3>8. ASSUME NEW b \in Accounts PROVE open'[b] = Cardinality(Occupied(book'[b]))
        <4>1. CASE b = a
          BY <4>1, <3>4, <3>6 DEF BookAddsUp, RiskTypeOK
        <4>2. CASE b # a
          BY <4>2, <2>1, <3>4 DEF BookAddsUp, RiskTypeOK, OpenCountMatchesBook, Occupied
        <4> QED BY <4>1, <4>2
      <3> QED BY <3>7, <3>8 DEF OpenCountMatchesBook, Occupied
    <2>9. RiskTypeOK'
      BY <2>1, <2>4, <2>5, <2>6, <2>7, <2>8 DEF BookAddsUp, RiskTypeOK
    <2> QED BY <2>4, <2>6, <2>8, <2>9 DEF BookAddsUp
  <1> QED BY <1>1, <1>2
-----------------------------------------------------------------------------
(* Setups *)

\* A plan is let through only while the account is not halted.
LEMMA SetupStep ==
  ASSUME RiskInv, NEW s \in Setups, NEW active \in BOOLEAN, NEW l \in Levels,
         HandleSetup(s, active, l)
  PROVE  RiskInv'
  <1>1. /\ plan' \in Setups \cup {NoSetup} /\ seen' \subseteq Setups
        /\ plan' # NoSetup => DefaultAccount \in Accounts /\ ~halted[DefaultAccount]
        /\ UNCHANGED <<today, money, late, syncing, left, flatten, fills>>
    BY DEF HandleSetup, may_plan, RiskInv, BookAddsUp, RiskTypeOK
  <1>2. BookAddsUp'
    BY <1>1 DEF RiskInv, BookAddsUp, RiskTypeOK, OpenCountMatchesBook, HighWaterCovers, current_pnl, money
  <1>3. WaitingIsTheOne'
    BY <1>1 DEF WaitingIsTheOne, money
  <1>4. HaltIsActedOnOnce' /\ FlattenOfHalt'
    BY <1>1 DEF RiskInv, HaltInv, HaltIsActedOnOnce, AtMostOneLateEntry, OneFlattenPerHalt,
                FlattenOfHalt, money
  <1> QED BY <1>2, <1>3, <1>4 DEF RiskInv, HaltInv

\* The plan that waited when the account was halted is the one late entry.
LEMMA PlaceStep ==
  ASSUME RiskInv, NEW ok \in BOOLEAN, PlaceOrder(ok)
  PROVE  RiskInv'
  <1>1. /\ plan # NoSetup /\ plan' = NoSetup
        /\ late' = IF ok /\ halted[DefaultAccount] THEN [late EXCEPT ![DefaultAccount] = @ + 1]
                   ELSE late
        /\ UNCHANGED <<today, money, seen, syncing, left, flatten, fills>>
    BY DEF PlaceOrder
  <1>2. DefaultAccount \in Accounts /\ (halted[DefaultAccount] => late[DefaultAccount] = 0)
    BY <1>1 DEF RiskInv, HaltInv, WaitingIsTheOne
  <1>3. late' \in [Accounts -> Nat]
    BY <1>1, <1>2 DEF RiskInv, BookAddsUp, RiskTypeOK
  <1>4. BookAddsUp'
    BY <1>1, <1>3 DEF RiskInv, BookAddsUp, RiskTypeOK, OpenCountMatchesBook, HighWaterCovers,
                      current_pnl, money
  <1>5. AtMostOneLateEntry'
    BY <1>1, <1>2 DEF RiskInv, BookAddsUp, RiskTypeOK, HaltInv, HaltIsActedOnOnce, AtMostOneLateEntry, money
  <1>6. WaitingIsTheOne'
    BY <1>1 DEF WaitingIsTheOne
  <1>7. OneFlattenPerHalt' /\ FlattenOfHalt'
    BY <1>1 DEF RiskInv, HaltInv, HaltIsActedOnOnce, OneFlattenPerHalt, FlattenOfHalt, money
  <1> QED BY <1>4, <1>5, <1>6, <1>7 DEF RiskInv, HaltInv, HaltIsActedOnOnce

-----------------------------------------------------------------------------
(* The broker sync loop *)

\* A rollover lifts a halt only together with the day it belongs to.
LEMMA RoundStep ==
  ASSUME RiskInv, NEW connected \in BOOLEAN, SyncRound(connected)
  PROVE  RiskInv'
  <1> DEFINE S == {a \in Accounts : date[a] # today}
  <1> USE DEF RiskInv
  <1>1. /\ date' = [a \in Accounts |-> today]
        /\ realized' = [a \in Accounts |-> IF a \in S THEN 0 ELSE realized[a]]
        /\ unrealized' = [a \in Accounts |-> IF a \in S THEN 0 ELSE unrealized[a]]
        /\ high' = [a \in Accounts |-> IF a \in S THEN 0 ELSE high[a]]
        /\ open' = [a \in Accounts |-> IF a \in S THEN 0 ELSE open[a]]
        /\ halted' = [a \in Accounts |-> halted[a] /\ a \notin S]
        /\ book' = [a \in Accounts |-> IF a \in S THEN [s \in Symbols |-> NoPosition] ELSE book[a]]
        /\ left' \in {Accounts, {}}
        /\ UNCHANGED <<today, plan, seen, late, syncing, flatten, fills>>
    BY DEF SyncRound, rollover
  <1>2. RiskTypeOK'
    <2>1. /\ realized' \in [Accounts -> Int] /\ unrealized' \in [Accounts -> Int]
          /\ high' \in [Accounts -> Int] /\ open' \in [Accounts -> Nat]
          /\ date' \in [Accounts -> Nat]
      BY <1>1 DEF BookAddsUp, RiskTypeOK
    <2>2. halted' \in [Accounts -> BOOLEAN]
      BY <1>1
    <2>3. book' \in [Accounts -> [Symbols -> Positions \cup {NoPosition}]]
      BY <1>1 DEF BookAddsUp, RiskTypeOK
    <2> QED BY <1>1, <2>1, <2>2, <2>3 DEF BookAddsUp, RiskTypeOK
  <1>3. OpenCountMatchesBook'
    <2>1. Occupied([s \in Symbols |-> NoPosition]) = {}
      BY DEF Occupied
    <2>2. ASSUME NEW a \in Accounts PROVE open'[a] = Cardinality(Occupied(book'[a]))
      <3>1. CASE a \in S
        BY <1>1, <2>1, <3>1, FS_EmptySet
      <3>2. CASE a \notin S
        BY <1>1, <3>2 DEF BookAddsUp, OpenCountMatchesBook, Occupied
      <3> QED BY <3>1, <3>2
    <2> QED BY <2>2 DEF OpenCountMatchesBook, Occupied
  <1>4. HighWaterCovers'
    BY <1>1 DEF BookAddsUp, RiskTypeOK, HighWaterCovers, current_pnl
  <1>5. AtMostOneLateEntry' /\ OneFlattenPerHalt' /\ WaitingIsTheOne'
    BY <1>1 DEF HaltInv, HaltIsActedOnOnce, AtMostOneLateEntry, OneFlattenPerHalt, WaitingIsTheOne
  <1>6. FlattenOfHalt'
    <2>1. ASSUME NEW t \in Tasks, flatten[t] # NoFlatten
          PROVE  /\ flatten[t].day <= today
                 /\ flatten[t].day = today => halted'[flatten[t].acct]
      <3>1. flatten[t].acct \in Accounts /\ flatten[t].day \in Nat
        BY <2>1 DEF HaltInv, FlattenOfHalt, FlattenStates
      <3>2. /\ flatten[t].day <= date[flatten[t].acct] /\ date[flatten[t].acct] <= today
            /\ flatten[t].day = date[flatten[t].acct] => halted[flatten[t].acct]
        BY <2>1, <3>1 DEF HaltInv, FlattenOfHalt
      <3>3. date[flatten[t].acct] \in Nat /\ today \in Nat
        BY <3>1 DEF BookAddsUp, RiskTypeOK
      <3>4. flatten[t].day = today => date[flatten[t].acct] = today
        BY <3>1, <3>2, <3>3
      <3>5. flatten[t].day = today => halted'[flatten[t].acct]
        BY <1>1, <3>1, <3>2, <3>4
      <3>6. flatten[t].day <= today
        BY <3>1, <3>2, <3>3
      <3> QED BY <3>5, <3>6
    <2>2. \A t \in Tasks : flatten[t] # NoFlatten => flatten[t].acct \in Accounts
      BY DEF HaltInv, FlattenOfHalt, FlattenStates
    <2>3. today \in Nat
      BY DEF BookAddsUp, RiskTypeOK
    <2>4. \A a \in Accounts : date'[a] = today /\ date'[a] <= today'
      BY <1>1, <2>3
    <2> QED BY <1>1, <2>1, <2>2, <2>4 DEF HaltInv, FlattenOfHalt
  <1> QED BY <1>2, <1>3, <1>4, <1>5, <1>6 DEF BookAddsUp, HaltInv, HaltIsActedOnOnce

\* Broker figures raise the high-water mark with them.
LEMMA PnlStep ==
  ASSUME RiskInv, NEW a \in Accounts, NEW r \in Int, NEW u \in Int, SyncPnl(a, r, u)
  PROVE  RiskInv'
  <1> USE DEF RiskInv
  <1>1. /\ left' = left \ {a}
        /\ realized' = [realized EXCEPT ![a] = r]
        /\ unrealized' = [unrealized EXCEPT ![a] = u]
        /\ high' = [high EXCEPT ![a] = Max({@, r + u})]
        /\ syncing' = [acct |-> a, stage |-> "summary"]
        /\ UNCHANGED <<today, date, halted, open, book, plan, seen, late, flatten, fills>>
    BY DEF SyncPnl
  <1>2. high[a] \in Int /\ r + u \in Int
    BY DEF BookAddsUp, RiskTypeOK
  <1>3. /\ Max({high[a], r + u}) \in Int
        /\ Max({high[a], r + u}) >= high[a] /\ Max({high[a], r + u}) >= r + u
    BY <1>2, MaxOfTwo
  <1>4. /\ realized' \in [Accounts -> Int] /\ unrealized' \in [Accounts -> Int]
        /\ high' \in [Accounts -> Int]
    BY <1>1, <1>3 DEF BookAddsUp, RiskTypeOK
  <1>5. RiskTypeOK'
    BY <1>1, <1>4 DEF BookAddsUp, RiskTypeOK
  <1>6. HighWaterCovers'
    BY <1>1, <1>2, <1>3 DEF BookAddsUp, RiskTypeOK, HighWaterCovers, current_pnl
  <1>7. OpenCountMatchesBook'
    BY <1>1 DEF BookAddsUp, OpenCountMatchesBook
  <1>8. HaltInv'
    BY <1>1 DEF HaltInv, HaltIsActedOnOnce, AtMostOneLateEntry, OneFlattenPerHalt, FlattenOfHalt,
                WaitingIsTheOne
  <1> QED BY <1>5, <1>6, <1>7, <1>8 DEF BookAddsUp

\* The kill switch is checked on the figures as they are when the summary is there.
LEMMA SummaryStep ==
  ASSUME RiskInv, SyncSummary
  PROVE  RiskInv'
  <1> USE DEF RiskInv
  <1>1. /\ syncing.stage = "summary" /\ syncing' = Idle
        /\ check_halt("sync", syncing.acct)
        /\ UNCHANGED <<date, realized, unrealized, high, open, book, today, plan, seen, left, fills>>
    BY DEF SyncSummary
  <1>2. syncing.acct \in Accounts
    BY <1>1 DEF BookAddsUp, RiskTypeOK, Idle
  <1>3. HaltInv' /\ halted' \in [Accounts -> BOOLEAN] /\ late' \in [Accounts -> Nat]
    BY <1>1, <1>2, HaltOnce DEF BookAddsUp, Tasks
  <1>4. BookAddsUp'
    BY <1>1, <1>3 DEF BookAddsUp, RiskTypeOK, OpenCountMatchesBook, HighWaterCovers, current_pnl
  <1> QED BY <1>3, <1>4

\* What changes neither the figures of an account nor a halt nor a flatten.
LEMMA OtherStep ==
  ASSUME RiskInv,
         \/ \E a \in Accounts : SyncPnlFails(a)
         \/ SyncSummaryFails
         \/ NewDay
         \/ UNCHANGED riskVars
  PROVE  RiskInv'
  <1> USE DEF RiskInv
  <1>1. /\ UNCHANGED <<money, plan, seen, late, flatten, fills>>
        /\ left' \subseteq Accounts /\ syncing' \in {syncing, Idle}
        /\ today' \in {today, today + 1}
    BY DEF SyncPnlFails, SyncSummaryFails, NewDay, riskVars, BookAddsUp, RiskTypeOK
  <1>2. BookAddsUp'
    BY <1>1 DEF BookAddsUp, RiskTypeOK, OpenCountMatchesBook, HighWaterCovers, current_pnl, money
  <1>3. FlattenOfHalt'
    BY <1>1 DEF BookAddsUp, RiskTypeOK, HaltInv, FlattenOfHalt, money
  <1>4. HaltIsActedOnOnce' /\ WaitingIsTheOne'
    BY <1>1 DEF HaltInv, HaltIsActedOnOnce, AtMostOneLateEntry, OneFlattenPerHalt, WaitingIsTheOne, money
  <1> QED BY <1>2, <1>3, <1>4 DEF HaltInv

-----------------------------------------------------------------------------
\* The contexts _build_account_contexts creates.
LEMMA RiskInvInit == RiskInit => RiskInv
  <1> SUFFICES ASSUME RiskInit PROVE RiskInv
    OBVIOUS
  <1> USE DEF RiskInit
  <1>1. RiskTypeOK
    BY DEF RiskTypeOK
  <1>2. OpenCountMatchesBook
    <2>1. \A a \in Accounts : {s \in Symbols : book[a][s] # NoPosition} = {}
      OBVIOUS
    <2> QED BY <2>1, FS_EmptySet DEF OpenCountMatchesBook
  <1>3. HighWaterCovers
    BY DEF HighWaterCovers, current_pnl
  <1>4. HaltIsActedOnOnce
    BY DEF HaltIsActedOnOnce, AtMostOneLateEntry, OneFlattenPerHalt, Tasks
  <1>5. FlattenOfHalt
    BY DEF FlattenOfHalt, FlattenStates
  <1>6. WaitingIsTheOne
    BY DEF WaitingIsTheOne
  <1> QED BY <1>1, <1>2, <1>3, <1>4, <1>5, <1>6 DEF RiskInv, BookAddsUp, HaltInv

\* Every step of the three tasks keeps the invariant.
LEMMA RiskInvStep == RiskInv /\ [RiskNext]_riskVars => RiskInv'
  <1> SUFFICES ASSUME RiskInv, [RiskNext]_riskVars PROVE RiskInv'
    OBVIOUS
  <1>1. CASE \E s \in Setups, active \in BOOLEAN, l \in Levels : HandleSetup(s, active, l)
    BY <1>1, SetupStep
  <1>2. CASE \E ok \in BOOLEAN : PlaceOrder(ok)
    BY <1>2, PlaceStep
  <1>3. CASE \E a \in ReportedAccounts, sym \in Symbols, side \in Sides, q \in Quantities,
                p \in Prices : HandleFill(a, sym, side, q, p)
    BY <1>3, FillStep
  <1>4. CASE Flatten("fill")
    BY <1>4, FlattenStep DEF RiskInv, Tasks
  <1>5. CASE SyncTask
    <2>1. CASE \E c \in BOOLEAN : SyncRound(c)
      BY <2>1, RoundStep
    <2>2. CASE \E a \in Accounts, f \in PnLs : SyncPnl(a, f[1], f[2])
      <3>1. PICK a \in Accounts, f \in PnLs : SyncPnl(a, f[1], f[2])
        BY <2>2
      <3>2. f[1] \in Int /\ f[2] \in Int
        BY <3>1, RiskConstants
      <3> QED BY <3>1, <3>2, PnlStep
    <2>3. CASE (\E a \in Accounts : SyncPnlFails(a)) \/ SyncSummaryFails
      BY <2>3, OtherStep
    <2>4. CASE SyncSummary
      BY <2>4, SummaryStep
    <2>5. CASE Flatten("sync")
      BY <2>5, FlattenStep DEF RiskInv, Tasks
    <2> QED BY <1>5, <2>1, <2>2, <2>3, <2>4, <2>5 DEF SyncTask
  <1>6. CASE NewDay \/ UNCHANGED riskVars
    BY <1>6, OtherStep
  <1> QED BY <1>1, <1>2, <1>3, <1>4, <1>5, <1>6 DEF RiskNext

\* The figures, the flattens and the waiting plan together, over all steps.
THEOREM RiskInvHolds == RiskSpec => []RiskInv
  BY RiskInvInit, RiskInvStep, PTL DEF RiskSpec

\* The figures the kill switch works with add up over fills, closes, broker figures and
\* rollovers: the count of open positions with the book, the high-water mark with the
\* P&L (_apply_fill, _handle_order_update, _sync_broker_pnl, _check_day_rollover).
THEOREM FiguresAddUp == RiskSpec => []BookAddsUp
  <1>1. RiskInv => BookAddsUp
    BY DEF RiskInv
  <1> QED BY <1>1, RiskInvHolds, PTL

\* Whichever of the two tasks sees a breach, a halt starts one flatten a day and lets
\* through at most the entry that was already waiting (_trigger_halt, _flatten_account,
\* submit_plan).
THEOREM HaltsOnce == RiskSpec => []HaltIsActedOnOnce
  <1>1. RiskInv => HaltIsActedOnOnce
    BY DEF RiskInv, HaltInv
  <1> QED BY <1>1, RiskInvHolds, PTL

-----------------------------------------------------------------------------
(* OrderPath *)

CallStates == {"new", "waiting", "connecting", "sleeping", "done", "failed"}
BrokerStatuses == {"PendingSubmit", "PreSubmitted", "Submitted", "PendingCancel",
                 "Filled", "Cancelled", "Inactive"}
OurStatuses == {"pending", "submitted", "accepted", "filled", "cancelled", "rejected"}

StatusTasks == [kind : {"status"}, order : Orders]
         \cup [kind : {"update"}, order : Orders, status : OurStatuses, broker_id : Nat]

Placed(o) == atBroker[o] # "none"

\* The connection: sessions are numbered, one caller at a time is connecting,
\* and while it does no session is up.
Connection ==
  /\ sessions \in 0 .. MaxSessions /\ ib \in 0 .. sessions
  /\ alive \subseteq {ib} \ {0} /\ attached \subseteq 1 .. sessions
  /\ pc \in [Calls -> CallStates] /\ attempt \in [Calls -> 0 .. MaxAttempts]
  /\ \A c \in Calls : pc[c] = "sleeping" => attempt[c] < MaxAttempts
  /\ \A c \in Calls : Holding(c) => alive = {}
  /\ \A c, d \in Calls : Holding(c) /\ Holding(d) => c = d

\* The broker's side of an order: there is none before its call is done.
Broker ==
  /\ atBroker \in [Orders -> BrokerStatuses \cup {"none"}]
  /\ trade \in [Orders -> [session : Nat, perm : Nat, status : BrokerStatuses \cup {"none"}]]
  /\ polls \in [Orders -> 0 .. MaxPolls] /\ reports \in [Orders -> 0 .. MaxReports]
  /\ \A o \in Orders :
       /\ Placed(o) <=> pc[o] = "done"
       /\ ~Placed(o) => trade[o] = NoTrade /\ reports[o] = 0
       /\ Placed(o) => trade[o].status # "none"
       /\ trade[o].perm \in {0, PermOf(o)[o]}

\* A status the broker has not taken back and the order has not got past.
Fits(o, s) ==
  /\ Placed(o) /\ s \in OurStatuses
  /\ s = "filled" => atBroker[o] = "Filled"
  /\ s = "cancelled" => atBroker[o] = "Cancelled"
  /\ s \in {"submitted", "accepted"} => atBroker[o] # "PendingSubmit"

\* What the broker last told the Trade object.
Told(o) == our_status(trade[o].status)

TradesFit == \A o \in Orders : Placed(o) => Fits(o, Told(o))

PermsMapped == \A m \in perm_to_ours : \E o \in Orders : m = <<PermOf(o)[o], o>>

\* A task of the event loop is about an order that has been placed; an update
\* carries its identifier and a status it fits.
TaskFits(t) ==
  /\ Placed(t.order)
  /\ t.kind = "update" => t.broker_id = PermOf(t.order)[t.order] /\ Fits(t.order, t.status)

TasksFit == ready \in Seq(StatusTasks) /\ \A i \in 1 .. Len(ready) : TaskFits(ready[i])

\* So does what the engine has.
EngineFits ==
  /\ orders \in [Orders -> [status : OurStatuses \cup {"none"}, broker_id : Nat]]
  /\ \A o \in Orders :
       /\ ~Placed(o) => orders[o] = NoOrder
       /\ Placed(o) => Fits(o, orders[o].status)
       /\ orders[o].broker_id \in {None, PermOf(o)[o]}

IsUpdate(t, o) == t.kind = "update" /\ t.order = o

\* A callback of the order is still to be handled.
Awaited(q, o) == \E i \in 1 .. Len(q) : q[i].kind = "status" /\ q[i].order = o

\* The last update of the order among the tasks carries this status.
ShowsLast(q, o, s) ==
  \E i \in 1 .. Len(q) : /\ IsUpdate(q[i], o) /\ q[i].status = s
                         /\ \A j \in i + 1 .. Len(q) : ~IsUpdate(q[j], o)

NoUpdate(q, o) == \A i \in 1 .. Len(q) : ~IsUpdate(q[i], o)

\* What the engine will show of an order once the updates created so far have run.
Shows(o, s) == ShowsLast(ready, o, s) \/ (NoUpdate(ready, o) /\ orders[o].status = s)

\* The last report is still to be handled, or the engine will show it.
Reported ==
  \A o \in Orders : reports[o] > 0 /\ o \notin lost => Awaited(ready, o) \/ Shows(o, Told(o))

Submitted == orders_submitted = Cardinality({o \in Orders : Placed(o)})

OrdersInv == Broker /\ TradesFit /\ PermsMapped /\ TasksFit /\ EngineFits /\ Reported /\ Submitted

PathInv == Connection /\ OrdersInv

-----------------------------------------------------------------------------
(* The model's operators *)

\* The broker's identifiers are positive and tell orders apart.
LEMMA PermsDiffer ==
  /\ \A o \in Orders : PermOf(o)[o] \in Nat \ {0}
  /\ \A a, b \in Orders : PermOf(a)[a] = PermOf(b)[b] => a = b
<1> DEFINE n == Cardinality(Orders)
           OneToOne(f) == \A a, b \in Orders : f[a] = f[b] => a = b
<1>1. n \in Nat /\ ExistsBijection(1 .. n, Orders)
  BY OrderPathAssumption, FS_CardinalityType
<1>2. PICK g \in Bijection(1 .. n, Orders) : TRUE
  BY <1>1 DEF ExistsBijection
<1> DEFINE h == [o \in Orders |-> CHOOSE i \in 1 .. n : g[i] = o]
<1>3. \A o \in Orders : h[o] \in 1 .. n /\ g[h[o]] = o
  BY <1>2 DEF Bijection, Surjection
<1>4. h \in [Orders -> 1 .. n] /\ OneToOne(h)
  BY <1>3
<1>5. \A o \in Orders : PermOf(o) \in [Orders -> 1 .. n] /\ OneToOne(PermOf(o))
  BY <1>4 DEF PermOf
<1>6. \A a, b \in Orders : PermOf(a) = PermOf(b)
  BY DEF PermOf
<1> QED  BY <1>1, <1>5, <1>6

\* A status of the broker's is one of ours.
LEMMA OurStatusType ==
  ASSUME NEW s \in BrokerStatuses
  PROVE  /\ our_status(s) \in OurStatuses
         /\ our_status(s) = "filled" => s = "Filled"
         /\ our_status(s) = "cancelled" => s = "Cancelled"
         /\ our_status(s) \in {"submitted", "accepted"} => s \in {"PreSubmitted", "Submitted"}
  BY DEF BrokerStatuses, OurStatuses, our_status

\* What follows a status is a status; the broker takes back neither a fill nor
\* a cancellation, and never goes back to where it began.
LEMMA FollowingType ==
  ASSUME NEW s \in BrokerStatuses, NEW t \in Following(s)
  PROVE  /\ t \in BrokerStatuses /\ t # "PendingSubmit"
         /\ s = "Filled" => t = "Filled"
         /\ s # "Cancelled"
  BY DEF BrokerStatuses, Following

\* Running the first task takes nothing else off the list.
LEMMA TailKeeps ==
  ASSUME NEW q \in Seq(StatusTasks), q # << >>, NEW o \in Orders
  PROVE  /\ Tail(q) \in Seq(StatusTasks) /\ Head(q) = q[1] /\ q[1] \in StatusTasks /\ 1 \in 1 .. Len(q)
         /\ \A i \in 1 .. Len(Tail(q)) : i + 1 \in 1 .. Len(q) /\ Tail(q)[i] = q[i + 1]
         /\ NoUpdate(q, o) => NoUpdate(Tail(q), o)
         /\ Awaited(q, o) => Awaited(Tail(q), o) \/ (q[1].kind = "status" /\ q[1].order = o)
         /\ \A s : ShowsLast(q, o, s) =>
              \/ ShowsLast(Tail(q), o, s)
              \/ IsUpdate(q[1], o) /\ q[1].status = s /\ NoUpdate(Tail(q), o)
<1>1. /\ Tail(q) \in Seq(StatusTasks) /\ Head(q) = q[1] /\ q[1] \in StatusTasks /\ Len(q) \in Nat /\ Len(q) >= 1
      /\ Len(Tail(q)) = Len(q) - 1
      /\ \A i \in 1 .. Len(Tail(q)) : i + 1 \in 1 .. Len(q) /\ Tail(q)[i] = q[i + 1]
  OBVIOUS
<1>2. NoUpdate(q, o) => NoUpdate(Tail(q), o)
  BY <1>1 DEF NoUpdate
<1>3. ASSUME Awaited(q, o)
      PROVE  Awaited(Tail(q), o) \/ (q[1].kind = "status" /\ q[1].order = o)
  <2>1. PICK i \in 1 .. Len(q) : q[i].kind = "status" /\ q[i].order = o
    BY <1>3 DEF Awaited
  <2>2. CASE i = 1
    BY <2>1, <2>2
  <2>3. CASE i # 1
    <3>1. i - 1 \in 1 .. Len(Tail(q)) /\ Tail(q)[i - 1] = q[i]
      BY <1>1, <2>3
    <3> QED  BY <2>1, <3>1 DEF Awaited
  <2> QED  BY <2>2, <2>3
<1>4. ASSUME NEW s, ShowsLast(q, o, s)
      PROVE  \/ ShowsLast(Tail(q), o, s)
             \/ IsUpdate(q[1], o) /\ q[1].status = s /\ NoUpdate(Tail(q), o)
  <2>1. PICK i \in 1 .. Len(q) : /\ IsUpdate(q[i], o) /\ q[i].status = s
                                /\ \A j \in i + 1 .. Len(q) : ~IsUpdate(q[j], o)
    BY <1>4 DEF ShowsLast
  <2>2. CASE i = 1
    <3>1. \A j \in 1 .. Len(Tail(q)) : j + 1 \in i + 1 .. Len(q) /\ Tail(q)[j] = q[j + 1]
      BY <1>1, <2>2
    <3> QED  BY <2>1, <2>2, <3>1 DEF NoUpdate
  <2>3. CASE i # 1
    <3>1. i - 1 \in 1 .. Len(Tail(q)) /\ Tail(q)[i - 1] = q[i]
      BY <1>1, <2>3
    <3>2. \A j \in (i - 1) + 1 .. Len(Tail(q)) : j + 1 \in i + 1 .. Len(q) /\ Tail(q)[j] = q[j + 1]
      BY <1>1, <2>3
    <3> QED  BY <2>1, <3>1, <3>2 DEF ShowsLast
  <2> QED  BY <2>2, <2>3
<1> QED  BY <1>1, <1>2, <1>3, <1>4

\* A task that is created comes after those that are there.
LEMMA AppendKeeps ==
  ASSUME NEW q \in Seq(StatusTasks), NEW t \in StatusTasks, NEW o \in Orders
  PROVE  /\ Append(q, t) \in Seq(StatusTasks)
         /\ \A i \in 1 .. Len(Append(q, t)) : Append(q, t)[i] = IF i = Len(q) + 1 THEN t ELSE q[i]
         /\ Len(Append(q, t)) = Len(q) + 1
         /\ Awaited(q, o) \/ (t.kind = "status" /\ t.order = o) => Awaited(Append(q, t), o)
         /\ NoUpdate(q, o) /\ ~IsUpdate(t, o) => NoUpdate(Append(q, t), o)
         /\ \A s : (ShowsLast(q, o, s) /\ ~IsUpdate(t, o)) \/ (IsUpdate(t, o) /\ t.status = s)
                    => ShowsLast(Append(q, t), o, s)
<1>1. /\ Append(q, t) \in Seq(StatusTasks) /\ Len(q) \in Nat /\ Len(Append(q, t)) = Len(q) + 1
      /\ \A i \in 1 .. Len(q) : i \in 1 .. Len(Append(q, t)) /\ Append(q, t)[i] = q[i]
      /\ Append(q, t)[Len(q) + 1] = t
  OBVIOUS
<1>2. \A i \in 1 .. Len(Append(q, t)) : i = Len(q) + 1 \/ i \in 1 .. Len(q)
  BY <1>1
<1>3. Awaited(q, o) \/ (t.kind = "status" /\ t.order = o) => Awaited(Append(q, t), o)
  BY <1>1 DEF Awaited
<1>4. NoUpdate(q, o) /\ ~IsUpdate(t, o) => NoUpdate(Append(q, t), o)
  BY <1>1, <1>2 DEF NoUpdate
<1>5. ASSUME NEW s, ShowsLast(q, o, s), ~IsUpdate(t, o)
      PROVE  ShowsLast(Append(q, t), o, s)
  <2>1. PICK i \in 1 .. Len(q) : /\ IsUpdate(q[i], o) /\ q[i].status = s
                                /\ \A j \in i + 1 .. Len(q) : ~IsUpdate(q[j], o)
    BY <1>5 DEF ShowsLast
  <2>2. \A j \in i + 1 .. Len(Append(q, t)) : j = Len(q) + 1 \/ (j \in i + 1 .. Len(q) /\ j \in 1 .. Len(q))
    BY <1>1
  <2>3. \A j \in i + 1 .. Len(Append(q, t)) : ~IsUpdate(Append(q, t)[j], o)
    <3> SUFFICES ASSUME NEW j \in i + 1 .. Len(Append(q, t))  PROVE ~IsUpdate(Append(q, t)[j], o)
      OBVIOUS
    <3>1. CASE j = Len(q) + 1
      BY <1>1, <1>5, <3>1
    <3>2. CASE j \in i + 1 .. Len(q) /\ j \in 1 .. Len(q)
      <4>1. Append(q, t)[j] = q[j]
        BY <1>1, <3>2
      <4> QED  BY <2>1, <3>2, <4>1
    <3> QED  BY <2>2, <3>1, <3>2
  <2> QED  BY <1>1, <2>1, <2>3 DEF ShowsLast
<1>6. ASSUME NEW s, IsUpdate(t, o), t.status = s
      PROVE  ShowsLast(Append(q, t), o, s)
  BY <1>1, <1>6 DEF ShowsLast
<1> QED  BY <1>1, <1>2, <1>3, <1>4, <1>5, <1>6

-----------------------------------------------------------------------------
(* The invariant is inductive *)

\* Before start() nothing has been placed, asked or told.
LEMMA PathInvInit == Init => PathInv
<1> SUFFICES ASSUME Init  PROVE PathInv
  OBVIOUS
<1>1. Connection
  BY OrderPathAssumption DEF Init, Connection, CallStates, Holding
<1>2. Broker
  BY OrderPathAssumption DEF Init, Broker, Placed, NoTrade, Calls
<1>3. TradesFit /\ PermsMapped /\ TasksFit /\ EngineFits
  BY DEF Init, TradesFit, PermsMapped, TasksFit, EngineFits, Placed, NoOrder, None, OurStatuses
<1>4. Reported
  BY DEF Init, Reported
<1>5. Submitted
  <2>1. {o \in Orders : Placed(o)} = {}
    BY DEF Init, Placed
  <2> QED  BY <2>1, FS_EmptySet DEF Init, Submitted
<1> QED  BY <1>1, <1>2, <1>3, <1>4, <1>5 DEF PathInv, OrdersInv

\* A step that touches no order keeps what is known about the orders.
LEMMA OrdersUntouched ==
  ASSUME PathInv, UNCHANGED <<brokerVars, polls, perm_to_ours, ready, orderVars>>,
         \A o \in Orders : pc'[o] = "done" <=> pc[o] = "done"
  PROVE  OrdersInv'
<1>1. Broker'
  BY DEF PathInv, OrdersInv, Broker, Placed, brokerVars
<1>2. \A o \in Orders : Told(o)' = Told(o)
  BY DEF Told, brokerVars
<1>3. TradesFit' /\ PermsMapped' /\ TasksFit' /\ EngineFits'
  BY <1>2 DEF PathInv, OrdersInv, TradesFit, PermsMapped, TasksFit, TaskFits, EngineFits, Placed, Fits,
              brokerVars, orderVars
<1>4. Reported'
  BY <1>2 DEF PathInv, OrdersInv, Reported, Shows, brokerVars, orderVars
<1>5. Submitted'
  BY DEF PathInv, OrdersInv, Submitted, Placed, brokerVars, orderVars
<1> QED  BY <1>1, <1>3, <1>4, <1>5 DEF OrdersInv

\* A caller that begins to wait, takes the lock, fails to connect or sleeps.
LEMMA ConnectingKeeps ==
  ASSUME PathInv, NEW c \in Calls, begin(c) \/ get(c) \/ connect_fails(c) \/ retry(c)
  PROVE  PathInv'
<1>1. /\ pc \in [Calls -> CallStates] /\ attempt \in [Calls -> 0 .. MaxAttempts]
      /\ Orders \subseteq Calls
  BY DEF PathInv, Connection, Calls
<1>2. CASE begin(c)
  <2>1. Connection'
    BY <1>1, <1>2 DEF begin, PathInv, Connection, CallStates, Holding
  <2>2. \A o \in Orders : pc'[o] = "done" <=> pc[o] = "done"
    BY <1>1, <1>2 DEF begin
  <2> QED  BY <1>2, <2>1, <2>2, OrdersUntouched DEF begin, PathInv
<1>3. CASE get(c)
  <2>1. Connection'
    <3>1. alive = {}
      BY <1>3 DEF get, is_connected, PathInv, Connection
    <3> QED  BY <1>1, <1>3, <3>1, OrderPathAssumption
             DEF get, lock_free, PathInv, Connection, CallStates, Holding
  <2>2. \A o \in Orders : pc'[o] = "done" <=> pc[o] = "done"
    BY <1>1, <1>3 DEF get
  <2> QED  BY <1>3, <2>1, <2>2, OrdersUntouched DEF get, PathInv
<1>4. CASE connect_fails(c)
  <2>1. Connection'
    BY <1>1, <1>4, OrderPathAssumption
    DEF connect_fails, attempts_left, give_up, PathInv, Connection, CallStates, Holding
  <2>2. \A o \in Orders : pc'[o] = "done" <=> pc[o] = "done"
    BY <1>1, <1>4 DEF connect_fails, give_up
  <2> QED  BY <1>4, <2>1, <2>2, OrdersUntouched DEF connect_fails, PathInv
<1>5. CASE retry(c)
  <2>1. Connection'
    BY <1>1, <1>5, OrderPathAssumption DEF retry, PathInv, Connection, CallStates, Holding
  <2>2. \A o \in Orders : pc'[o] = "done" <=> pc[o] = "done"
    BY <1>1, <1>5 DEF retry
  <2> QED  BY <1>5, <2>1, <2>2, OrdersUntouched DEF retry, PathInv
<1> QED  BY <1>2, <1>3, <1>4, <1>5

\* The gateway goes, and takes the session with it, or comes back; stop() ends
\* the session without asking for the lock.
LEMMA SessionEndsKeeps ==
  ASSUME PathInv, gateway_changes \/ stop
  PROVE  PathInv'
<1>1. CASE gateway_changes
  <2>1. UNCHANGED <<pc, attempt, sessions, ib, attached>>
    BY <1>1, Zenon DEF gateway_changes
  <2>2. alive' = alive \/ alive' = {}
    BY <1>1, Zenon DEF gateway_changes
  <2>3. Connection'
    BY <2>1, <2>2 DEF PathInv, Connection, Holding
  <2> QED  BY <1>1, <2>1, <2>3, OrdersUntouched DEF gateway_changes, PathInv
<1>2. CASE stop
  <2>1. Connection'
    BY <1>2 DEF stop, PathInv, Connection, Holding
  <2> QED  BY <1>2, <2>1, OrdersUntouched DEF stop, PathInv
<1> QED  BY <1>1, <1>2

\* The steps that leave the connection alone keep what is known about it.
LEMMA ConnectionKeeps ==
  ASSUME PathInv, UNCHANGED <<connVars, attached>>
  PROVE  Connection' /\ \A o \in Orders : pc'[o] = pc[o]
  BY DEF connVars, PathInv, Connection, Holding

\* submit_order: the order is placed with the broker and stored.
LEMMA PlaceOrderKeeps ==
  ASSUME PathInv, NEW o \in Orders, NEW session \in Nat, pc[o] # "done",
         pc' = [pc EXCEPT ![o] = "done"], place_order(o, session)
  PROVE  OrdersInv'
<1>1. /\ atBroker' = [atBroker EXCEPT ![o] = "PendingSubmit"]
      /\ trade' = [trade EXCEPT ![o] = [session |-> session, perm |-> 0, status |-> "PendingSubmit"]]
      /\ polls' = [polls EXCEPT ![o] = MaxPolls]
      /\ orders' = [orders EXCEPT ![o] = [status |-> "pending", broker_id |-> None]]
      /\ orders_submitted' = orders_submitted + 1
      /\ UNCHANGED <<reports, lost, perm_to_ours, ready>>
  BY DEF place_order, store_submitted, record
<1>2. /\ ~Placed(o) /\ reports[o] = 0 /\ atBroker'[o] = "PendingSubmit"
      /\ \A x \in Orders : Placed(x)' <=> (Placed(x) \/ x = o)
  BY <1>1 DEF PathInv, OrdersInv, Broker, Placed
<1>3. \A x \in Orders \ {o} : /\ Told(x)' = Told(x) /\ orders'[x] = orders[x]
                             /\ atBroker'[x] = atBroker[x]
  BY <1>1 DEF PathInv, OrdersInv, Broker, EngineFits, Told
<1>4. Broker'
  BY <1>1, <1>2, OrderPathAssumption DEF PathInv, OrdersInv, Broker, Placed, Connection, BrokerStatuses, Calls
<1>5. Fits(o, "pending")' /\ Told(o)' = "pending"
  <2>1. Told(o)' = our_status("PendingSubmit")
    BY <1>1 DEF Told, PathInv, OrdersInv, Broker
  <2>2. our_status("PendingSubmit") = "pending"
    BY DEF our_status
  <2> QED  BY <1>2, <2>1, <2>2 DEF Fits, OurStatuses
<1>6. \A x \in Orders, s \in OurStatuses : Fits(x, s) => Fits(x, s)'
  BY <1>2, <1>3 DEF Fits
<1>7. TradesFit'
  BY <1>2, <1>3, <1>5 DEF PathInv, OrdersInv, TradesFit, Fits
<1>8. PermsMapped'
  BY <1>1 DEF PathInv, OrdersInv, PermsMapped
<1>9. TasksFit'
  <2>1. \A t \in StatusTasks : t.order \in Orders /\ (t.kind = "update" => t.status \in OurStatuses)
    BY DEF StatusTasks
  <2>2. \A t \in StatusTasks : TaskFits(t) => TaskFits(t)'
    BY <1>2, <1>6, <2>1 DEF TaskFits
  <2> QED  BY <1>1, <2>2 DEF PathInv, OrdersInv, TasksFit
<1>10. EngineFits'
  BY <1>1, <1>2, <1>3, <1>5 DEF PathInv, OrdersInv, EngineFits, Fits, None, OurStatuses
<1>11. Reported'
  <2> SUFFICES ASSUME NEW x \in Orders, reports'[x] > 0, x \notin lost
               PROVE  Awaited(ready, x) \/ Shows(x, Told(x))'
    BY <1>1 DEF Reported
  <2>1. x # o /\ reports[x] > 0
    BY <1>1, <1>2
  <2> QED  BY <1>1, <1>3, <2>1 DEF PathInv, OrdersInv, Reported, Shows
<1>12. Submitted'
  <2> DEFINE S == {x \in Orders : Placed(x)}
  <2>1. S' = S \cup {o} /\ o \notin S /\ IsFiniteSet(S)
    BY <1>2, OrderPathAssumption, FS_Subset
  <2>2. Cardinality(S \cup {o}) = Cardinality(S) + 1
    BY <2>1, FS_AddElement
  <2> QED  BY <1>1, <2>1, <2>2 DEF PathInv, OrdersInv, Submitted
<1> QED  BY <1>4, <1>7, <1>8, <1>9, <1>10, <1>11, <1>12 DEF OrdersInv

\* The connection's state of a caller that has got a session.
LEMMA GotSession ==
  ASSUME PathInv, NEW c \in Calls, get_connected(c) \/ connect_succeeds(c)
  PROVE  \E session \in 1 .. MaxSessions :
           /\ pc[c] \in {"waiting", "connecting"} /\ use(c, session)
           /\ session \in 1 .. sessions' /\ sessions' \in 0 .. MaxSessions
           /\ sessions <= sessions' /\ ib' \in 0 .. sessions' /\ alive' \subseteq {ib'} \ {0}
           /\ attempt' \in [Calls -> 0 .. MaxAttempts]
           /\ \A d \in Calls \ {c} : attempt'[d] = attempt[d] /\ ~Holding(d)
<1>1. CASE get_connected(c)
  <2>1. /\ pc[c] = "waiting" /\ ib \in alive /\ use(c, ib)
        /\ UNCHANGED <<ib, alive, sessions, attempt>>
        /\ \A d \in Calls : ~Holding(d)
    BY <1>1, Zenon DEF get_connected, is_connected, lock_free
  <2>2. /\ sessions \in 0 .. MaxSessions /\ ib \in 0 .. sessions /\ alive \subseteq {ib} \ {0}
        /\ attempt \in [Calls -> 0 .. MaxAttempts]
    BY DEF PathInv, Connection
  <2>3. ib \in 1 .. sessions /\ ib \in 1 .. MaxSessions
    BY <2>1, <2>2, OrderPathAssumption
  <2> QED  BY <2>1, <2>2, <2>3
<1>2. CASE connect_succeeds(c)
  <2>1. Holding(c) /\ pc[c] = "connecting" /\ use(c, sessions + 1) /\ sessions < MaxSessions
        /\ sessions' = sessions + 1 /\ ib' = sessions + 1 /\ alive' = alive \cup {sessions + 1}
        /\ attempt' = [attempt EXCEPT ![c] = 0]
    BY <1>2, Zenon DEF connect_succeeds, Holding
  <2>2. alive = {} /\ \A d \in Calls \ {c} : ~Holding(d)
    BY <2>1 DEF PathInv, Connection
  <2> QED  BY <2>1, <2>2, OrderPathAssumption DEF PathInv, Connection
<1> QED  BY <1>1, <1>2

\* The broker's status of an order goes on: no new order, no way back from a final
\* status or to the first.
Advances ==
  \A o \in Orders : /\ atBroker'[o] = "none" <=> atBroker[o] = "none"
                    /\ atBroker[o] \in {"Filled", "Cancelled"} => atBroker'[o] = atBroker[o]
                    /\ atBroker[o] # "PendingSubmit" => atBroker'[o] # "PendingSubmit"

PlacedKept == \A o \in Orders : Placed(o)' <=> Placed(o)
FitsKept == \A o \in Orders, s \in OurStatuses : Fits(o, s) => Fits(o, s)'
TaskFitsKept == \A t \in StatusTasks : TaskFits(t) => TaskFits(t)'

\* Such a step leaves the tasks and what the engine has in order.
LEMMA FitsOn ==
  ASSUME PathInv, Advances
  PROVE  /\ PlacedKept /\ FitsKept /\ TaskFitsKept
         /\ ready' = ready => TasksFit'
         /\ orders' = orders => EngineFits'
         /\ orders' = orders /\ orders_submitted' = orders_submitted => Submitted'
<1>1. PlacedKept
  BY DEF PlacedKept, Advances, Placed
<1>2. FitsKept
  BY <1>1 DEF FitsKept, PlacedKept, Advances, Fits
<1>3. \A t \in StatusTasks : t.order \in Orders /\ (t.kind = "update" => t.status \in OurStatuses)
  BY DEF StatusTasks
<1>4. TaskFitsKept
  BY <1>1, <1>2, <1>3 DEF TaskFitsKept, PlacedKept, FitsKept, TaskFits
<1>5. ready' = ready => TasksFit'
  BY <1>4 DEF PathInv, OrdersInv, TasksFit, TaskFitsKept
<1>6. orders' = orders => EngineFits'
  BY <1>1, <1>2 DEF PathInv, OrdersInv, EngineFits, PlacedKept, FitsKept, Fits
<1>7. orders' = orders /\ orders_submitted' = orders_submitted => Submitted'
  BY <1>1 DEF PathInv, OrdersInv, Submitted, PlacedKept
<1> QED  BY <1>1, <1>2, <1>4, <1>5, <1>6, <1>7

\* cancel_order at the adapter: orders that are open at the broker are asked to end.
LEMMA CancelKeeps ==
  ASSUME PathInv, NEW c, cancel_at_broker(c), \A o \in Orders : pc'[o] = "done" <=> pc[o] = "done"
  PROVE  OrdersInv'
<1>1. UNCHANGED <<trade, reports, lost, polls, perm_to_ours, ready, orderVars>>
  BY DEF cancel_at_broker
<1>2. atBroker \in [Orders -> BrokerStatuses \cup {"none"}]
  BY DEF PathInv, OrdersInv, Broker
<1>3. /\ DOMAIN atBroker' = Orders /\ atBroker' = [x \in Orders |-> atBroker'[x]]
      /\ \A x \in Orders : \/ atBroker'[x] = atBroker[x]
                           \/ atBroker[x] \in {"PreSubmitted", "Submitted"} /\ atBroker'[x] = "PendingCancel"
  BY DEF cancel_at_broker
<1>4. atBroker' \in [Orders -> BrokerStatuses \cup {"none"}]
  BY <1>2, <1>3 DEF BrokerStatuses
<1>5. Advances
  BY <1>3 DEF Advances
<1>6. Broker'
  BY <1>1, <1>3, <1>4, <1>5 DEF PathInv, OrdersInv, Broker, Placed, Advances
<1>7. \A x \in Orders : Told(x)' = Told(x)
  BY <1>1 DEF Told
<1>8. TradesFit' /\ PermsMapped'
  BY <1>1, <1>5, <1>7, FitsOn DEF PathInv, OrdersInv, TradesFit, PermsMapped, PlacedKept, FitsKept, Fits
<1>9. Reported'
  BY <1>1, <1>7 DEF PathInv, OrdersInv, Reported, Shows, orderVars
<1>10. TasksFit' /\ EngineFits' /\ Submitted'
  <2>1. ready' = ready /\ orders' = orders /\ orders_submitted' = orders_submitted
    BY <1>1 DEF orderVars
  <2> QED  BY <1>5, <2>1, FitsOn
<1> QED  BY <1>6, <1>8, <1>9, <1>10 DEF OrdersInv

\* A caller uses the session it gets: the adapter's handlers are registered on
\* it, or the order is placed or cancelled.
LEMMA UseKeeps ==
  ASSUME PathInv, NEW c \in Calls, get_connected(c) \/ connect_succeeds(c)
  PROVE  PathInv'
<1>1. PICK session \in 1 .. MaxSessions :
           /\ pc[c] \in {"waiting", "connecting"} /\ use(c, session)
           /\ session \in 1 .. sessions' /\ sessions' \in 0 .. MaxSessions
           /\ sessions <= sessions' /\ ib' \in 0 .. sessions' /\ alive' \subseteq {ib'} \ {0}
           /\ attempt' \in [Calls -> 0 .. MaxAttempts]
           /\ \A d \in Calls \ {c} : attempt'[d] = attempt[d] /\ ~Holding(d)
  BY GotSession
<1>2. pc' = [pc EXCEPT ![c] = "done"] /\ (attached' = attached \/ attached' = attached \cup {session})
  BY <1>1, Zenon DEF use, register_handlers, place_order, cancel_at_broker, Calls
<1>3. Connection'
  <2>1. \A d \in Calls : ~Holding(d)' /\ pc'[d] # "sleeping"
    BY <1>1, <1>2 DEF Holding, PathInv, Connection
  <2>2. attached' \subseteq 1 .. sessions'
    <3>1. sessions \in Nat /\ sessions' \in Nat /\ attached \subseteq 1 .. sessions
      BY <1>1, OrderPathAssumption DEF PathInv, Connection
    <3>2. 1 .. sessions \subseteq 1 .. sessions'
      BY <1>1, <3>1
    <3> QED  BY <1>1, <1>2, <3>1, <3>2
  <2> QED  BY <1>1, <1>2, <2>1, <2>2 DEF PathInv, Connection, CallStates
<1>4. OrdersInv'
  <2>1. CASE c = Start
    <3>1. c \notin Orders /\ c \notin Cancels
      BY <2>1, OrderPathAssumption
    <3>2. \A o \in Orders : pc'[o] = pc[o]
      BY <1>2, <3>1 DEF PathInv, Connection, Calls
    <3>3. register_handlers(session)
      BY <1>1, <3>1 DEF use
    <3> QED  BY <3>2, <3>3, OrdersUntouched DEF register_handlers
  <2>2. CASE c \in Orders
    <3>1. c # Start /\ session \in Nat /\ pc[c] # "done"
      BY <1>1, <2>2, OrderPathAssumption
    <3>2. place_order(c, session)
      BY <1>1, <2>2, <3>1, OrderPathAssumption DEF use
    <3> QED  BY <1>2, <2>2, <3>1, <3>2, PlaceOrderKeeps
  <2>3. CASE c \in Cancels
    <3>1. \A o \in Orders : pc'[o] = pc[o]
      BY <1>2, <2>3, OrderPathAssumption DEF PathInv, Connection, Calls
    <3>2. cancel_at_broker(c)
      BY <1>1, <2>3, OrderPathAssumption DEF use
    <3> QED  BY <3>1, <3>2, CancelKeeps
  <2> QED  BY <2>1, <2>2, <2>3 DEF Calls
<1> QED  BY <1>3, <1>4 DEF PathInv

\* The broker's report: what its status has been told stays behind the atBroker.
LEMMA BrokerReportsKeeps ==
  ASSUME PathInv, NEW o \in Orders, Placed(o), NEW status \in Following(atBroker[o]),
         broker_reports(o, status)
  PROVE  PathInv'
<1> DEFINE heard == trade[o].session \in alive
           told  == heard /\ trade[o].session \in attached
           t     == [kind |-> "status", order |-> o]
<1>1. /\ reports[o] < MaxReports /\ reports' = [reports EXCEPT ![o] = reports[o] + 1]
      /\ atBroker' = [atBroker EXCEPT ![o] = status]
      /\ trade' = IF heard THEN [trade EXCEPT ![o] = [trade[o] EXCEPT !.status = status]] ELSE trade
      /\ ready' = IF told THEN Append(ready, t) ELSE ready
      /\ lost' = IF told THEN lost \ {o} ELSE lost \cup {o}
      /\ UNCHANGED <<connVars, attached, polls, perm_to_ours, orderVars>>
  BY DEF broker_reports
<1>2. /\ atBroker \in [Orders -> BrokerStatuses \cup {"none"}] /\ atBroker[o] \in BrokerStatuses
      /\ trade \in [Orders -> [session : Nat, perm : Nat, status : BrokerStatuses \cup {"none"}]]
      /\ reports \in [Orders -> 0 .. MaxReports] /\ MaxReports \in Nat
      /\ ready \in Seq(StatusTasks) /\ t \in StatusTasks
  BY OrderPathAssumption DEF PathInv, OrdersInv, Broker, TasksFit, Placed, StatusTasks
<1>3. /\ status \in BrokerStatuses /\ status # "PendingSubmit"
      /\ atBroker[o] = "Filled" => status = "Filled"
      /\ atBroker[o] # "Cancelled"
  BY <1>2, FollowingType
<1> HIDE DEF heard, told
<1>4. \A x \in Orders : atBroker'[x] = IF x = o THEN status ELSE atBroker[x]
  BY <1>1, <1>2
<1>5. Advances
  BY <1>3, <1>4 DEF Advances, Placed, BrokerStatuses
<1>6. Connection' /\ \A x \in Orders : pc'[x] = pc[x]
  BY <1>1, ConnectionKeeps
<1>7. /\ trade' \in [Orders -> [session : Nat, perm : Nat, status : BrokerStatuses \cup {"none"}]]
      /\ \A x \in Orders \ {o} : trade'[x] = trade[x]
      /\ trade'[o].perm = trade[o].perm
      /\ trade'[o].status = IF heard THEN status ELSE trade[o].status
  BY <1>1, <1>2, <1>3
<1>8. Broker'
  <2>1. atBroker' \in [Orders -> BrokerStatuses \cup {"none"}] /\ reports' \in [Orders -> 0 .. MaxReports]
        /\ \A x \in Orders \ {o} : reports'[x] = reports[x]
    BY <1>1, <1>2, <1>3
  <2>2. status # "none"
    BY <1>3 DEF BrokerStatuses
  <2>3. \A x \in Orders \ {o} : trade'[x] = trade[x] /\ reports'[x] = reports[x] /\ atBroker'[x] = atBroker[x]
    BY <1>4, <1>7, <2>1
  <2>4. atBroker'[o] # "none" /\ atBroker[o] # "none" /\ trade'[o].status # "none" /\ trade'[o].perm = trade[o].perm
    BY <1>4, <1>7, <2>2 DEF PathInv, OrdersInv, Broker, Placed
  <2>5. polls' = polls
    BY <1>1
  <2> QED  BY <1>6, <1>7, <2>1, <2>3, <2>4, <2>5 DEF PathInv, OrdersInv, Broker, Placed
<1>9. \A x \in Orders \ {o} : Told(x)' = Told(x)
  BY <1>7 DEF Told
<1>10. TradesFit'
  <2>1. CASE heard
    <3>1. Told(o)' = our_status(status)
      BY <1>7, <2>1 DEF Told
    <3>2. Fits(o, our_status(status))'
      BY <1>3, <1>4, OurStatusType DEF Fits, Placed, BrokerStatuses
    <3> QED  BY <1>5, <1>9, <3>1, <3>2, FitsOn DEF PathInv, OrdersInv, TradesFit, PlacedKept, FitsKept, Fits
  <2>2. CASE ~heard
    <3>1. Told(o)' = Told(o)
      BY <1>7, <2>2 DEF Told
    <3> QED  BY <1>5, <1>9, <3>1, FitsOn DEF PathInv, OrdersInv, TradesFit, PlacedKept, FitsKept, Fits
  <2> QED  BY <2>1, <2>2
<1>11. TasksFit'
  <2>1. CASE told
    <3>1. /\ Append(ready, t) \in Seq(StatusTasks) /\ Len(Append(ready, t)) = Len(ready) + 1 /\ Len(ready) \in Nat
          /\ \A i \in 1 .. Len(Append(ready, t)) :
               Append(ready, t)[i] = IF i = Len(ready) + 1 THEN t ELSE ready[i]
      BY <1>2, AppendKeeps
    <3>2. TaskFitsKept
      BY <1>5, FitsOn
    <3>5. TaskFits(t)'
      BY <1>5 DEF TaskFits, Placed, Advances
    <3>3. \A i \in 1 .. Len(ready) : ready[i] \in StatusTasks /\ TaskFits(ready[i])
      BY <1>2 DEF PathInv, OrdersInv, TasksFit
    <3> HIDE DEF t
    <3>4. \A i \in 1 .. Len(ready)' : TaskFits(ready[i])'
      BY <1>1, <2>1, <3>1, <3>2, <3>3, <3>5 DEF TaskFitsKept
    <3> QED  BY <1>1, <2>1, <3>1, <3>4 DEF TasksFit
  <2>2. CASE ~told
    <3>1. ready' = ready
      BY <1>1, <2>2
    <3> QED  BY <1>5, <3>1, FitsOn
  <2> QED  BY <2>1, <2>2
<1>12. EngineFits' /\ PermsMapped' /\ Submitted'
  <2>1. orders' = orders /\ orders_submitted' = orders_submitted /\ perm_to_ours' = perm_to_ours
    BY <1>1 DEF orderVars
  <2>2. EngineFits' /\ Submitted'
    BY <1>5, <2>1, FitsOn
  <2> QED  BY <2>1, <2>2 DEF PathInv, OrdersInv, PermsMapped
<1>13. Reported'
  <2> SUFFICES ASSUME NEW x \in Orders, reports'[x] > 0, x \notin lost'
               PROVE  Awaited(ready', x) \/ Shows(x, Told(x))'
    BY DEF Reported
  <2>1. CASE x = o
    BY <1>1, <1>2, <2>1, AppendKeeps
  <2>2. CASE x # o
    <3>1. reports[x] > 0 /\ x \notin lost
      BY <1>1, <1>2, <2>2
    <3>2. ~IsUpdate(t, x)
      BY DEF IsUpdate
    <3>3. Awaited(ready, x) \/ Shows(x, Told(x))
      BY <3>1 DEF PathInv, OrdersInv, Reported
    <3>4. Told(x)' = Told(x) /\ orders' = orders
      BY <1>1, <1>9, <2>2 DEF orderVars
    <3> HIDE DEF t
    <3>5. CASE told
      BY <1>1, <1>2, <3>2, <3>3, <3>4, <3>5, AppendKeeps DEF Shows
    <3>6. CASE ~told
      BY <1>1, <3>3, <3>4, <3>6 DEF Shows
    <3> QED  BY <3>5, <3>6
  <2> QED  BY <2>1, <2>2
<1> QED  BY <1>6, <1>8, <1>10, <1>11, <1>12, <1>13 DEF PathInv, OrdersInv

\* A step that leaves the atBroker alone.
LEMMA BookKept == atBroker' = atBroker => Advances
  BY DEF Advances

\* The broker's identifier reaches the Trade.
LEMMA AssignPermKeeps ==
  ASSUME PathInv, NEW o \in Orders, assign_perm(o)
  PROVE  PathInv'
<1>1. /\ trade[o].session \in alive
      /\ trade' = [trade EXCEPT ![o] = [trade[o] EXCEPT !.perm = PermOf(o)[o]]]
      /\ UNCHANGED <<connVars, attached, atBroker, reports, lost, polls, perm_to_ours, ready, orderVars>>
  BY DEF assign_perm
<1>2. Connection' /\ \A x \in Orders : pc'[x] = pc[x]
  BY <1>1, ConnectionKeeps
<1>3. Advances
  BY <1>1, BookKept
<1>4. /\ trade \in [Orders -> [session : Nat, perm : Nat, status : BrokerStatuses \cup {"none"}]]
      /\ PermOf(o)[o] \in Nat
  BY PermsDiffer DEF PathInv, OrdersInv, Broker
<1>5. /\ trade' \in [Orders -> [session : Nat, perm : Nat, status : BrokerStatuses \cup {"none"}]]
      /\ \A x \in Orders \ {o} : trade'[x] = trade[x]
      /\ trade'[o].perm = PermOf(o)[o] /\ trade'[o].status = trade[o].status
  BY <1>1, <1>4
<1>6. Placed(o)
  BY <1>1 DEF PathInv, Connection, OrdersInv, Broker, NoTrade
<1>7. \A x \in Orders : Told(x)' = Told(x)
  BY <1>5 DEF Told
<1>8. Broker'
  BY <1>1, <1>2, <1>5, <1>6 DEF PathInv, OrdersInv, Broker, Placed
<1>9. TradesFit' /\ PermsMapped'
  BY <1>1, <1>7 DEF PathInv, OrdersInv, TradesFit, PermsMapped, Fits, Placed
<1>10. Reported'
  BY <1>1, <1>7 DEF PathInv, OrdersInv, Reported, Shows, orderVars
<1>11. TasksFit' /\ EngineFits' /\ Submitted'
  <2>1. ready' = ready /\ orders' = orders /\ orders_submitted' = orders_submitted
    BY <1>1 DEF orderVars
  <2> QED  BY <1>3, <2>1, FitsOn
<1> QED  BY <1>2, <1>8, <1>9, <1>10, <1>11 DEF PathInv, OrdersInv

\* One poll of _map_perm_id: the identifier it enters is the order's own.
LEMMA MapPermIdKeeps ==
  ASSUME PathInv, NEW o \in Orders, map_perm_id(o)
  PROVE  PathInv'
<1>1. /\ polls[o] > 0 /\ UNCHANGED <<connVars, attached, brokerVars, ready, orderVars>>
      /\ \/ /\ trade[o].perm # 0
            /\ perm_to_ours' = {m \in perm_to_ours : m[1] # trade[o].perm} \cup {<<trade[o].perm, o>>}
            /\ polls' = [polls EXCEPT ![o] = 0]
         \/ /\ perm_to_ours' = perm_to_ours
            /\ polls' = [polls EXCEPT ![o] = polls[o] - 1]
  BY DEF map_perm_id, perm_known
<1>2. Connection' /\ \A x \in Orders : pc'[x] = pc[x]
  BY <1>1, ConnectionKeeps
<1>3. UNCHANGED <<atBroker, trade, reports, lost, ready, orders, orders_submitted>>
  BY <1>1 DEF brokerVars, orderVars
<1>4. Advances
  BY <1>3, BookKept
<1>5. Broker'
  <2>1. polls' \in [Orders -> 0 .. MaxPolls]
    BY <1>1, OrderPathAssumption DEF PathInv, OrdersInv, Broker
  <2> QED  BY <1>2, <1>3, <2>1 DEF PathInv, OrdersInv, Broker, Placed
<1>6. \A x \in Orders : Told(x)' = Told(x)
  BY <1>3 DEF Told
<1>7. TradesFit'
  BY <1>3, <1>6 DEF PathInv, OrdersInv, TradesFit, Fits, Placed
<1>8. PermsMapped'
  <2>1. trade[o].perm # 0 => trade[o].perm = PermOf(o)[o]
    BY DEF PathInv, OrdersInv, Broker
  <2> QED  BY <1>1, <2>1 DEF PathInv, OrdersInv, PermsMapped
<1>9. Reported'
  BY <1>3, <1>6 DEF PathInv, OrdersInv, Reported, Shows
<1>10. TasksFit' /\ EngineFits' /\ Submitted'
  BY <1>3, <1>4, FitsOn
<1> QED  BY <1>2, <1>5, <1>7, <1>8, <1>9, <1>10 DEF PathInv, OrdersInv

\* _handle_order_status: the order it finds is the one the Trade is of, and the
\* update it creates carries the broker's last status.
LEMMA HandleStatusKeeps ==
  ASSUME PathInv, handle_order_status
  PROVE  PathInv'
<1> DEFINE o  == Head(ready).order
           to == {m \in perm_to_ours : m[1] = trade[o].perm}
           u  == [kind |-> "update", order |-> (CHOOSE m \in to : TRUE)[2],
                  status |-> our_status(trade[o].status), broker_id |-> trade[o].perm]
<1>1. /\ ready # << >> /\ Head(ready).kind = "status"
      /\ \/ to = {} /\ ready' = Tail(ready) /\ lost' = lost \cup {o}
         \/ to # {} /\ ready' = Append(Tail(ready), u) /\ lost' = lost
      /\ UNCHANGED <<connVars, attached, atBroker, trade, reports, polls, perm_to_ours, orderVars>>
  BY DEF handle_order_status, hand_over
<1>2. /\ ready \in Seq(StatusTasks) /\ Head(ready) = ready[1] /\ o \in Orders /\ Placed(o)
      /\ Tail(ready) \in Seq(StatusTasks) /\ Len(ready) \in Nat /\ 1 \in 1 .. Len(ready)
      /\ ready[1].kind = "status" /\ ready[1].order = o
  BY <1>1 DEF PathInv, OrdersInv, TasksFit, TaskFits, StatusTasks
<1>3. to # {} => u.order = o /\ u.broker_id = PermOf(o)[o] /\ u.status = Told(o) /\ u \in StatusTasks
  <2> SUFFICES ASSUME to # {}
               PROVE  u.order = o /\ u.broker_id = PermOf(o)[o] /\ u.status = Told(o) /\ u \in StatusTasks
    OBVIOUS
  <2> DEFINE m == CHOOSE m \in to : TRUE
  <2>1. m \in perm_to_ours /\ m[1] = trade[o].perm
    OBVIOUS
  <2>2. PICK x \in Orders : m = <<PermOf(x)[x], x>>
    BY <2>1 DEF PathInv, OrdersInv, PermsMapped
  <2>3. trade[o].perm \in {0, PermOf(o)[o]}
    BY <1>2 DEF PathInv, OrdersInv, Broker
  <2> HIDE DEF m
  <2>4. x = o /\ m[2] = x /\ trade[o].perm = PermOf(o)[o]
    BY <1>2, <2>1, <2>2, <2>3, PermsDiffer
  <2>5. Told(o) \in OurStatuses
    BY <1>2 DEF PathInv, OrdersInv, TradesFit, Fits
  <2>6. u = [kind |-> "update", order |-> o, status |-> Told(o), broker_id |-> PermOf(o)[o]]
    BY <2>4 DEF m, Told
  <2>7. PermOf(o)[o] \in Nat
    BY <1>2, PermsDiffer
  <2> QED  BY <1>2, <2>5, <2>6, <2>7 DEF StatusTasks
<1>4. Advances
  BY <1>1, BookKept
<1>5. Connection' /\ \A x \in Orders : pc'[x] = pc[x]
  BY <1>1, ConnectionKeeps
<1>6. UNCHANGED <<atBroker, trade, reports, polls, perm_to_ours, orders, orders_submitted>>
  BY <1>1 DEF orderVars
<1> HIDE DEF o, to, u
<1>7. \A x \in Orders : Told(x)' = Told(x)
  BY <1>6 DEF Told
<1>8. Broker' /\ TradesFit' /\ PermsMapped'
  BY <1>5, <1>6, <1>7 DEF PathInv, OrdersInv, Broker, TradesFit, PermsMapped, Fits, Placed
<1>9. EngineFits' /\ Submitted'
  BY <1>4, <1>6, FitsOn
<1>10. \A i \in 1 .. Len(Tail(ready)) : Tail(ready)[i] \in StatusTasks /\ TaskFits(Tail(ready)[i])
  BY <1>1, <1>2, TailKeeps DEF PathInv, OrdersInv, TasksFit
<1>11. TasksFit'
  <2>1. TaskFitsKept
    BY <1>4, FitsOn
  <2>2. CASE to = {}
    BY <1>1, <1>2, <1>10, <2>1, <2>2 DEF TasksFit, TaskFitsKept
  <2>3. CASE to # {}
    <3>1. TaskFits(u)
      BY <1>2, <1>3, <2>3 DEF TaskFits, PathInv, OrdersInv, TradesFit
    <3>2. /\ Append(Tail(ready), u) \in Seq(StatusTasks) /\ Len(Append(Tail(ready), u)) = Len(Tail(ready)) + 1
          /\ Len(Tail(ready)) \in Nat
          /\ \A i \in 1 .. Len(Append(Tail(ready), u)) :
               Append(Tail(ready), u)[i] = IF i = Len(Tail(ready)) + 1 THEN u ELSE Tail(ready)[i]
      BY <1>2, <1>3, <2>3, AppendKeeps
    <3>3. ready' = Append(Tail(ready), u) /\ u \in StatusTasks
      BY <1>1, <1>3, <2>3
    <3>4. \A i \in 1 .. Len(ready)' : TaskFits(ready[i])'
      BY <1>10, <2>1, <3>1, <3>2, <3>3 DEF TaskFitsKept
    <3> QED  BY <3>2, <3>3, <3>4 DEF TasksFit
  <2> QED  BY <2>2, <2>3
<1>12. Reported'
  <2> SUFFICES ASSUME NEW x \in Orders, reports[x] > 0, x \notin lost'
               PROVE  Awaited(ready', x) \/ Shows(x, Told(x))'
    BY <1>6 DEF Reported
  <2>1. CASE x = o
    <3>1. to # {}
      BY <1>1, <2>1
    <3>2. IsUpdate(u, o) /\ u.status = Told(o) /\ u \in StatusTasks
      BY <1>3, <3>1 DEF IsUpdate, u
    <3>3. ShowsLast(Append(Tail(ready), u), o, Told(o))
      BY <1>2, <3>2, AppendKeeps
    <3> QED  BY <1>1, <1>7, <2>1, <3>1, <3>3 DEF Shows
  <2>2. CASE x # o
    <3>1. Awaited(ready, x) \/ Shows(x, Told(x))
      BY <1>1, <2>2 DEF PathInv, OrdersInv, Reported
    <3>2. ~IsUpdate(ready[1], x) /\ ready[1].order # x
      BY <1>2, <2>2 DEF IsUpdate
    <3>3. \/ Awaited(Tail(ready), x) \/ ShowsLast(Tail(ready), x, Told(x))
          \/ (NoUpdate(Tail(ready), x) /\ orders[x].status = Told(x))
      BY <1>1, <1>2, <3>1, <3>2, TailKeeps DEF Shows
    <3>4. CASE to = {}
      BY <1>1, <1>6, <1>7, <3>3, <3>4 DEF Shows
    <3>5. CASE to # {}
      <4>1. ~IsUpdate(u, x) /\ u \in StatusTasks
        BY <1>3, <2>2, <3>5 DEF IsUpdate
      <4>2. \/ Awaited(Append(Tail(ready), u), x) \/ ShowsLast(Append(Tail(ready), u), x, Told(x))
            \/ (NoUpdate(Append(Tail(ready), u), x) /\ orders[x].status = Told(x))
        BY <1>2, <3>3, <4>1, AppendKeeps
      <4> QED  BY <1>1, <1>6, <1>7, <3>5, <4>2 DEF Shows
    <3> QED  BY <3>4, <3>5
  <2> QED  BY <2>1, <2>2
<1> QED  BY <1>5, <1>8, <1>9, <1>11, <1>12 DEF PathInv, OrdersInv

\* _on_order_update: the engine's entry of the order becomes what the update says.
LEMMA OrderUpdateKeeps ==
  ASSUME PathInv, on_order_update
  PROVE  PathInv'
<1> DEFINE u == Head(ready)
           o == u.order
<1>1. /\ ready # << >> /\ u.kind = "update" /\ ready' = Tail(ready)
      /\ orders' = [orders EXCEPT ![o] = [status |-> u.status, broker_id |-> u.broker_id]]
      /\ UNCHANGED <<connVars, attached, brokerVars, polls, perm_to_ours, orders_submitted>>
  BY DEF on_order_update, record
<1>2. /\ ready \in Seq(StatusTasks) /\ u = ready[1] /\ 1 \in 1 .. Len(ready) /\ u \in StatusTasks /\ TaskFits(u)
      /\ Tail(ready) \in Seq(StatusTasks)
  BY <1>1 DEF PathInv, OrdersInv, TasksFit
<1>3. /\ o \in Orders /\ u.status \in OurStatuses /\ u.broker_id \in Nat
      /\ Placed(o) /\ Fits(o, u.status) /\ u.broker_id = PermOf(o)[o]
  BY <1>1, <1>2 DEF StatusTasks, TaskFits
<1> HIDE DEF u
<1>4. UNCHANGED <<atBroker, trade, reports, lost>>
  BY <1>1 DEF brokerVars
<1>5. Advances
  BY <1>4, BookKept
<1>6. PlacedKept /\ FitsKept /\ TaskFitsKept
  BY <1>5, FitsOn
<1>7. Connection' /\ \A x \in Orders : pc'[x] = pc[x]
  BY <1>1, ConnectionKeeps
<1>8. \A x \in Orders : Told(x)' = Told(x)
  BY <1>4 DEF Told
<1>9. Broker' /\ TradesFit' /\ PermsMapped'
  BY <1>1, <1>4, <1>7, <1>8 DEF PathInv, OrdersInv, Broker, TradesFit, PermsMapped, Fits, Placed
<1>10. TasksFit'
  <2>1. \A i \in 1 .. Len(Tail(ready)) : Tail(ready)[i] \in StatusTasks /\ TaskFits(Tail(ready)[i])
    BY <1>1, <1>2, <1>3, TailKeeps DEF PathInv, OrdersInv, TasksFit
  <2> QED  BY <1>1, <1>2, <1>6, <2>1 DEF TasksFit, TaskFitsKept
<1>11. \A x \in Orders \ {o} : orders'[x] = orders[x]
  BY <1>1 DEF PathInv, OrdersInv, EngineFits
<1>12. orders'[o] = [status |-> u.status, broker_id |-> u.broker_id]
  BY <1>1, <1>3 DEF PathInv, OrdersInv, EngineFits
<1>13. EngineFits'
  <2>1. orders' \in [Orders -> [status : OurStatuses \cup {"none"}, broker_id : Nat]]
    BY <1>1, <1>3 DEF PathInv, OrdersInv, EngineFits
  <2>2. ASSUME NEW x \in Orders
        PROVE  /\ ~Placed(x)' => orders'[x] = NoOrder
               /\ Placed(x)' => Fits(x, orders[x].status)'
               /\ orders'[x].broker_id \in {None, PermOf(x)[x]}
    <3>1. CASE x = o
      <4>1. Fits(x, orders[x].status)'
        BY <1>3, <1>4, <1>12, <3>1 DEF Fits, Placed
      <4> QED  BY <1>3, <1>4, <1>12, <3>1, <4>1 DEF Placed
    <3>2. CASE x # o
      BY <1>4, <1>11, <3>2 DEF PathInv, OrdersInv, EngineFits, Fits, Placed
    <3> QED  BY <3>1, <3>2
  <2> QED  BY <2>1, <2>2 DEF EngineFits
<1>14. Submitted'
  BY <1>1, <1>6 DEF PathInv, OrdersInv, Submitted, PlacedKept
<1>15. Reported'
  <2> SUFFICES ASSUME NEW x \in Orders, reports[x] > 0, x \notin lost
               PROVE  Awaited(ready', x) \/ Shows(x, Told(x))'
    BY <1>4 DEF Reported
  <2>1. Awaited(ready, x) \/ Shows(x, Told(x))
    BY DEF PathInv, OrdersInv, Reported
  <2>2. CASE Awaited(ready, x)
    BY <1>1, <1>2, <2>2, TailKeeps
  <2>3. CASE ShowsLast(ready, x, Told(x))
    <3>1. \/ ShowsLast(Tail(ready), x, Told(x))
          \/ IsUpdate(u, x) /\ u.status = Told(x) /\ NoUpdate(Tail(ready), x)
      BY <1>1, <1>2, <2>3, TailKeeps
    <3> QED  BY <1>1, <1>8, <1>12, <3>1 DEF Shows, IsUpdate
  <2>4. CASE NoUpdate(ready, x) /\ orders[x].status = Told(x)
    <3>1. x # o
      BY <1>1, <1>2, <2>4 DEF NoUpdate, IsUpdate
    <3> QED  BY <1>1, <1>2, <1>8, <1>11, <2>4, <3>1, TailKeeps DEF Shows
  <2> QED  BY <2>1, <2>2, <2>3, <2>4 DEF Shows
<1> QED  BY <1>7, <1>9, <1>10, <1>13, <1>14, <1>15 DEF PathInv, OrdersInv

\* Every step keeps the invariant.
LEMMA PathInvStep == PathInv /\ [Next]_vars => PathInv'
<1> SUFFICES ASSUME PathInv, [Next]_vars  PROVE PathInv'
  OBVIOUS
<1>1. CASE gateway_changes \/ stop
  BY <1>1, SessionEndsKeeps
<1>2. CASE handle_order_status
  BY <1>2, HandleStatusKeeps
<1>3. CASE on_order_update
  BY <1>3, OrderUpdateKeeps
<1>4. ASSUME NEW c \in Calls, call(c) \/ get(c) \/ connect_fails(c) \/ retry(c)  PROVE PathInv'
  BY <1>4, ConnectingKeeps DEF call
<1>5. ASSUME NEW c \in Calls, get_connected(c) \/ connect_succeeds(c)  PROVE PathInv'
  BY <1>5, UseKeeps
<1>6. ASSUME NEW o \in Orders, cancel_order(o) \/ assign_perm(o) \/ map_perm_id(o)  PROVE PathInv'
  <2>1. cancel_order(o) => \E c \in Calls : begin(c)
    BY DEF cancel_order, Calls
  <2> QED  BY <1>6, <2>1, ConnectingKeeps, AssignPermKeeps, MapPermIdKeeps
<1>7. ASSUME NEW o \in Orders, atBroker[o] # "none", NEW status \in Following(atBroker[o]),
             broker_reports(o, status)
      PROVE  PathInv'
  BY <1>7, BrokerReportsKeeps DEF Placed
<1>8. CASE UNCHANGED vars
  <2>1. UNCHANGED <<connVars, attached, brokerVars, polls, perm_to_ours, ready, orderVars>>
    BY <1>8 DEF vars
  <2>2. Connection' /\ \A o \in Orders : pc'[o] = pc[o]
    BY <2>1, ConnectionKeeps
  <2> QED  BY <2>1, <2>2, OrdersUntouched DEF PathInv
<1> QED  BY <1>1, <1>2, <1>3, <1>4, <1>5, <1>6, <1>7, <1>8, Zenon DEF Next

\* The engine's orders are the broker's, for any number of orders, attempts,
\* polls, sessions and reports: one session however many callers connect at once,
\* updates that go to their order and never run ahead of the broker, and no final
\* status undone by an earlier one, but for reports whose loss has a known cause.
THEOREM EngineIsBehind == Spec => []EngineFollowsBroker
<1>1. Init => PathInv
  BY PathInvInit
<1>2. PathInv /\ [Next]_vars => PathInv'
  BY PathInvStep
<1>3. PathInv => EngineFollowsBroker
  <2> SUFFICES ASSUME PathInv  PROVE EngineFollowsBroker
    OBVIOUS
  <2>1. OrderPathTypeOK
    <3>1. {o \in Orders : orders[o] # NoOrder} = {o \in Orders : Placed(o)}
      BY DEF PathInv, OrdersInv, EngineFits, Fits, NoOrder, OurStatuses
    <3>2. /\ ib \in 0 .. MaxSessions /\ alive \subseteq 1 .. MaxSessions
          /\ attached \subseteq 1 .. MaxSessions
      BY OrderPathAssumption DEF PathInv, Connection
    <3> QED  BY <3>1, <3>2 DEF OrderPathTypeOK, PathInv, Connection, OrdersInv, Broker, Submitted
  <2>2. OneSession
    BY DEF OneSession, PathInv, Connection
  <2>3. UpdatesMatchOrder
    BY DEF UpdatesMatchOrder, PathInv, OrdersInv, EngineFits, Fits, Placed, NoOrder, None, OurStatuses
  <2>4. LossHasCause
    <3> SUFFICES ASSUME ready = << >>, NEW o \in Orders, reports[o] > 0, o \notin lost
                 PROVE  orders[o].status = our_status(trade[o].status)
      BY DEF LossHasCause
    <3>1. Awaited(ready, o) \/ Shows(o, Told(o))
      BY DEF PathInv, OrdersInv, Reported
    <3>2. 1 .. Len(ready) = {}
      OBVIOUS
    <3> QED  BY <3>1, <3>2 DEF Awaited, Shows, ShowsLast, Told
  <2> QED  BY <2>1, <2>2, <2>3, <2>4 DEF EngineFollowsBroker
<1> QED  BY <1>1, <1>2, <1>3, PTL DEF Spec
=============================================================================
