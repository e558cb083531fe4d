---------------------------- MODULE LedgerProofs ----------------------------
(***************************************************************************)
(* For any symbols, orders, prices and limits of the ledger: its positions *)
(* are those of the fills it accounted (LedgerInvariant), its profit is the*)
(* sum of its components (LedgerReconciles), and a settlement closes the   *)
(* positions of the moment (SettlementClosesCurrent).                      *)
(***************************************************************************)
EXTENDS Ledger, DataLemmas

(* The inductive invariant: a prepared plan carries the revision it was     *)
(* made at, and while that is still the revision of the ledger the plan     *)
(* closes its positions and leaves the marks of flat symbols alone.         *)
PlanInv ==
    /\ revision \in Nat
    /\ plan # NoPlan =>
          /\ plan.revision \in Nat /\ plan.revision <= revision
          /\ plan.revision = revision =>
                /\ plan.closes = positions
                /\ \A s \in Symbols : positions[s] = 0 => plan.marks[s] = marks[s]

\* update_mark and record_queue_fill either raise and change nothing or make
\* every plan stale.
LEMMA ChangesMoveRevision ==
    ASSUME \/ \E s \in Symbols, mark \in Mids : UpdateMark(s, mark)
           \/ \E o \in Orders, filled \in 1 .. Original, mark \in Mids :
                 \E quantity \in 1 .. filled : RecordQueueFill(o, quantity, filled, mark)
    PROVE  \/ UNCHANGED ledger
           \/ revision' = revision + 1 /\ UNCHANGED <<settled, plan>>
<1>1. ASSUME NEW s \in Symbols, NEW mark \in Mids, UpdateMark(s, mark)
      PROVE  \/ UNCHANGED ledger
             \/ revision' = revision + 1 /\ UNCHANGED <<settled, plan>>
  BY <1>1 DEF UpdateMark, Raise
<1>2. ASSUME NEW o \in Orders, NEW filled \in 1 .. Original, NEW mark \in Mids,
             NEW quantity \in 1 .. filled, RecordQueueFill(o, quantity, filled, mark)
      PROVE  \/ UNCHANGED ledger
             \/ revision' = revision + 1 /\ UNCHANGED <<settled, plan>>
  BY <1>2 DEF RecordQueueFill, Raise
<1> QED BY <1>1, <1>2

\* prepare_terminal_accounting plans for the ledger as it is.
LEMMA PlansAreMadeNow ==
    ASSUME NEW quote, Prepare(quote)
    PROVE  /\ UNCHANGED <<positions, marks, revision, settled>>
           /\ \/ UNCHANGED plan
              \/ /\ plan'.revision = revision /\ plan'.closes = positions
                 /\ \A s \in Symbols : positions[s] = 0 => plan'.marks[s] = marks[s]
<1>1. \/ UNCHANGED ledger
      \/ /\ plan' = [revision |-> revision, closes |-> positions,
                     marks |-> ClosingMarks(quote), money |-> ClosingMoney(quote)]
         /\ UNCHANGED <<positions, marks, revision, settled>>
  BY DEF Prepare, Raise
<1>2. \A s \in Symbols : positions[s] = 0 => ClosingMarks(quote)[s] = marks[s]
  BY DEF ClosingMarks
<1> QED BY <1>1, <1>2 DEF ledger

LEMMA PlanKept ==
    ASSUME PlanInv, [Next]_vars
    PROVE  /\ PlanInv'
           /\ settled' # settled => /\ plan.closes = positions
                                    /\ \A s \in Symbols : positions[s] = 0 => marks'[s] = marks[s]
<1>1. ASSUME UNCHANGED ledger
      PROVE  PlanInv' /\ settled' = settled
  BY <1>1 DEF ledger, PlanInv
<1>2. CASE \/ \E s \in Symbols, mark \in Mids : UpdateMark(s, mark)
           \/ \E o \in Orders, filled \in 1 .. Original, mark \in Mids :
                 \E quantity \in 1 .. filled : RecordQueueFill(o, quantity, filled, mark)
  BY <1>1, <1>2, ChangesMoveRevision DEF PlanInv
<1>3. ASSUME NEW quote, Prepare(quote)
      PROVE  PlanInv' /\ settled' = settled
  BY <1>3, PlansAreMadeNow DEF PlanInv
<1>4. CASE Commit
  <2>1. CASE UNCHANGED ledger
    BY <1>1, <2>1
  <2>2. CASE /\ CurrentPlan /\ marks' = plan.marks
             /\ plan' = NoPlan /\ revision' = revision + 1
    BY <2>2 DEF PlanInv, CurrentPlan
  <2> QED BY <1>4, <2>1, <2>2 DEF Commit, Raise
<1>5. CASE UNCHANGED vars
  BY <1>1, <1>5 DEF vars
<1> QED BY <1>2, <1>3, <1>4, <1>5 DEF Next

(* A settlement closes exactly the positions of that moment, whatever fills *)
(* and marks came between its two phases (commit_terminal_accounting).      *)
THEOREM SettlementClosesCurrent == Spec => ClosesCurrentPositions
<1>1. Init => PlanInv
  BY DEF Init, PlanInv
<1>2. ASSUME PlanInv, [Next]_vars
      PROVE  [settled' # settled => plan.closes = positions
                 /\ \A s \in Symbols : positions[s] = 0 => marks'[s] = marks[s]]_vars
  BY <1>2, PlanKept
<1> QED BY <1>1, <1>2, PlanKept, PTL DEF Spec, ClosesCurrentPositions
-----------------------------------------------------------------------------
(* Reconciliation: the decomposition is exact.                              *)

(* The value at mark of what a symbol holds, and of everything held.        *)
Held(at, mk) ==
    [s \in Symbols |-> IF mk[s] = NoMark THEN 0 ELSE MarkedValue(at[s], mk[s])]
Worth(at, mk) == SumFunctionOnSet(Held(at, mk), Symbols)

Parts(m) == m["spread"] + m["markToMarket"] + m["slippage"]

(* Cash and inventory together are what the parts say.                      *)
Exact(at, mk, m) == GrossCash(m) + Worth(at, mk) = Parts(m)

Positions == [Symbols -> Int]
Marks == [Symbols -> Int \cup {NoMark}]
Moneys == [Totals -> Int]
Flat == [s \in Symbols |-> 0]

(* What is held has a mark.                                                 *)
Marked(at, mk) == \A s \in Symbols : at[s] # 0 => mk[s] # NoMark

(* A list of rows that no symbol has twice and that every held symbol has.  *)
Lists(symbols, at) ==
    /\ symbols \in Seq(Symbols)
    /\ \A i, j \in 1 .. Len(symbols) : symbols[i] = symbols[j] => i = j
    /\ \A s \in Symbols : at[s] # 0 => \E i \in 1 .. Len(symbols) : symbols[i] = s

LEMMA HeldType ==
    ASSUME NEW at \in Positions, NEW mk \in Marks
    PROVE  /\ Held(at, mk) \in [Symbols -> Int] /\ Worth(at, mk) \in Int
           /\ \A S \in SUBSET Symbols : Summable(Held(at, mk), S)
<1>1. ASSUME NEW s \in Symbols PROVE Held(at, mk)[s] \in Int
  <2>1. at[s] \in Int /\ (mk[s] = NoMark \/ mk[s] \in Int)
    BY DEF Positions, Marks
  <2> QED BY <2>1 DEF Held, MarkedValue
<1>2. Held(at, mk) \in [Symbols -> Int]
  BY <1>1 DEF Held
<1>3. \A S \in SUBSET Symbols : Summable(Held(at, mk), S)
  BY <1>2, FS_Subset, LedgerAssumption DEF Summable
<1> QED BY <1>2, <1>3, SumType DEF Worth

\* A symbol held without inventory is worth nothing.
LEMMA NothingHeld ==
    ASSUME NEW at \in Positions, NEW mk \in Marks, NEW s \in Symbols, at[s] = 0
    PROVE  Held(at, mk)[s] = 0
<1>1. mk[s] = NoMark \/ mk[s] \in Int
  BY DEF Marks
<1> QED BY <1>1 DEF Held, MarkedValue

LEMMA FlatIsWorthless ==
    ASSUME NEW mk \in Marks
    PROVE  Flat \in Positions /\ Worth(Flat, mk) = 0
<1>1. Flat \in Positions
  BY DEF Flat, Positions
<1>2. \A s \in Symbols : Held(Flat, mk)[s] = 0
  BY <1>1, NothingHeld DEF Flat
<1> QED BY <1>1, <1>2, SumZero, LedgerAssumption DEF Worth

(* The sum over the rows is the value of everything held, in whatever order *)
(* the rows stand.                                                          *)
LEMMA ValuesSum ==
    ASSUME NEW at \in Positions, NEW mk \in Marks, NEW symbols, Lists(symbols, at)
    PROVE  SumOf(Values(symbols, at, mk)) = Worth(at, mk)
<1> DEFINE I == 1 .. Len(symbols)
           there == {symbols[i] : i \in I}
<1>1. symbols \in Seq(Symbols) /\ Len(symbols) \in Nat /\ DOMAIN symbols = I
  BY DEF Lists
<1>2. IsFiniteSet(I)
  BY <1>1, FS_Interval
<1>3. /\ DOMAIN Values(symbols, at, mk) = I
      /\ \A i \in I : /\ Values(symbols, at, mk)[i] = Held(at, mk)[symbols[i]]
                      /\ Held(at, mk)[symbols[i]] \in Int
  <2>1. \A i \in I : symbols[i] \in Symbols
    BY <1>1
  <2> QED BY <1>1, <2>1, HeldType DEF Values, Held
<1>4. SumFunctionOnSet(Values(symbols, at, mk), I) = SumFunctionOnSet(Held(at, mk), there)
  <2>1. \A i, j \in I : symbols[i] = symbols[j] => i = j
    BY DEF Lists
  <2> HIDE DEF I
  <2> QED BY <1>2, <1>3, <2>1, SumReindexed
<1>5. there \in SUBSET Symbols /\ \A s \in Symbols \ there : Held(at, mk)[s] = 0
  BY <1>1, NothingHeld DEF Lists
<1>6. Len(Values(symbols, at, mk)) = Len(symbols)
  BY <1>1, <1>3 DEF Values
<1> HIDE DEF there
<1>7. SumFunctionOnSet(Held(at, mk), Symbols) = SumFunctionOnSet(Held(at, mk), there)
  BY <1>5, HeldType, SumOfPart
<1> QED BY <1>4, <1>6, <1>7 DEF SumOf, SumFirst, Worth

LEMMA ComponentsSum ==
    ASSUME NEW m \in Moneys
    PROVE  SumOf(Components(m)) = Parts(m) - Fees(m)
<1> DEFINE c == Components(m)
<1>1. /\ c[1] = m["spread"] /\ c[2] = m["markToMarket"] /\ c[3] = m["slippage"]
      /\ c[4] = -Fees(m) /\ Len(c) = 4
  BY DEF Components
<1>2. /\ \A t \in Totals : m[t] \in Int
      /\ Fees(m) \in Int /\ Parts(m) \in Int
  BY DEF Moneys, Totals, Fees, Parts
<1>3. c[1] \in Int /\ c[2] \in Int /\ c[3] \in Int /\ c[4] \in Int
  BY <1>1, <1>2 DEF Totals
<1>4. 1 .. 4 = {1, 2, 3, 4}
  OBVIOUS
<1> HIDE DEF c
<1>5. SumFunctionOnSet(c, {1, 2, 3, 4}) = c[1] + c[2] + c[3] + c[4]
  BY <1>3, SumFour
<1> QED BY <1>1, <1>2, <1>4, <1>5 DEF SumOf, SumFirst, Parts, c

(* An exact ledger passes the check that raises ERR_INVARIANT, over its own *)
(* rows and over the sorted symbols.                                        *)
LEMMA ExactReconciles ==
    ASSUME NEW at \in Positions, NEW mk \in Marks, NEW m \in Moneys, Exact(at, mk, m),
           NEW symbols, Lists(symbols, at)
    PROVE  /\ MarkedPnl(m, Values(symbols, at, mk)) = SumOf(Components(m))
           /\ Verdict(symbols, at, mk, m) # "invariant"
<1>1. MarkedPnl(m, Values(symbols, at, mk)) = GrossCash(m) - Fees(m) + Worth(at, mk)
  BY ValuesSum DEF MarkedPnl
<1>2. /\ GrossCash(m) \in Int /\ Fees(m) \in Int /\ Parts(m) \in Int
      /\ Worth(at, mk) \in Int
  BY HeldType DEF Moneys, Totals, GrossCash, Fees, Parts
<1>3. MarkedPnl(m, Values(symbols, at, mk)) = SumOf(Components(m))
  BY <1>1, <1>2, ComponentsSum DEF Exact
<1> QED BY <1>3 DEF Verdict

LEMMA SortedSymbols ==
    ASSUME NEW at
    PROVE  Lists(BySymbol, at)
<1> DEFINE Sorted(q) == /\ q \in [1 .. Cardinality(Symbols) -> Symbols]
                        /\ ToSet(q) = Symbols
                        /\ \A i, j \in DOMAIN q : i < j => q[i] < q[j]
<1>1. IsFiniteSet(Symbols) /\ Symbols \subseteq Int /\ Cardinality(Symbols) \in Nat
  BY LedgerAssumption, FS_CardinalityType
<1>2. PICK p : Ascends(p, Symbols)
  BY <1>1, AscendingExists
<1>3. Sorted(p)
  BY <1>2 DEF Ascends, ToSet
<1>4. Sorted(BySymbol)
  BY <1>3 DEF BySymbol
<1>5. BySymbol \in Seq(Symbols) /\ DOMAIN BySymbol = 1 .. Len(BySymbol)
  BY <1>1, <1>4
<1>6. ASSUME NEW i \in 1 .. Len(BySymbol), NEW j \in 1 .. Len(BySymbol),
             BySymbol[i] = BySymbol[j], i # j
      PROVE  FALSE
  <2>1. BySymbol[i] \in Symbols /\ BySymbol[j] \in Symbols
    BY <1>5
  <2>2. (i < j => BySymbol[i] < BySymbol[j]) /\ (j < i => BySymbol[j] < BySymbol[i])
    BY <1>4, <1>5
  <2>3. \A s \in Symbols : s \in Int
    BY <1>1
  <2>4. BySymbol[i] \in Int /\ BySymbol[j] \in Int /\ i \in Int /\ j \in Int
    BY <2>1, <2>3
  <2> QED BY <1>6, <2>2, <2>4
<1>7. \A s \in Symbols : \E i \in 1 .. Len(BySymbol) : BySymbol[i] = s
  BY <1>4, <1>5 DEF ToSet
<1> QED BY <1>5, <1>6, <1>7 DEF Lists
-----------------------------------------------------------------------------
(* The steps keep the ledger exact.                                         *)

LEMMA WorthChange ==
    ASSUME NEW at \in Positions, NEW mk \in Marks, NEW s \in Symbols,
           NEW held \in Int, NEW mark \in Int
    PROVE  LET at2 == [at EXCEPT ![s] = held]
               mk2 == [mk EXCEPT ![s] = mark]
           IN  /\ at2 \in Positions /\ mk2 \in Marks
               /\ Worth(at2, mk2) = Worth(at, mk) + (held * mark * 50 - Held(at, mk)[s])
<1> DEFINE at2 == [at EXCEPT ![s] = held]
           mk2 == [mk EXCEPT ![s] = mark]
<1>1. at2 \in Positions /\ mk2 \in Marks
  BY DEF Positions, Marks
<1>2. /\ at2[s] = held /\ mk2[s] = mark
      /\ \A t \in Symbols \ {s} : at2[t] = at[t] /\ mk2[t] = mk[t]
  BY DEF Positions, Marks
<1>3. mark # NoMark
  BY LedgerAssumption
<1> HIDE DEF at2, mk2
<1>4. /\ Held(at2, mk2)[s] = held * mark * 50
      /\ \A t \in Symbols \ {s} : Held(at2, mk2)[t] = Held(at, mk)[t]
  BY <1>2, <1>3 DEF Held, MarkedValue
<1>5. Summable(Held(at2, mk2), Symbols) /\ Summable(Held(at, mk), Symbols)
  BY <1>1, HeldType
<1>6. Worth(at2, mk2) = Worth(at, mk) + (held * mark * 50 - Held(at, mk)[s])
  BY <1>4, <1>5, SumChange DEF Worth
<1> QED BY <1>1, <1>6 DEF at2, mk2

\* What a position gains from its new mark.
LEMMA RevaluationIsGain ==
    ASSUME positions \in Positions, marks \in Marks, Marked(positions, marks),
           NEW s \in Symbols, NEW mark \in Int
    PROVE  /\ Revaluation(s, mark) \in Int
           /\ positions[s] * mark * 50 - Held(positions, marks)[s] = Revaluation(s, mark)
<1>1. positions[s] \in Int /\ (marks[s] = NoMark \/ marks[s] \in Int)
  BY DEF Positions, Marks
<1>2. CASE marks[s] = NoMark
  <2>1. positions[s] = 0 /\ Held(positions, marks)[s] = 0 /\ Revaluation(s, mark) = 0
    BY <1>2 DEF Marked, Held, Revaluation
  <2> QED BY <2>1
<1>3. CASE marks[s] # NoMark
  <2>1. /\ Held(positions, marks)[s] = positions[s] * marks[s] * 50
        /\ Revaluation(s, mark) = positions[s] * (mark - marks[s]) * 50
        /\ marks[s] \in Int
    BY <1>1, <1>3 DEF Held, MarkedValue, Revaluation
  <2> QED BY <1>1, <2>1
<1> QED BY <1>2, <1>3

LEMMA MarkKeepsExact ==
    ASSUME positions \in Positions, marks \in Marks, money \in Moneys,
           Marked(positions, marks), Exact(positions, marks, money),
           NEW s \in Symbols, NEW mark \in Int
    PROVE  LET m == [money EXCEPT !["markToMarket"] = @ + Revaluation(s, mark)]
               mk == [marks EXCEPT ![s] = mark]
           IN  /\ mk \in Marks /\ m \in Moneys
               /\ Marked(positions, mk) /\ Exact(positions, mk, m)
<1> DEFINE m == [money EXCEPT !["markToMarket"] = @ + Revaluation(s, mark)]
           mk == [marks EXCEPT ![s] = mark]
           same == [positions EXCEPT ![s] = positions[s]]
<1>1. Revaluation(s, mark) \in Int
  BY RevaluationIsGain
<1>2. positions[s] \in Int /\ same = positions
  BY DEF Positions
<1>3. mk \in Marks /\ Worth(same, mk) = Worth(positions, marks) + Revaluation(s, mark)
  <2> HIDE DEF same
  <2>1. /\ mk \in Marks
        /\ Worth(same, mk) = Worth(positions, marks)
                               + (positions[s] * mark * 50 - Held(positions, marks)[s])
    BY <1>2, WorthChange DEF same
  <2> QED BY <2>1, RevaluationIsGain
<1>4. /\ m \in Moneys
      /\ m["markToMarket"] = money["markToMarket"] + Revaluation(s, mark)
      /\ \A t \in Totals \ {"markToMarket"} : m[t] = money[t]
  BY <1>1 DEF Moneys, Totals
<1>5. Marked(positions, mk)
  BY LedgerAssumption DEF Marked, Marks
<1>6. \A t \in Totals : money[t] \in Int
  BY DEF Moneys
<1>7. Worth(positions, marks) \in Int
  BY HeldType
<1> HIDE DEF m, mk
<1>8. Exact(positions, mk, m)
  BY <1>1, <1>2, <1>3, <1>4, <1>6, <1>7 DEF Exact, GrossCash, Parts, Totals, same
<1> QED BY <1>3, <1>4, <1>5, <1>8 DEF m, mk

LEMMA FillArithmetic ==
    ASSUME NEW held \in Int, NEW side \in Int, NEW price4 \in Int, NEW quantity \in Int,
           NEW mark \in Int
    PROVE  /\ TradeCash(side, price4, quantity) \in Int
           /\ MarkRelative(side, price4, quantity, mark) \in Int
           /\ (held + side * quantity) * mark * 50 + TradeCash(side, price4, quantity)
                = held * mark * 50 + MarkRelative(side, price4, quantity, mark)
<1>1. (held + side * quantity) * mark * 50 = held * mark * 50 + side * quantity * mark * 50
  OBVIOUS
<1>2. side * (mark - 2 * price4) * quantity * 50
        = side * quantity * mark * 50 + -side * price4 * quantity * 100
  OBVIOUS
<1> QED BY <1>1, <1>2 DEF TradeCash, MarkRelative

\* The money of a fill that has been accounted.
Filled(s, side, price4, quantity, mark) ==
    [money EXCEPT !["markToMarket"] = @ + Revaluation(s, mark),
                  !["passiveCash"] = @ + TradeCash(side, price4, quantity),
                  !["makerFees"] = @ + MakerFee * quantity,
                  !["spread"] = @ + MarkRelative(side, price4, quantity, mark)]

LEMMA FillKeepsExact ==
    ASSUME positions \in Positions, marks \in Marks, money \in Moneys,
           Marked(positions, marks), Exact(positions, marks, money),
           NEW s \in Symbols, NEW mark \in Int, NEW side \in Int, NEW price4 \in Int,
           NEW quantity \in Int
    PROVE  LET m == Filled(s, side, price4, quantity, mark)
               at == [positions EXCEPT ![s] = positions[s] + side * quantity]
               mk == [marks EXCEPT ![s] = mark]
           IN  /\ at \in Positions /\ mk \in Marks /\ m \in Moneys
               /\ Marked(at, mk) /\ Exact(at, mk, m)
<1> DEFINE m == Filled(s, side, price4, quantity, mark)
           at == [positions EXCEPT ![s] = positions[s] + side * quantity]
           mk == [marks EXCEPT ![s] = mark]
           held == positions[s]
           gain == Revaluation(s, mark)
           cash == TradeCash(side, price4, quantity)
           spread == MarkRelative(side, price4, quantity, mark)
<1>1. held \in Int /\ held + side * quantity \in Int /\ MakerFee * quantity \in Int
  BY LedgerAssumption DEF Positions
<1>2. /\ cash \in Int /\ spread \in Int
      /\ (held + side * quantity) * mark * 50 + cash = held * mark * 50 + spread
  <2> HIDE DEF held
  <2> QED BY <1>1, FillArithmetic
<1>3. gain \in Int /\ held * mark * 50 - Held(positions, marks)[s] = gain
  BY RevaluationIsGain
<1>4. Held(positions, marks)[s] \in Int /\ Worth(positions, marks) \in Int
  BY HeldType
<1>5. /\ at \in Positions /\ mk \in Marks
      /\ Worth(at, mk) = Worth(positions, marks)
                           + ((held + side * quantity) * mark * 50 - Held(positions, marks)[s])
  BY <1>1, WorthChange
<1> HIDE DEF held, gain, cash, spread
<1>6. Worth(at, mk) + cash = Worth(positions, marks) + gain + spread
  <2>1. held * mark * 50 \in Int /\ (held + side * quantity) * mark * 50 \in Int
    BY <1>1
  <2> QED BY <1>2, <1>3, <1>4, <1>5, <2>1
<1>7. /\ m \in Moneys
      /\ m["markToMarket"] = money["markToMarket"] + gain
      /\ m["passiveCash"] = money["passiveCash"] + cash
      /\ m["spread"] = money["spread"] + spread
      /\ m["liquidationCash"] = money["liquidationCash"]
      /\ m["slippage"] = money["slippage"]
  BY <1>1, <1>2, <1>3 DEF Moneys, Totals, Filled, gain, cash, spread
<1>8. Marked(at, mk)
  <2>1. /\ mk[s] # NoMark
        /\ \A t \in Symbols \ {s} : at[t] = positions[t] /\ mk[t] = marks[t]
    BY LedgerAssumption DEF Positions, Marks
  <2> QED BY <2>1 DEF Marked
<1>9. \A t \in Totals : money[t] \in Int
  BY DEF Moneys
<1> HIDE DEF m, mk, at
<1>10. Worth(at, mk) \in Int
  BY <1>5, HeldType
<1>11. Exact(at, mk, m)
  BY <1>2, <1>3, <1>4, <1>6, <1>7, <1>9, <1>10 DEF Exact, GrossCash, Parts, Totals
<1> QED BY <1>5, <1>7, <1>8, <1>11 DEF m, mk, at
-----------------------------------------------------------------------------
(* A prepared settlement is exact for a flat ledger: what the closing       *)
(* trades pay is the inventory at its old marks, its revaluation and the    *)
(* slippage from the closing mid.                                           *)

Side(s) == IF positions[s] > 0 THEN -1 ELSE 1
Price(quote, s) == IF positions[s] > 0 THEN quote[s][1] ELSE quote[s][2]
Gains(quote) == [s \in Open |-> Revaluation(s, ClosingMid(quote, s))]
Cash(quote) == [s \in Open |-> TradeCash(Side(s), Price(quote, s), Abs(positions[s]))]
Taken == [s \in Open |-> TakerFee * Abs(positions[s])]
Slips(quote) ==
    [s \in Open |-> MarkRelative(Side(s), Price(quote, s), Abs(positions[s]),
                                 ClosingMid(quote, s))]

LEMMA CloseArithmetic ==
    ASSUME NEW held \in Int, NEW price \in Int, NEW mid \in Int,
           NEW side, side = IF held > 0 THEN -1 ELSE 1
    PROVE  /\ TradeCash(side, price, Abs(held)) \in Int
           /\ MarkRelative(side, price, Abs(held), mid) \in Int
           /\ TradeCash(side, price, Abs(held))
                = held * mid * 50 + MarkRelative(side, price, Abs(held), mid)
<1>1. (mid - 2 * price) * held * 50 = held * mid * 50 - price * held * 100
  OBVIOUS
<1>2. CASE held > 0
  BY <1>1, <1>2 DEF TradeCash, MarkRelative, Abs
<1>3. CASE ~(held > 0)
  <2>1. Abs(held) = -held
    BY <1>3 DEF Abs
  <2>2. (mid - 2 * price) * (-held) * 50 = -held * mid * 50 + price * held * 100
    OBVIOUS
  <2> QED BY <1>3, <2>1, <2>2 DEF TradeCash, MarkRelative
<1> QED BY <1>2, <1>3

LEMMA ClosingIsExact ==
    ASSUME positions \in Positions, marks \in Marks, money \in Moneys,
           Marked(positions, marks), Exact(positions, marks, money),
           NEW quote, \A s \in Open : quote[s] \in Nat \X Nat
    PROVE  /\ ClosingMarks(quote) \in Marks /\ ClosingMoney(quote) \in Moneys
           /\ GrossCash(ClosingMoney(quote)) = Parts(ClosingMoney(quote))
<1>1. Open \in SUBSET Symbols /\ IsFiniteSet(Open)
  BY FS_Subset, LedgerAssumption DEF Open
<1>2. ASSUME NEW s \in Open
      PROVE  /\ ClosingMid(quote, s) \in Int /\ Gains(quote)[s] \in Int
             /\ Cash(quote)[s] \in Int /\ Taken[s] \in Int /\ Slips(quote)[s] \in Int
             /\ Held(positions, marks)[s] \in Int
             /\ Cash(quote)[s] = (Held(positions, marks)[s] + Gains(quote)[s])
                                    + Slips(quote)[s]
  <2>1. /\ quote[s][1] \in Int /\ quote[s][2] \in Int /\ s \in Symbols
        /\ positions[s] \in Int
    BY <1>1 DEF Positions
  <2>2. ClosingMid(quote, s) \in Int /\ Price(quote, s) \in Int
    BY <2>1 DEF ClosingMid, Price
  <2>3. /\ Gains(quote)[s] = Revaluation(s, ClosingMid(quote, s))
        /\ Cash(quote)[s] = TradeCash(Side(s), Price(quote, s), Abs(positions[s]))
        /\ Taken[s] = TakerFee * Abs(positions[s])
        /\ Slips(quote)[s] = MarkRelative(Side(s), Price(quote, s), Abs(positions[s]),
                                          ClosingMid(quote, s))
    BY DEF Gains, Cash, Taken, Slips
  <2>4. Taken[s] \in Int
    <3>1. Abs(positions[s]) \in Int
      BY <2>1 DEF Abs
    <3> QED BY <2>3, <3>1, LedgerAssumption
  <2>5. /\ Gains(quote)[s] \in Int
        /\ positions[s] * ClosingMid(quote, s) * 50 - Held(positions, marks)[s]
             = Gains(quote)[s]
    BY <2>1, <2>2, <2>3, RevaluationIsGain
  <2>6. /\ Cash(quote)[s] \in Int /\ Slips(quote)[s] \in Int
        /\ Cash(quote)[s] = positions[s] * ClosingMid(quote, s) * 50 + Slips(quote)[s]
    <3> DEFINE held == positions[s]
               price == Price(quote, s)
               mid == ClosingMid(quote, s)
               side == Side(s)
    <3>1. side = (IF held > 0 THEN -1 ELSE 1)
      BY DEF Side
    <3>2. held \in Int /\ price \in Int /\ mid \in Int
      BY <2>1, <2>2
    <3> HIDE DEF held, price, mid, side
    <3>3. /\ TradeCash(side, price, Abs(held)) \in Int
          /\ MarkRelative(side, price, Abs(held), mid) \in Int
          /\ TradeCash(side, price, Abs(held))
               = held * mid * 50 + MarkRelative(side, price, Abs(held), mid)
      BY ONLY <3>1, <3>2, CloseArithmetic
    <3> QED BY <2>3, <3>3 DEF held, price, mid, side
  <2>7. /\ Held(positions, marks)[s] \in Int
        /\ positions[s] * ClosingMid(quote, s) * 50 \in Int
    BY <2>1, <2>2, HeldType
  <2> QED BY <2>2, <2>4, <2>5, <2>6, <2>7
<1> DEFINE marked == [s \in Open |-> Held(positions, marks)[s] + Gains(quote)[s]]
<1>3. /\ Summable(Gains(quote), Open) /\ Summable(Cash(quote), Open)
      /\ Summable(Taken, Open) /\ Summable(Slips(quote), Open)
      /\ Summable(Held(positions, marks), Open) /\ Summable(marked, Open)
  BY <1>1, <1>2 DEF Summable
<1>4. \A s \in Open : /\ marked[s] = Held(positions, marks)[s] + Gains(quote)[s]
                      /\ Cash(quote)[s] = marked[s] + Slips(quote)[s]
  BY <1>2
<1> HIDE DEF marked
<1>5. SumFunctionOnSet(Cash(quote), Open)
        = SumFunctionOnSet(Held(positions, marks), Open)
            + SumFunctionOnSet(Gains(quote), Open) + SumFunctionOnSet(Slips(quote), Open)
  <2>1. SumFunctionOnSet(Cash(quote), Open)
          = SumFunctionOnSet(marked, Open) + SumFunctionOnSet(Slips(quote), Open)
    BY <1>3, <1>4, SumLinear
  <2>2. SumFunctionOnSet(marked, Open)
          = SumFunctionOnSet(Held(positions, marks), Open)
              + SumFunctionOnSet(Gains(quote), Open)
    BY <1>3, <1>4, SumLinear
  <2> QED BY <2>1, <2>2
<1>6. SumFunctionOnSet(Held(positions, marks), Open) = Worth(positions, marks)
  <2>1. \A s \in Symbols \ Open : Held(positions, marks)[s] = 0
    BY NothingHeld DEF Open
  <2> QED BY <1>1, <2>1, HeldType, SumOfPart DEF Worth
<1>7. /\ SumFunctionOnSet(Gains(quote), Open) \in Int
      /\ SumFunctionOnSet(Cash(quote), Open) \in Int
      /\ SumFunctionOnSet(Taken, Open) \in Int
      /\ SumFunctionOnSet(Slips(quote), Open) \in Int
      /\ Worth(positions, marks) \in Int
  BY <1>3, HeldType, SumType
<1>8. ClosingMarks(quote) \in Marks
  <2>1. \A s \in Symbols : ClosingMarks(quote)[s] \in Int \cup {NoMark}
    BY <1>2 DEF ClosingMarks, Marks, Open
  <2> QED BY <2>1 DEF ClosingMarks, Marks
<1>9. ClosingMoney(quote)
        = [money EXCEPT !["markToMarket"] = @ + SumFunctionOnSet(Gains(quote), Open),
                        !["liquidationCash"] = @ + SumFunctionOnSet(Cash(quote), Open),
                        !["takerFees"] = @ + SumFunctionOnSet(Taken, Open),
                        !["slippage"] = @ + SumFunctionOnSet(Slips(quote), Open)]
  BY DEF ClosingMoney, Gains, Cash, Taken, Slips, Side, Price
<1> DEFINE m == ClosingMoney(quote)
<1>10. /\ m \in Moneys
       /\ m["markToMarket"] = money["markToMarket"] + SumFunctionOnSet(Gains(quote), Open)
       /\ m["liquidationCash"]
            = money["liquidationCash"] + SumFunctionOnSet(Cash(quote), Open)
       /\ m["slippage"] = money["slippage"] + SumFunctionOnSet(Slips(quote), Open)
       /\ m["passiveCash"] = money["passiveCash"] /\ m["spread"] = money["spread"]
  BY <1>7, <1>9 DEF Moneys, Totals
<1>11. \A t \in Totals : money[t] \in Int
  BY DEF Moneys
<1> HIDE DEF m
<1>12. GrossCash(m) = Parts(m)
  BY <1>5, <1>6, <1>7, <1>10, <1>11 DEF Exact, GrossCash, Parts, Totals
<1> QED BY <1>8, <1>10, <1>12 DEF m

-----------------------------------------------------------------------------
(* The inductive invariant: the types, the sums of fills that LedgerInv     *)
(* states, and a ledger that is exact, with every held symbol marked and    *)
(* listed, and whose plan, stale or not, is exact for flat positions.       *)

TypeOK ==
    /\ positions \in Positions /\ marks \in Marks /\ money \in Moneys
    /\ peak \in [Symbols -> Int] /\ accounted \in [Orders -> Int]
    /\ settled \in BOOLEAN

PlanIsExact ==
    plan # NoPlan => /\ plan.marks \in Marks /\ plan.money \in Moneys
                     /\ GrossCash(plan.money) = Parts(plan.money)

Sound ==
    /\ Lists(rows, positions)
    /\ Marked(positions, marks)
    /\ Exact(positions, marks, money)
    /\ PlanIsExact
    /\ raised # "invariant"

IInv == TypeOK /\ LedgerInv /\ Sound

LEMMA SoundReconciles == ASSUME TypeOK, Sound PROVE Reconciles
<1> QED BY ExactReconciles DEF TypeOK, Sound, Reconciles

LEMMA InitSound == Init => IInv
<1> SUFFICES ASSUME Init PROVE IInv
  OBVIOUS
<1>1. positions = Flat /\ marks \in Marks /\ Flat \in Positions /\ Worth(Flat, marks) = 0
  BY FlatIsWorthless DEF Init, Flat, Marks
<1>2. TypeOK
  <2>1. money \in Moneys /\ accounted \in [Orders -> Int] /\ peak \in [Symbols -> Int]
    BY DEF Init, Moneys
  <2>2. settled \in BOOLEAN
    BY DEF Init
  <2> QED BY <1>1, <2>1, <2>2 DEF TypeOK
<1>3. LedgerInv
  <2>1. ASSUME NEW s \in Symbols
        PROVE  SumFunctionOnSet([o \in Orders |-> Terms[o].side * accounted[o]],
                                {o \in Orders : Terms[o].symbol = s}) = 0
    <3> DEFINE f == [o \in Orders |-> Terms[o].side * accounted[o]]
               mine == {o \in Orders : Terms[o].symbol = s}
    <3>1. ASSUME NEW o \in mine PROVE f[o] = 0
      <4>1. Terms[o].side \in Int /\ accounted[o] = 0
        BY LedgerAssumption DEF Init
      <4> QED BY <4>1
    <3>2. IsFiniteSet(mine)
      BY FS_Subset, LedgerAssumption
    <3> HIDE DEF f, mine
    <3>3. SumFunctionOnSet(f, mine) = 0
      BY <3>1, <3>2, SumZero
    <3> QED BY <3>3 DEF f, mine
  <2>2. 0 <= InventoryLimit /\ Abs(0) = 0 /\ 0 \in 0 .. Original
    BY LedgerAssumption DEF Abs
  <2> QED BY <2>1, <2>2 DEF Init, LedgerInv
<1>4. Exact(positions, marks, money)
  BY <1>1 DEF Init, Exact, GrossCash, Parts, Totals
<1>5. Lists(rows, positions)
  BY DEF Init, Lists
<1> QED BY <1>2, <1>3, <1>4, <1>5 DEF Init, IInv, Sound, Marked, PlanIsExact
LEMMA KeptUnchanged ==
    ASSUME IInv, UNCHANGED ledger, raised' # "invariant"
    PROVE  IInv'
<1>1. TypeOK' /\ LedgerInv'
  BY DEF IInv, ledger, TypeOK, LedgerInv
<1>2. Sound'
  BY DEF IInv, ledger, Sound, PlanIsExact, Exact, Worth
<1> QED BY <1>1, <1>2 DEF IInv

\* The dictionary gets a row for a symbol it did not have, at its end.
LEMMA RowAdded ==
    ASSUME NEW at, NEW at2, Lists(rows, at), NEW s \in Symbols,
           \A t \in Symbols \ {s} : at2[t] = at[t]
    PROVE  Lists(WithRow(s), at2)
<1>1. rows \in Seq(Symbols) /\ Len(rows) \in Nat
  BY DEF Lists
<1>2. CASE Contains(rows, s)
  BY <1>1, <1>2 DEF Lists, WithRow, Contains
<1>3. CASE ~Contains(rows, s)
  <2>1. /\ WithRow(s) = Append(rows, s) /\ WithRow(s) \in Seq(Symbols)
        /\ Len(WithRow(s)) = Len(rows) + 1
        /\ WithRow(s)[Len(rows) + 1] = s
        /\ \A i \in 1 .. Len(rows) : WithRow(s)[i] = rows[i] /\ rows[i] # s
    BY <1>1, <1>3 DEF WithRow, Contains
  <2>2. ASSUME NEW i \in 1 .. Len(WithRow(s)), NEW j \in 1 .. Len(WithRow(s)),
               WithRow(s)[i] = WithRow(s)[j]
        PROVE  i = j
    <3>1. /\ i \in 1 .. Len(rows) \/ i = Len(rows) + 1
          /\ j \in 1 .. Len(rows) \/ j = Len(rows) + 1
      BY <1>1, <2>1
    <3> QED BY <2>1, <2>2, <3>1 DEF Lists
  <2>3. ASSUME NEW t \in Symbols, at2[t] # 0
        PROVE  \E i \in 1 .. Len(WithRow(s)) : WithRow(s)[i] = t
    <3>1. CASE t = s
      BY <1>1, <2>1, <3>1
    <3>2. CASE t # s
      <4>1. PICK i \in 1 .. Len(rows) : rows[i] = t
        BY <2>3, <3>2 DEF Lists
      <4>2. i \in 1 .. Len(WithRow(s)) /\ WithRow(s)[i] = t
        BY <1>1, <2>1, <4>1
      <4> QED BY <4>2
    <3> QED BY <3>1, <3>2
  <2> QED BY <2>1, <2>2, <2>3 DEF Lists
<1> QED BY <1>2, <1>3

LEMMA UpdateMarkKeeps ==
    ASSUME IInv, NEW s \in Symbols, NEW mark \in Mids, UpdateMark(s, mark)
    PROVE  IInv'
<1> DEFINE m == [money EXCEPT !["markToMarket"] = @ + Revaluation(s, mark)]
           mk == [marks EXCEPT ![s] = mark]
<1>1. /\ positions \in Positions /\ marks \in Marks /\ money \in Moneys
      /\ Marked(positions, marks) /\ Exact(positions, marks, money)
      /\ Lists(rows, positions) /\ PlanIsExact /\ raised # "invariant"
  BY DEF IInv, TypeOK, Sound
<1>2. mark \in Int
  BY LedgerAssumption
<1>3. /\ mk \in Marks /\ m \in Moneys
      /\ Marked(positions, mk) /\ Exact(positions, mk, m)
  BY <1>1, <1>2, MarkKeepsExact
<1>4. Lists(WithRow(s), positions) /\ Lists(BySymbol, positions)
  BY <1>1, RowAdded, SortedSymbols
<1> HIDE DEF m, mk
<1>5. /\ Verdict(WithRow(s), positions, mk, m) # "invariant"
      /\ Verdict(BySymbol, positions, mk, m) # "invariant"
  BY <1>1, <1>3, <1>4, ExactReconciles
<1>6. \/ UNCHANGED ledger /\ raised' # "invariant"
      \/ /\ marks' = mk /\ money' = m /\ raised' = Verdict(BySymbol, positions, mk, m)
         /\ UNCHANGED <<rows, positions, peak, accounted, keys, settled, plan>>
  BY <1>5 DEF UpdateMark, Raise, m, mk
<1>7. CASE UNCHANGED ledger /\ raised' # "invariant"
  BY <1>7, KeptUnchanged
<1>8. CASE /\ marks' = mk /\ money' = m /\ raised' = Verdict(BySymbol, positions, mk, m)
           /\ UNCHANGED <<rows, positions, peak, accounted, keys, settled, plan>>
  <2>1. TypeOK' /\ LedgerInv'
    BY <1>3, <1>8 DEF IInv, TypeOK, LedgerInv
  <2>2. Marked(positions, marks)' /\ Exact(positions, marks, money)'
    BY <1>3, <1>8 DEF Exact, Worth
  <2>3. Sound'
    BY <1>1, <1>5, <1>8, <2>2 DEF Sound, PlanIsExact
  <2> QED BY <2>1, <2>3 DEF IInv
<1> QED BY <1>6, <1>7, <1>8

LEMMA MaxOfTwo ==
    ASSUME NEW a \in Int, NEW b \in Int
    PROVE  Max({a, b}) \in {a, b} /\ a <= Max({a, b}) /\ b <= Max({a, b})
<1>1. \E x \in {a, b} : \A y \in {a, b} : x >= y
  <2>1. a >= b \/ b >= a
    OBVIOUS
  <2> QED BY <2>1
<1> QED BY <1>1 DEF Max

LEMMA RecordQueueFillKeeps ==
    ASSUME IInv, NEW o \in Orders, NEW filled \in 1 .. Original, NEW mark \in Mids,
           NEW quantity \in 1 .. filled, RecordQueueFill(o, quantity, filled, mark)
    PROVE  IInv'
<1> DEFINE s == Terms[o].symbol
           side == Terms[o].side
           after == positions[s] + side * quantity
           m == Filled(s, side, Terms[o].price4, quantity, mark)
           at == [positions EXCEPT ![s] = after]
           mk == [marks EXCEPT ![s] = mark]
<1>1. /\ positions \in Positions /\ marks \in Marks /\ money \in Moneys
      /\ Marked(positions, marks) /\ Exact(positions, marks, money)
      /\ Lists(rows, positions) /\ PlanIsExact /\ raised # "invariant"
      /\ peak \in [Symbols -> Int] /\ accounted \in [Orders -> Int] /\ settled \in BOOLEAN
  BY DEF IInv, TypeOK, Sound
<1>2. /\ mark \in Int /\ s \in Symbols /\ side \in {-1, 1} /\ side \in Int
      /\ Terms[o].price4 \in Int /\ quantity \in Int /\ filled \in Int /\ Original \in Nat
  BY LedgerAssumption
<1>3. after \in Int
  BY <1>1, <1>2 DEF Positions
<1>4. /\ at \in Positions /\ mk \in Marks /\ m \in Moneys
      /\ Marked(at, mk) /\ Exact(at, mk, m)
  <2> HIDE DEF s, side
  <2> QED BY <1>1, <1>2, FillKeepsExact
<1>5. /\ at[s] = after /\ \A t \in Symbols \ {s} : at[t] = positions[t]
  BY <1>1, <1>2 DEF Positions
<1>6. Lists(WithRow(s), at)
  <2> HIDE DEF at
  <2> QED BY <1>1, <1>2, <1>5, RowAdded
<1> DEFINE verdict == Verdict(WithRow(s), at, mk, m)
<1>7. verdict # "invariant"
  <2> HIDE DEF at, mk, m, s
  <2> QED BY <1>4, <1>6, ExactReconciles
<1>8. ASSUME verdict = "none" PROVE Fits(m["markToMarket"])
  <2> HIDE DEF at, mk, m, s
  <2>1. "markToMarket" \in Totals
    BY DEF Totals
  <2> QED BY <1>8, <2>1 DEF Verdict
<1>9. m["markToMarket"] = money["markToMarket"] + Revaluation(s, mark)
  BY <1>1 DEF Filled, Moneys, Totals
<1> DEFINE Booked ==
             /\ ~settled /\ accounted[o] + quantity = filled
             /\ Abs(after) <= InventoryLimit
             /\ rows' = WithRow(s) /\ positions' = at /\ marks' = mk /\ money' = m
             /\ peak' = [peak EXCEPT ![s] = Max({@, Abs(after)})]
             /\ accounted' = [accounted EXCEPT ![o] = @ + quantity]
             /\ UNCHANGED <<settled, plan, raised>>
<1>10. \/ UNCHANGED ledger /\ raised' # "invariant"
       \/ Booked
  <2>1. Abs(after) \in Int /\ InventoryLimit \in Int
    BY <1>3, LedgerAssumption DEF Abs
  <2> QED BY <1>7, <1>8, <1>9, <2>1
       DEF RecordQueueFill, Raise, InLifecycleOrder, Filled
<1>11. CASE UNCHANGED ledger /\ raised' # "invariant"
  BY <1>11, KeptUnchanged
<1>12. ASSUME Booked PROVE IInv'
  <2>1. TypeOK'
    <3>1. accounted' \in [Orders -> Int]
      BY <1>1, <1>2, <1>12
    <3>2. peak' \in [Symbols -> Int]
      <4>1. Abs(after) \in Int /\ peak[s] \in Int
        BY <1>1, <1>2, <1>3 DEF Abs
      <4>2. Max({peak[s], Abs(after)}) \in Int
        <5> HIDE DEF after, s
        <5> QED BY <4>1, MaxOfTwo
      <4> QED BY <1>1, <1>12, <4>2
    <3> QED BY <1>1, <1>4, <1>12, <3>1, <3>2 DEF TypeOK
  <2>2. Sound'
    <3>1. Exact(positions, marks, money)'
      BY <1>4, <1>12 DEF Exact, Worth
    <3> QED BY <1>1, <1>4, <1>6, <1>12, <3>1 DEF Sound, PlanIsExact
  <2>3. LedgerInv'
    <3>1. ASSUME NEW p \in Orders PROVE accounted'[p] \in 0 .. Original
      <4>1. accounted[p] \in 0 .. Original
        BY DEF IInv, LedgerInv
      <4>2. accounted'[p] = IF p = o THEN filled ELSE accounted[p]
        BY <1>1, <1>12
      <4>3. filled \in 0 .. Original
        BY <1>2
      <4> QED BY <4>1, <4>2, <4>3
    <3>2. ASSUME NEW t \in Symbols
          PROVE  positions'[t] = SumFunctionOnSet([p \in Orders |-> Terms[p].side * accounted'[p]],
                                                  {p \in Orders : Terms[p].symbol = t})
      <4> DEFINE f == [p \in Orders |-> Terms[p].side * accounted[p]]
                 g == [p \in Orders |-> Terms[p].side * accounted'[p]]
                 mine == {p \in Orders : Terms[p].symbol = t}
      <4>1. positions[t] = SumFunctionOnSet(f, mine)
        BY <1>12 DEF IInv, LedgerInv
      <4>2. ASSUME NEW p \in Orders
            PROVE  /\ f[p] \in Int /\ g[p] \in Int /\ (p # o => g[p] = f[p])
                   /\ g[o] = f[o] + side * quantity
        <5>1. /\ Terms[p].side \in Int /\ Terms[o].side \in Int
              /\ accounted[p] \in Int /\ accounted[o] \in Int
              /\ accounted'[p] \in Int
              /\ accounted'[o] = accounted[o] + quantity
              /\ p # o => accounted'[p] = accounted[p]
          <6>1. \A q \in Orders : Terms[q].side \in {-1, 1}
            BY LedgerAssumption
          <6>2. /\ accounted[p] \in Int /\ accounted[o] \in Int
                /\ accounted'[o] = accounted[o] + quantity
                /\ p # o => accounted'[p] = accounted[p]
            BY <1>1, <1>12
          <6>3. accounted'[p] \in Int
            BY <1>2, <6>2
          <6> QED BY <6>1, <6>2, <6>3
        <5>2. /\ f[p] = Terms[p].side * accounted[p] /\ g[p] = Terms[p].side * accounted'[p]
              /\ f[o] = side * accounted[o] /\ g[o] = side * (accounted[o] + quantity)
          BY <5>1
        <5> QED BY <1>2, <5>1, <5>2
      <4>3. mine \subseteq Orders /\ IsFiniteSet(mine)
        BY FS_Subset, LedgerAssumption
      <4>4. o \in mine <=> t = s
        OBVIOUS
      <4> HIDE DEF f, g, mine
      <4>5. Summable(f, mine) /\ Summable(g, mine)
        BY <4>2, <4>3 DEF Summable
      <4>6. CASE t = s
        <5>1. \A p \in mine \ {o} : g[p] = f[p]
          BY <4>2, <4>3
        <5>2. SumFunctionOnSet(g, mine) = SumFunctionOnSet(f, mine) + (g[o] - f[o])
          BY <4>4, <4>5, <4>6, <5>1, SumChange
        <5>3. g[o] \in Int /\ f[o] \in Int /\ g[o] = f[o] + side * quantity
          BY <4>2
        <5>4. positions'[t] = positions[t] + side * quantity
          BY <1>5, <1>12, <4>6
        <5>5. side * quantity \in Int /\ positions[t] \in Int
          BY <1>1, <1>2 DEF Positions
        <5> QED BY <4>1, <5>2, <5>3, <5>4, <5>5 DEF g, mine
      <4>7. CASE t # s
        <5>1. \A p \in mine : g[p] = f[p]
          BY <4>2, <4>3, <4>4, <4>7
        <5>2. SumFunctionOnSet(g, mine) = SumFunctionOnSet(f, mine)
          BY <4>3, <5>1, SumSame
        <5>3. positions'[t] = positions[t]
          BY <1>5, <1>12, <4>7
        <5> QED BY <4>1, <5>2, <5>3 DEF g, mine
      <4> QED BY <4>6, <4>7
    <3>3. ASSUME NEW t \in Symbols
          PROVE  Abs(positions'[t]) <= peak'[t] /\ peak'[t] <= InventoryLimit
      <4>1. Abs(positions[t]) <= peak[t] /\ peak[t] <= InventoryLimit
        BY DEF IInv, LedgerInv
      <4>2. CASE t = s
        <5>1. Abs(after) \in Int /\ peak[s] \in Int
          BY <1>1, <1>2, <1>3 DEF Abs
        <5>2. positions'[t] = after /\ peak'[t] = Max({peak[s], Abs(after)})
          BY <1>1, <1>5, <1>12, <4>2
        <5> HIDE DEF after, s
        <5> QED BY <1>12, <4>1, <4>2, <5>1, <5>2, MaxOfTwo
      <4>3. CASE t # s
        BY <1>1, <1>5, <1>12, <4>1, <4>3
      <4> QED BY <4>2, <4>3
    <3>4. ~settled'
      BY <1>12
    <3> QED BY <3>1, <3>2, <3>3, <3>4 DEF LedgerInv
  <2> QED BY <2>1, <2>2, <2>3 DEF IInv
<1> QED BY <1>10, <1>11, <1>12

LEMMA PrepareKeeps ==
    ASSUME IInv, NEW known \in SUBSET Symbols, NEW quote \in [known -> Quotes],
           Prepare(quote)
    PROVE  IInv'
<1> DEFINE m == ClosingMoney(quote)
           mk == ClosingMarks(quote)
<1>1. /\ positions \in Positions /\ marks \in Marks /\ money \in Moneys
      /\ Marked(positions, marks) /\ Exact(positions, marks, money)
      /\ Lists(rows, positions) /\ raised # "invariant"
  BY DEF IInv, TypeOK, Sound
<1>2. SnapshotVerdict # "invariant"
  BY <1>1, SortedSymbols, ExactReconciles DEF SnapshotVerdict
<1>3. ASSUME Open \subseteq DOMAIN quote
      PROVE  /\ mk \in Marks /\ m \in Moneys /\ GrossCash(m) = Parts(m)
             /\ Verdict(rows, Flat, mk, m) # "invariant"
  <2>1. \A s \in Open : quote[s] \in Nat \X Nat
    <3>1. \A s \in Open : quote[s] \in Quotes
      BY <1>3
    <3> QED BY <3>1, LedgerAssumption
  <2>2. mk \in Marks /\ m \in Moneys /\ GrossCash(m) = Parts(m)
    BY <1>1, <2>1, ClosingIsExact
  <2> HIDE DEF m, mk
  <2>3. Exact(Flat, mk, m) /\ Flat \in Positions
    <3>1. GrossCash(m) \in Int
      BY <2>2 DEF Moneys, Totals, GrossCash
    <3> QED BY <2>2, <3>1, FlatIsWorthless DEF Exact
  <2>4. Lists(rows, Flat)
    BY <1>1 DEF Lists, Flat
  <2> QED BY <2>2, <2>3, <2>4, ExactReconciles
<1> HIDE DEF m, mk
<1>4. \/ UNCHANGED ledger /\ raised' # "invariant"
      \/ /\ Open \subseteq DOMAIN quote
         /\ plan' = [revision |-> revision, closes |-> positions, marks |-> mk, money |-> m]
         /\ UNCHANGED <<rows, positions, marks, peak, accounted, keys, money, revision,
                        settled, raised>>
  BY <1>2, <1>3 DEF Prepare, Raise, Flat, m, mk
<1>5. CASE UNCHANGED ledger /\ raised' # "invariant"
  BY <1>5, KeptUnchanged
<1>6. CASE /\ Open \subseteq DOMAIN quote
           /\ plan' = [revision |-> revision, closes |-> positions, marks |-> mk, money |-> m]
           /\ UNCHANGED <<rows, positions, marks, peak, accounted, keys, money, revision,
                          settled, raised>>
  <2>1. TypeOK' /\ LedgerInv'
    BY <1>6 DEF IInv, TypeOK, LedgerInv
  <2>2. plan'.marks = mk /\ plan'.money = m
    BY <1>6
  <2>3. PlanIsExact'
    BY <1>3, <1>6, <2>2 DEF PlanIsExact
  <2>4. Sound'
    BY <1>6, <2>3 DEF IInv, Sound, Exact, Worth
  <2> QED BY <2>1, <2>4 DEF IInv
<1> QED BY <1>4, <1>5, <1>6

LEMMA CommitKeeps ==
    ASSUME IInv, Commit
    PROVE  IInv'
<1>1. /\ Lists(rows, positions) /\ PlanIsExact /\ raised # "invariant"
      /\ peak \in [Symbols -> Int] /\ accounted \in [Orders -> Int]
  BY DEF IInv, TypeOK, Sound
<1>2. \/ UNCHANGED ledger /\ raised' # "invariant"
      \/ /\ plan # NoPlan
         /\ positions' = Flat /\ marks' = plan.marks /\ money' = plan.money
         /\ settled' = TRUE /\ plan' = NoPlan
         /\ raised' = Verdict(BySymbol, Flat, plan.marks, plan.money)
         /\ UNCHANGED <<rows, peak, accounted, keys>>
  BY <1>1 DEF Commit, Raise, CurrentPlan, Flat
<1>3. CASE UNCHANGED ledger /\ raised' # "invariant"
  BY <1>3, KeptUnchanged
<1>4. CASE /\ plan # NoPlan
           /\ positions' = Flat /\ marks' = plan.marks /\ money' = plan.money
           /\ settled' = TRUE /\ plan' = NoPlan
           /\ raised' = Verdict(BySymbol, Flat, plan.marks, plan.money)
           /\ UNCHANGED <<rows, peak, accounted, keys>>
  <2>1. /\ plan.marks \in Marks /\ plan.money \in Moneys
        /\ GrossCash(plan.money) = Parts(plan.money)
    BY <1>1, <1>4 DEF PlanIsExact
  <2>2. Exact(Flat, plan.marks, plan.money) /\ Flat \in Positions
    <3>1. GrossCash(plan.money) \in Int
      BY <2>1 DEF Moneys, Totals, GrossCash
    <3> QED BY <2>1, <3>1, FlatIsWorthless DEF Exact
  <2>3. raised' # "invariant"
    BY <1>4, <2>1, <2>2, SortedSymbols, ExactReconciles
  <2>4. TypeOK'
    BY <1>1, <1>4, <2>1, <2>2 DEF TypeOK
  <2>5. LedgerInv'
    <3>1. ASSUME NEW s \in Symbols
          PROVE  Abs(positions'[s]) <= peak'[s] /\ peak'[s] <= InventoryLimit
      <4>1. /\ Abs(positions[s]) <= peak[s] /\ peak[s] <= InventoryLimit
            /\ positions[s] \in Int /\ peak[s] \in Int
        BY DEF IInv, LedgerInv, TypeOK, Positions
      <4>2. positions'[s] = 0 /\ peak'[s] = peak[s]
        BY <1>4 DEF Flat
      <4> QED BY <4>1, <4>2 DEF Abs
    <3> QED BY <1>4, <3>1 DEF IInv, LedgerInv, Flat
  <2>6. Sound'
    <3>1. Exact(positions, marks, money)' /\ Marked(positions, marks)'
      BY <1>4, <2>2 DEF Exact, Worth, Marked, Flat
    <3>2. Lists(rows, positions)'
      BY <1>1, <1>4 DEF Lists, Flat
    <3> QED BY <1>4, <2>3, <3>1, <3>2 DEF Sound, PlanIsExact
  <2> QED BY <2>4, <2>5, <2>6 DEF IInv
<1> QED BY <1>2, <1>3, <1>4

LEMMA StepKeeps ==
    ASSUME IInv, [Next]_vars
    PROVE  IInv'
<1>1. CASE UNCHANGED vars
  <2>1. UNCHANGED ledger /\ raised' # "invariant"
    BY <1>1 DEF vars, IInv, Sound
  <2> QED BY <2>1, KeptUnchanged
<1>2. CASE Next
  BY <1>2, UpdateMarkKeeps, RecordQueueFillKeeps, PrepareKeeps, CommitKeeps DEF Next
<1> QED BY <1>1, <1>2

(* Until settlement a position is the signed sum of the accounted fills of  *)
(* its orders, no order is accounted beyond its quantity, and positions and *)
(* their peaks keep to the inventory limit, for any symbols, orders, prices *)
(* and fees (record_queue_fill).                                            *)
THEOREM LedgerInvariant == Spec => []LedgerInv
<1>1. IInv => LedgerInv
  BY DEF IInv
<1> QED BY <1>1, InitSound, StepKeeps, PTL DEF Spec

(* The marked P&L is its decomposition after every call, and the check that *)
(* raises ERR_INVARIANT never does (_validate_reconciliation).              *)
THEOREM LedgerReconciles == Spec => []Reconciles
<1>1. IInv => Reconciles
  BY SoundReconciles DEF IInv
<1> QED BY <1>1, InitSound, StepKeeps, PTL DEF Spec
=============================================================================
