-------------------------------- MODULE Ledger --------------------------------
(***************************************************************************)
(* AccountingLedger of simulation/accounting.py: signed 64-bit cash, fees, *)
(* spread capture, mark-to-market and slippage, kept so that the marked    *)
(* P&L equals its decomposition after every call, and the two-phase        *)
(* settlement that simulation/liquidation.py drives.                       *)
(*                                                                         *)
(* The calls come from any caller in any order.  A call computes on copies *)
(* and assigns them last; "raised" is the error of the call that ended the *)
(* scenario.  Amounts keep the code's microusd; MaxMoney stands for the    *)
(* largest signed 64-bit value.  Dictionary rows keep insertion order.     *)
(***************************************************************************)
EXTENDS Integers, FiniteSetsExt, SequencesExt, Functions

CONSTANTS
    Symbols,         \* symbol ids, integers
    Orders,          \* simulated orders whose fills arrive
    Terms,           \* each order's [symbol, side, price4]
    Original,        \* original quantity of every order
    Mids,            \* mid2 marks that occur
    Quotes,          \* terminal <<bid, ask>> quotes that occur
    MakerFee, TakerFee,
    InventoryLimit,
    MaxMoney,        \* 2^63 - 1
    MaxRevision,     \* bound on ledger changes
    NoMark, NoPlan

(* "side" is 1 for a bid and -1 for an ask.                                 *)
ASSUME LedgerAssumption ==
    /\ IsFiniteSet(Symbols) /\ Symbols \subseteq Nat
    /\ IsFiniteSet(Orders)
    /\ Terms \in [Orders -> [symbol : Symbols, side : {-1, 1}, price4 : Nat]]
    /\ Mids \subseteq Nat /\ Quotes \subseteq Nat \X Nat
    /\ {Original, InventoryLimit, MaxMoney} \subseteq Nat
    /\ {MakerFee, TakerFee} \subseteq Int      \* a fee may be a rebate
    /\ NoMark \notin Int

VARIABLES rows,        \* symbols of the position dictionary, in insertion order
          positions, marks, peak,   \* per symbol; peak is max_abs_positions
          accounted,   \* quantity accounted of each order
          keys,        \* fill keys of each order, by the quantity filled so far
          money,       \* the monetary totals
          revision, settled, plan, raised

ledger == <<rows, positions, marks, peak, accounted, keys, money, revision, settled, plan>>
vars == <<ledger, raised>>

Totals == {"passiveCash", "liquidationCash", "makerFees", "takerFees", "spread",
           "markToMarket", "slippage"}

Abs(n) == IF n < 0 THEN -n ELSE n
Fits(n) == -(MaxMoney + 1) <= n /\ n <= MaxMoney

MarkedValue(inventory, mark) == inventory * mark * 50
TradeCash(side, price4, quantity) == -side * price4 * quantity * 100
MarkRelative(side, price4, quantity, mark) == side * (mark - 2 * price4) * quantity * 50

-----------------------------------------------------------------------------
(* Reconciliation. *)

SumFirst(values, n) == SumFunctionOnSet(values, 1 .. n)
RunningSumsFit(values) == \A n \in 1 .. Len(values) : Fits(SumFirst(values, n))
SumOf(values) == SumFirst(values, Len(values))

Values(symbols, at, mk) ==
    [i \in DOMAIN symbols |->
        IF mk[symbols[i]] = NoMark THEN 0 ELSE MarkedValue(at[symbols[i]], mk[symbols[i]])]

Fees(m) == m["makerFees"] + m["takerFees"]
GrossCash(m) == m["passiveCash"] + m["liquidationCash"]
Components(m) == <<m["spread"], m["markToMarket"], m["slippage"], -Fees(m)>>
MarkedPnl(m, values) == GrossCash(m) - Fees(m) + SumOf(values)

(* _validate_reconciliation over the rows of the copies, and snapshot over  *)
(* the sorted symbols: the same checks, with running sums in another order. *)
Verdict(symbols, at, mk, m) ==
    LET values == Values(symbols, at, mk)
    IN  CASE \E s \in ToSet(symbols) : at[s] # 0 /\ mk[s] = NoMark -> "price"
          [] \/ ~RunningSumsFit(values) \/ ~RunningSumsFit(Components(m))
             \/ \E n \in {m[t] : t \in Totals}
                           \cup {Fees(m), -Fees(m), GrossCash(m), GrossCash(m) - Fees(m),
                                 MarkedPnl(m, values)} : ~Fits(n) -> "cost"
          [] MarkedPnl(m, values) # SumOf(Components(m)) -> "invariant"
          [] OTHER -> "none"

BySymbol ==
    CHOOSE q \in [1 .. Cardinality(Symbols) -> Symbols] :
        /\ ToSet(q) = Symbols
        /\ \A i, j \in DOMAIN q : i < j => q[i] < q[j]

SnapshotVerdict == Verdict(BySymbol, positions, marks, money)

(* _apply_mark_to_copies: what a position gains from its new mark, and the  *)
(* row it gets.                                                             *)
RevaluationFromZero(s, mark) == positions[s] * mark * 50

Revaluation(s, mark) ==
    IF marks[s] = NoMark THEN 0 ELSE positions[s] * (mark - marks[s]) * 50

WithRow(s) == IF Contains(rows, s) THEN rows ELSE Append(rows, s)

-----------------------------------------------------------------------------
Init ==
    /\ rows = <<>>
    /\ positions = [s \in Symbols |-> 0] /\ peak = positions
    /\ marks = [s \in Symbols |-> NoMark]
    /\ accounted = [o \in Orders |-> 0] /\ keys = [o \in Orders |-> {}]
    /\ money = [t \in Totals |-> 0]
    /\ revision = 0 /\ settled = FALSE /\ plan = NoPlan /\ raised = "none"

Raise(code) == raised' = code /\ UNCHANGED ledger

(* update_mark: the assignments come before the snapshot it returns.        *)
UpdateMark(s, mark) ==
    LET m == [money EXCEPT !["markToMarket"] = @ + Revaluation(s, mark)]
        mk == [marks EXCEPT ![s] = mark]
        verdict == IF Fits(Revaluation(s, mark))
                   THEN Verdict(WithRow(s), positions, mk, m) ELSE "cost"
    IN  IF settled THEN Raise("anomaly")
        ELSE IF verdict # "none" THEN Raise(verdict)
        ELSE /\ marks' = mk
             /\ money' = m
             /\ revision' = revision + 1
             /\ raised' = Verdict(BySymbol, positions, mk, m)
             /\ UNCHANGED <<rows, positions, peak, accounted, keys, settled, plan>>

(* "Queue fills were not presented to accounting in lifecycle order": the   *)
(* order row that comes with the fill has filled shares in all.             *)
AnyLifecycleOrder(o, quantity, filled) == TRUE

InLifecycleOrder(o, quantity, filled) == accounted[o] + quantity = filled

(* record_queue_fill *)
RecordQueueFill(o, quantity, filled, mark) ==
    LET s == Terms[o].symbol
        side == Terms[o].side
        after == positions[s] + side * quantity
        cash == TradeCash(side, Terms[o].price4, quantity)
        spread == MarkRelative(side, Terms[o].price4, quantity, mark)
        m == [money EXCEPT !["markToMarket"] = @ + Revaluation(s, mark),
                           !["passiveCash"] = @ + cash,
                           !["makerFees"] = @ + MakerFee * quantity,
                           !["spread"] = @ + spread]
        at == [positions EXCEPT ![s] = after]
        mk == [marks EXCEPT ![s] = mark]
        verdict == IF \A n \in {Revaluation(s, mark), cash, spread, MakerFee * quantity} : Fits(n)
                   THEN Verdict(WithRow(s), at, mk, m) ELSE "cost"
    IN  IF settled \/ filled \in keys[o] \/ ~InLifecycleOrder(o, quantity, filled)
        THEN Raise("anomaly")
        ELSE IF /\ Fits(Revaluation(s, mark)) /\ Fits(m["markToMarket"])
                /\ Abs(after) > InventoryLimit THEN Raise("limit")
        ELSE IF verdict # "none" THEN Raise(verdict)
        ELSE /\ rows' = WithRow(s)
             /\ positions' = at
             /\ marks' = mk
             /\ peak' = [peak EXCEPT ![s] = Max({@, Abs(after)})]
             /\ accounted' = [accounted EXCEPT ![o] = @ + quantity]
             /\ keys' = [keys EXCEPT ![o] = @ \cup {filled}]
             /\ money' = m
             /\ revision' = revision + 1
             /\ UNCHANGED <<settled, plan, raised>>

(* The terminal trades settle_session_end builds from a snapshot and the    *)
(* last quotes, and prepare_terminal_accounting, which changes nothing but  *)
(* the prepared plan.                                                       *)
Open == {s \in Symbols : positions[s] # 0}

ClosingMid(quote, s) == quote[s][1] + quote[s][2]

ClosingMarks(quote) ==
    [s \in Symbols |-> IF positions[s] # 0 THEN ClosingMid(quote, s) ELSE marks[s]]

ClosingMoney(quote) ==
    LET side(s) == IF positions[s] > 0 THEN -1 ELSE 1
        price(s) == IF positions[s] > 0 THEN quote[s][1] ELSE quote[s][2]
        sum(f) == SumFunctionOnSet(f, Open)
    IN  [money EXCEPT
            !["markToMarket"] = @ + sum([s \in Open |-> Revaluation(s, ClosingMid(quote, s))]),
            !["liquidationCash"] =
                @ + sum([s \in Open |-> TradeCash(side(s), price(s), Abs(positions[s]))]),
            !["takerFees"] = @ + sum([s \in Open |-> TakerFee * Abs(positions[s])]),
            !["slippage"] =
                @ + sum([s \in Open |-> MarkRelative(side(s), price(s), Abs(positions[s]),
                                                     ClosingMid(quote, s))])]

Prepare(quote) ==
    LET flat == [s \in Symbols |-> 0]
        verdict == Verdict(rows, flat, ClosingMarks(quote), ClosingMoney(quote))
    IN  IF settled THEN Raise("anomaly")
        ELSE IF SnapshotVerdict # "none" THEN Raise(SnapshotVerdict)
        ELSE IF ~Open \subseteq DOMAIN quote THEN Raise("price")
        ELSE IF verdict # "none" THEN Raise(verdict)
        ELSE /\ plan' = [revision |-> revision, closes |-> positions,
                         marks |-> ClosingMarks(quote), money |-> ClosingMoney(quote)]
             /\ UNCHANGED <<rows, positions, marks, peak, accounted, keys, money, revision,
                            settled, raised>>

(* commit_terminal_accounting refuses a plan made before a later change.    *)
AnyPlan == plan # NoPlan

CurrentPlan == plan # NoPlan /\ plan.revision = revision

Commit ==
    IF ~CurrentPlan \/ settled THEN Raise("anomaly")
    ELSE /\ positions' = [s \in Symbols |-> 0]
         /\ marks' = plan.marks
         /\ money' = plan.money
         /\ settled' = TRUE
         /\ plan' = NoPlan
         /\ revision' = revision + 1
         /\ raised' = Verdict(BySymbol, positions', plan.marks, plan.money)
         /\ UNCHANGED <<rows, peak, accounted, keys>>

Next ==
    /\ raised = "none"
    /\ \/ /\ revision < MaxRevision
          /\ \/ \E s \in Symbols, mark \in Mids : UpdateMark(s, mark)
             \/ \E o \in Orders, filled \in 1 .. Original, mark \in Mids :
                \E quantity \in 1 .. filled : RecordQueueFill(o, quantity, filled, mark)
       \/ \E known \in SUBSET Symbols : \E quote \in [known -> Quotes] : Prepare(quote)
       \/ Commit

Spec == Init /\ [][Next]_vars

-----------------------------------------------------------------------------
(* Properties. *)

(* Until settlement a position is the signed sum of its orders' accounted   *)
(* fills, whatever fills are presented twice or out of order; no order is   *)
(* accounted beyond its quantity, and positions and their peaks stay within *)
(* the inventory limit (record_queue_fill).                                 *)
LedgerInv ==
    /\ \A o \in Orders : accounted[o] \in 0 .. Original
    /\ \A s \in Symbols :
          /\ positions[s] = IF settled THEN 0
                            ELSE SumFunctionOnSet([o \in Orders |-> Terms[o].side * accounted[o]],
                                                  {o \in Orders : Terms[o].symbol = s})
          /\ Abs(positions[s]) <= peak[s] /\ peak[s] <= InventoryLimit

(* The decomposition is kept call by call, so the check that raises         *)
(* ERR_INVARIANT never fires: marked P&L is spread capture, mark-to-market  *)
(* and slippage less fees, before and after settlement.                     *)
Reconciles ==
    /\ raised # "invariant"
    /\ MarkedPnl(money, Values(rows, positions, marks)) = SumOf(Components(money))

(* A settlement closes exactly the positions the ledger has at that moment  *)
(* (commit_terminal_accounting): a fill or a mark that comes between the    *)
(* two phases makes the plan stale.                                         *)
ClosesCurrentPositions ==
    [][settled' # settled => plan.closes = positions
                          /\ \A s \in Symbols : positions[s] = 0 => marks'[s] = marks[s]]_vars
===============================================================================
