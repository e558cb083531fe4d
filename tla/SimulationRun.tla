---------------------------- MODULE SimulationRun ----------------------------
(***************************************************************************)
(* One trading day of one scenario: the event loop of runner.py driving    *)
(* the order state machine, the inventory gate of risk_limits.py, the      *)
(* position half of accounting.py and the session-end settlement of        *)
(* liquidation.py.                                                         *)
(*                                                                         *)
(* The loop is sequential; "at" is the call it is about to make, so every  *)
(* step is one call and the calls of one event follow each other in the    *)
(* order of the source.                                                    *)
(*                                                                         *)
(* Abstractions: what the visible queue decides (VisibleQueue.tla) is any  *)
(* choice of passive activations, at most one fill and any invalidations   *)
(* of the event's symbol; a strategy wants any price or none; money is not *)
(* state here.  An exception ends the scenario with its reason; why a call *)
(* refuses a row, a quote or a sum is not modelled, only where it may.     *)
(***************************************************************************)
EXTENDS OrderLifecycle

CONSTANTS
    Symbols,                   \* symbols of the simulation's scope
    Foreign,                   \* a symbol of the conversion outside that scope
    SessionStart, SessionEnd,  \* in-session is SessionStart <= t < SessionEnd
    DecisionInterval,          \* decision_interval_ns
    OrderQuantity,             \* order_quantity of every proposal
    InventoryLimit,            \* inventory_limit, in shares, per symbol
    MaxEvents                  \* bound on the number of events of the day

ASSUME SimulationAssumption ==
    /\ Slots = Symbols \X {-1, 1}
    /\ NoOrder \notin Prices /\ Foreign \notin Symbols
    /\ SessionStart \in Nat /\ SessionEnd \in Nat /\ DecisionInterval \in Nat \ {0}
    /\ OrderQuantity \in 1 .. MaxQuantity
    /\ InventoryLimit \in Nat \ {0}
    /\ MaxEvents \in Nat

VARIABLES
    at,            \* the next call of the loop
    symbol,        \* symbol of the current event
    marked,        \* mark_mid2 is not None
    position,      \* ledger inventory of each symbol
    hasQuote,      \* last_quotes: symbols with an in-session two-sided quote
    owedOrder,     \* order of a fill that is not accounted yet, or NoOrder
    owedQuantity,  \* its quantity
    nextDecision,  \* next_decision timestamp of each symbol
    events,        \* events started so far
    failure        \* reason of the exception that ended the scenario

simVars == <<at, symbol, marked, position, hasQuote, owedOrder, owedQuantity,
             nextDecision, events, failure>>
runVars == <<vars, simVars>>

\* The errors that would show a broken policy (price, inventory), the one of
\* the order clock (timestamp) and those of calls that refuse what the day's rows bring.
Refusals == {"row", "symbol", "quote", "sum", "strategy"}
Reasons  == {"none", "price", "inventory", "timestamp"} \cup Refusals

Stages == {"event", "fill", "cross", "decide", "bid", "ask", "close", "expire",
           "settled", "failed"}

InSession(t) == SessionStart <= t /\ t < SessionEnd

SimTypeOK ==
    /\ at \in Stages
    /\ symbol \in Symbols \cup {Foreign}
    /\ marked \in BOOLEAN
    /\ position \in [Symbols -> Int]
    /\ hasQuote \subseteq Symbols
    /\ owedOrder \in OrderIds \cup {NoOrder}
    /\ owedQuantity \in Nat
    /\ nextDecision \in [Symbols -> Nat]
    /\ events \in 0 .. MaxEvents
    /\ failure \in Reasons

Fail(reason) ==
    /\ at' = "failed" /\ failure' = reason
    /\ UNCHANGED <<vars, symbol, marked, position, hasQuote, owedOrder, owedQuantity,
                   nextDecision, events>>

SymbolOf(i) == orders[i].slot[1]
SideOf(i)   == orders[i].slot[2]

\* The queue is asked only about orders that are not active yet.
Inactive == {i \in Ids : orders[i].state = "pending_submit"}

-----------------------------------------------------------------------------
(* process_market_event.                                                   *)

SimInit ==
    /\ Init
    /\ at = "event" /\ symbol \in Symbols /\ marked = FALSE
    /\ position = [s \in Symbols |-> 0]
    /\ hasQuote = {}
    /\ owedOrder = NoOrder /\ owedQuantity = 0
    /\ nextDecision = [s \in Symbols |-> SessionStart + DecisionInterval]
    /\ events = 0
    /\ failure = "none"

\* An event of symbol s; quoted says that it carries a two-sided snapshot.
\* Replay emits nothing at or after the session's end.  The queue takes every
\* row; whether its symbol is in scope is asked after process_market_event.
StartEvent(s, t, passive, quoted) ==
    /\ at = "event" /\ events < MaxEvents
    /\ t < SessionEnd
    /\ quoted => s \in Symbols
    /\ GroupOpen => t = lastTs
    /\ BeforeMarketEvent(t, passive)
    /\ at' = "fill" /\ symbol' = s /\ marked' = quoted /\ events' = events + 1
    /\ UNCHANGED <<position, hasQuote, owedOrder, owedQuantity, nextDecision, failure>>

QueueFill(i, q) ==
    /\ at = "fill" /\ SymbolOf(i) = symbol
    /\ RecordFill(i, q)
    /\ owedOrder' = i /\ owedQuantity' = q
    /\ at' = "cross"
    /\ UNCHANGED <<symbol, marked, position, hasQuote, nextDecision, events, failure>>

NoFill ==
    /\ at = "fill" /\ at' = "cross"
    /\ UNCHANGED <<vars, symbol, marked, position, hasQuote, owedOrder, owedQuantity,
                   nextDecision, events, failure>>

QueueInvalidate(i) ==
    /\ at = "cross" /\ SymbolOf(i) = symbol
    /\ Invalidate(i)
    /\ UNCHANGED simVars

-----------------------------------------------------------------------------
(* Marks and accounting of the event's fill.                               *)

QuotesAfterEvent ==
    IF marked /\ InSession(lastTs) THEN hasQuote \cup {symbol} ELSE hasQuote

\* record_queue_fill moves the position by the signed quantity.
PositionAfterFill == position[SymbolOf(owedOrder)] + SideOf(owedOrder) * owedQuantity

WithinLimit(n) == -InventoryLimit <= n /\ n <= InventoryLimit

Account ==
    /\ at = "cross" /\ symbol \in Symbols
    /\ \/ /\ owedOrder = NoOrder
          /\ at' = "decide" /\ hasQuote' = QuotesAfterEvent
          /\ UNCHANGED <<marked, position, owedOrder, owedQuantity, failure>>
          /\ UNCHANGED <<vars, symbol, nextDecision, events>>
       \/ /\ owedOrder # NoOrder /\ ~marked /\ symbol \notin hasQuote
          /\ Fail("price")
       \/ /\ owedOrder # NoOrder /\ (marked \/ symbol \in hasQuote)
          /\ ~WithinLimit(PositionAfterFill)
          /\ Fail("inventory")
       \/ /\ owedOrder # NoOrder /\ (marked \/ symbol \in hasQuote)
          /\ WithinLimit(PositionAfterFill)
          /\ position' = [position EXCEPT ![SymbolOf(owedOrder)] = PositionAfterFill]
          /\ at' = "decide" /\ hasQuote' = QuotesAfterEvent /\ marked' = TRUE
          /\ owedOrder' = NoOrder /\ owedQuantity' = 0
          /\ UNCHANGED <<vars, symbol, nextDecision, events, failure>>

-----------------------------------------------------------------------------
(* Calls that refuse what the day's rows bring.  What such a call changed   *)
(* before it raised is dropped with the day.                                *)

\* process_market_event, before or after it popped the due actions: a row out
\* of order or malformed, one queue anomaly too many, or a broken execution
\* that had filled an order of ours.  Nothing raises once it has filled.
RowRefused ==
    /\ \/ at = "event" /\ events < MaxEvents
       \/ at = "fill"
    /\ Fail("row")

\* After the queue took the row: its symbol is outside the scope, or its quote
\* is crossed or refused by update_mark or by observe_quote.
QuoteRefused ==
    /\ at = "cross"
    /\ \/ symbol = Foreign /\ Fail("symbol")
       \/ symbol \in Symbols /\ marked /\ Fail("quote")

\* A sum out of its range: in record_queue_fill, the snapshot for the equity
\* row, complete_market_timestamp (the queue ahead of an activation) and the
\* plan for the session's end.
SumOverflows ==
    /\ \/ at = "cross" /\ owedOrder # NoOrder
       \/ at = "close"
       \/ at = "event" /\ events > 0 /\ ~GroupOpen
    /\ Fail("sum")

-----------------------------------------------------------------------------
(* The strategy's decision and _refresh_quotes.                            *)

\* Faulty variant: the mark is not asked for.
DecisionDueUnmarked == InSession(lastTs) /\ lastTs >= nextDecision[symbol]

DecisionDue == InSession(lastTs) /\ marked /\ lastTs >= nextDecision[symbol]

\* The first decision time of the session's grid after lastTs.
NextOnGrid ==
    SessionStart + ((lastTs - SessionStart) \div DecisionInterval + 1) * DecisionInterval

Decide ==
    /\ at = "decide"
    /\ \/ /\ ~DecisionDue
          /\ at' = "close"
          /\ UNCHANGED <<vars, symbol, marked, position, hasQuote, owedOrder, owedQuantity,
                         nextDecision, events, failure>>
       \/ DecisionDue /\ ~WithinLimit(position[symbol]) /\ Fail("inventory")
       \/ DecisionDue /\ WithinLimit(position[symbol]) /\ symbol \notin hasQuote /\ Fail("price")
       \/ /\ DecisionDue /\ WithinLimit(position[symbol]) /\ symbol \in hasQuote
          /\ at' = "bid"
          /\ nextDecision' = [nextDecision EXCEPT ![symbol] = NextOnGrid]
          /\ UNCHANGED <<vars, symbol, marked, position, hasQuote, owedOrder, owedQuantity,
                         events, failure>>

\* decide: a volatility, a score or a quote equation that is not finite.
StrategyFails ==
    /\ at = "decide" /\ DecisionDue
    /\ Fail("strategy")

\* Faulty variant: only the present inventory is compared with the limit.
PermittedNow(side) == WithinLimit(position[symbol])

\* InventoryRiskLimit.evaluate projects a complete fill of the proposal.
Permitted(side) == WithinLimit(position[symbol] + side * OrderQuantity)

\* Order identifiers are used once, in order; a run that has used the bounded
\* set up proposes no more quotes.
FreshIds == OrderIds \ Ids

Desired(side) ==
    {NoOrder} \cup (IF Permitted(side) /\ FreshIds # {} THEN Prices ELSE {})

TooLate(latency) == EffectiveTimestamp(lastTs, latency) > MaxTime

Proceed(stage) ==
    at' = stage
    /\ UNCHANGED <<symbol, marked, position, hasQuote, owedOrder, owedQuantity,
                   nextDecision, events, failure>>

\* One side of _refresh_quotes: a live order that is not at the desired price
\* is asked to cancel once and keeps its slot, a free slot takes the proposal.
RefreshSide(stage, side, following, desired) ==
    LET current  == occupied[<<symbol, side>>]
        replaced == current # NoOrder /\ orders[current].price # desired
    IN
    /\ at = stage /\ desired \in Desired(side)
    /\ \/ /\ replaced /\ ~orders[current].cancelRequested /\ TooLate(canLatency)
          /\ Fail("timestamp")
       \/ /\ replaced /\ ~orders[current].cancelRequested /\ ~TooLate(canLatency)
          /\ RequestCancel(current) /\ Proceed(following)
       \/ /\ replaced /\ orders[current].cancelRequested
          /\ UNCHANGED vars /\ Proceed(following)
       \/ /\ ~replaced /\ (current # NoOrder \/ desired = NoOrder)
          /\ UNCHANGED vars /\ Proceed(following)
       \/ /\ current = NoOrder /\ desired # NoOrder /\ TooLate(subLatency)
          /\ Fail("timestamp")
       \/ /\ current = NoOrder /\ desired # NoOrder /\ ~TooLate(subLatency)
          /\ Submit(CHOOSE i \in FreshIds : TRUE, <<symbol, side>>, desired, OrderQuantity)
          /\ Proceed(following)

RefreshQuotes ==
    \E desired \in Prices \cup {NoOrder} :
        \/ RefreshSide("bid", 1, "ask", desired)
        \/ RefreshSide("ask", -1, "close", desired)

-----------------------------------------------------------------------------
(* The end of a timestamp group and of the day.                            *)

\* The next event, if there is one, has the same timestamp.
StayInGroup ==
    /\ at = "close" /\ events < MaxEvents
    /\ UNCHANGED vars /\ Proceed("event")

CompleteMarketTimestamp(passive) ==
    /\ at = "close"
    /\ AfterMarketTimestamp(passive) /\ Proceed("event")

\* Faulty variant: orders that were never activated are not open.
OpenOrdersExposed == {i \in Ids : Exposed(orders[i])}

OpenOrders == {i \in Ids : Live(orders[i])}

\* settle_session_end looks every terminal quote up before it changes anything.
StartSettlement ==
    /\ at = "event" /\ events > 0 /\ ~GroupOpen
    /\ \/ /\ \E s \in Symbols : position[s] # 0 /\ s \notin hasQuote
          /\ Fail("price")
       \/ /\ \A s \in Symbols : position[s] # 0 => s \in hasQuote
          /\ UNCHANGED vars /\ Proceed("expire")

ExpireOpen(i) ==
    /\ at = "expire" /\ i \in OpenOrders
    /\ Expire(i) /\ UNCHANGED simVars

\* commit_terminal_accounting: every position is crossed to zero.
CommitSettlement ==
    /\ at = "expire" /\ OpenOrders = {}
    /\ position' = [s \in Symbols |-> 0]
    /\ at' = "settled"
    /\ UNCHANGED <<vars, symbol, marked, hasQuote, owedOrder, owedQuantity,
                   nextDecision, events, failure>>

SimNext ==
    \/ \E s \in Symbols \cup {Foreign}, t \in Times, passive \in SUBSET Inactive, quoted \in BOOLEAN :
           StartEvent(s, t, passive, quoted)
    \/ \E i \in Ids, q \in 1 .. MaxQuantity : QueueFill(i, q)
    \/ NoFill
    \/ \E i \in Ids : QueueInvalidate(i)
    \/ Account
    \/ Decide
    \/ RefreshQuotes
    \/ StayInGroup
    \/ \E passive \in SUBSET Inactive : CompleteMarketTimestamp(passive)
    \/ StartSettlement
    \/ \E i \in Ids : ExpireOpen(i)
    \/ CommitSettlement
    \/ RowRefused \/ QuoteRefused \/ SumOverflows \/ StrategyFails

\* The loop runs to its end: nothing blocks it.
SimSpec == SimInit /\ [][SimNext]_runVars /\ WF_runVars(SimNext)

-----------------------------------------------------------------------------
(* Properties.                                                             *)

\* The inventory that is certain: what is accounted and what already filled.
CertainPosition(s) ==
    position[s] + IF owedOrder # NoOrder /\ SymbolOf(owedOrder) = s
                  THEN SideOf(owedOrder) * owedQuantity ELSE 0

\* Whatever else fills and in whatever order, the complete remainder of any
\* live order, requested, exposed or waiting for its cancellation, still fits
\* the inventory limit although the gate looked at it only when it was
\* proposed and other orders have filled since.
ExposureBounded ==
    \A i \in Ids : Live(orders[i]) =>
        WithinLimit(CertainPosition(SymbolOf(i)) + SideOf(i) * orders[i].remaining)

\* However the calls of the day interleave, none of the errors that guard the
\* policy is ever raised: a passive fill always has a causal midpoint
\* (runner.py "no causal midpoint"), a decision an observed quote, a position at
\* the session's end a terminal quote, and no fill and no decision finds the
\* inventory outside its limit.  Other errors may stop a day: see Refusals and
\* the order clock past midnight.
PolicyNeverFails == failure \notin {"price", "inventory"}

\* What session end leaves: no live order, no occupied slot, no position.
Flat ==
    /\ at = "settled"
    /\ \A s \in Symbols : position[s] = 0
    /\ \A i \in Ids : Terminal(orders[i])
    /\ \A s \in Slots : occupied[s] = NoOrder

(***************************************************************************)
(* The inductive invariant.  The exposure bound of one order survives the  *)
(* fill of another because both cannot be on the same side, which needs    *)
(* the slot invariant of OrderLifecycle, and because an order of the other *)
(* side only moves the position away from the first one's limit, which     *)
(* needs the bound on the position itself.                                 *)
(***************************************************************************)
OwedKnown ==
    owedOrder # NoOrder =>
        at \in {"cross", "failed"} /\ owedOrder \in Ids /\ SymbolOf(owedOrder) = symbol

ScopeKnown == symbol = Foreign => at \in {"fill", "cross", "failed"}

QuotesKnown ==
    /\ \A i \in Ids : SymbolOf(i) \in hasQuote
    /\ \A s \in Symbols : position[s] # 0 => s \in hasQuote
    /\ at \in {"bid", "ask"} => symbol \in hasQuote
    /\ at = "decide" /\ marked /\ InSession(lastTs) => symbol \in hasQuote

PositionsWithin == \A s \in Symbols : WithinLimit(CertainPosition(s))

SettledFlat == at = "settled" => Flat

SimInv ==
    /\ SimTypeOK
    /\ OwedKnown
    /\ ScopeKnown
    /\ QuotesKnown
    /\ PositionsWithin
    /\ ExposureBounded
    /\ PolicyNeverFails
    /\ SettledFlat

\* A day that no call refuses, and whose actions all fall before midnight, is
\* settled in the end: no order stays live, no slot occupied and no position
\* open.
DaySettles == <>(Flat \/ failure \in Refusals \cup {"timestamp"})
=============================================================================
