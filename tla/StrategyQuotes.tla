----------------------------- MODULE StrategyQuotes -----------------------------
(***************************************************************************)
(* The quotes of one symbol in one session: the trailing volatility window *)
(* and the passive prices of strategies/avellaneda_stoikov.py, which       *)
(* signal_adjusted.py shares.                                              *)
(*                                                                         *)
(* Abstractions: a change of the midpoint is squared in units of the       *)
(* doubled price, and the variance is kept as its sum and its time; the    *)
(* reservation price and the half spread are real numbers of a formula, of *)
(* which any pair of desired ticks may come out.  The other arguments of a *)
(* call are valid.  The deque of changes is a set, since their message     *)
(* indexes differ and only their sum is used.                              *)
(***************************************************************************)
EXTENDS Integers, FiniteSetsExt, SequencesExt

CONSTANTS
    BestQuotes,       \* visible quotes: [bid, ask], in price units
    MarketIndexes, MarketTimes,
    OpenTime, CloseTime,       \* session_start_ns, session_end_ns
    Window,           \* volatility_window_ns
    TickSize,         \* tick_size4
    LastTick,         \* MAX_UINT32 // tick_size4
    DesiredTicks,     \* ticks the formula may give
    OrderShares, InventoryCap, \* order_quantity, inventory_limit
    Missing           \* None

Quote == [index : Nat, time : Nat, bid : Nat, ask : Nat]

ASSUME QuotesAssumption ==
    /\ BestQuotes \subseteq [bid : Nat, ask : Nat]
    /\ MarketIndexes \subseteq Nat /\ MarketTimes \subseteq Nat
    /\ {OpenTime, CloseTime, LastTick, InventoryCap} \subseteq Nat
    /\ {Window, TickSize, OrderShares} \subseteq Nat \ {0}
    /\ DesiredTicks \subseteq Int
    /\ Missing \notin Quote

VARIABLES
    firstTime,   \* _first_timestamp_ns
    best,        \* newest quote and its key
    changes,     \* _changes
    reply,       \* what the last call returned
    observed     \* history: every quote observed

quoteVars == <<firstTime, best, changes, reply, observed>>

Tradable(time) == time >= OpenTime /\ time < CloseTime
Mid2(quote) == quote.bid + quote.ask

Refusal == [raised |-> TRUE]
Refuse == reply' = Refusal /\ UNCHANGED <<firstTime, best, changes, observed>>

-----------------------------------------------------------------------------
(* CausalVolatilityEstimator. *)

Estimate(start, kept, index, time) ==
    LET elapsed == Min({Window, time - start})
        eligible == {c \in kept :
            /\ c.time > time - Window
            /\ c.time < time \/ (c.time = time /\ c.index <= index)}
    IN  IF elapsed <= 0 THEN Missing
        ELSE [sum |-> SumFunctionOnSet([c \in kept |-> c.square], eligible), elapsed |-> elapsed]

Trailing(time) == {c \in changes : c.time > time - Window}

Square(n) == n * n

Change(quote) ==
    [time |-> quote.time, index |-> quote.index, square |-> Square(Mid2(quote) - Mid2(best))]

InSourceOrder(quote) == best # Missing => quote.index > best.index /\ quote.time >= best.time

ObserveQuote(quote) ==
    IF Tradable(quote.time) /\ quote.bid <= quote.ask /\ Mid2(quote) > 0 /\ InSourceOrder(quote)
    THEN /\ firstTime' = IF best = Missing THEN quote.time ELSE firstTime
         /\ changes' = IF best = Missing THEN {} ELSE Trailing(quote.time) \cup {Change(quote)}
         /\ best' = quote
         /\ observed' = Append(observed, quote)
         /\ reply' = [raised |-> FALSE, bid |-> Missing, ask |-> Missing, time |-> quote.time,
                      estimate |-> Estimate(firstTime', changes', quote.index, quote.time)]
    ELSE Refuse

-----------------------------------------------------------------------------
(* decide: both desired ticks are moved outwards until they take nothing.  *)

TickOf(price) == price \div TickSize

PassiveBidAtAsk(desired) == Min({desired, TickOf(best.bid), TickOf(best.ask)})

PassiveBid(desired) == Min({desired, TickOf(best.bid), TickOf(best.ask - 1)})

PassiveAsk(desired) == Max({desired, TickOf(best.ask + TickSize - 1), TickOf(best.bid) + 1})

Suppressed(tick, inventoryAfter) ==
    tick < 0 \/ tick > LastTick \/ inventoryAfter \notin -InventoryCap .. InventoryCap

Proposal(tick, inventoryAfter) ==
    IF Suppressed(tick, inventoryAfter) THEN Missing ELSE tick * TickSize

NotBefore(index, time) == time > best.time \/ (time = best.time /\ index >= best.index)

DecideQuotes(index, time, inventory, desiredBid, desiredAsk) ==
    IF Tradable(time) /\ best # Missing /\ NotBefore(index, time)
    THEN LET estimate == Estimate(firstTime, changes, index, time)
         IN  /\ reply' = [raised |-> FALSE, estimate |-> estimate, time |-> time,
                  bid |-> IF estimate = Missing THEN Missing
                          ELSE Proposal(PassiveBid(desiredBid), inventory + OrderShares),
                  ask |-> IF estimate = Missing THEN Missing
                          ELSE Proposal(PassiveAsk(desiredAsk), inventory - OrderShares)]
             /\ UNCHANGED <<firstTime, best, changes, observed>>
    ELSE Refuse

-----------------------------------------------------------------------------
QuotesStart ==
    /\ firstTime = Missing /\ best = Missing /\ changes = {}
    /\ reply = Missing /\ observed = <<>>

QuotesNext ==
    \E index \in MarketIndexes, time \in MarketTimes :
        \/ \E quote \in BestQuotes :
              ObserveQuote([index |-> index, time |-> time, bid |-> quote.bid, ask |-> quote.ask])
        \/ \E inventory \in {-InventoryCap, 0, InventoryCap}, bid, ask \in DesiredTicks :
              bid <= ask /\ DecideQuotes(index, time, inventory, bid, ask)

QuotesSpec == QuotesStart /\ [][QuotesNext]_quoteVars

-----------------------------------------------------------------------------
Returned == reply # Missing /\ ~reply.raised

(* The window that observe_quote prunes gives the estimate that the whole  *)
(* past would give: every change that ends in (time - Window, time], once, *)
(* over the time since the first quote or the window, whichever is shorter. *)
EstimateIsTrailing ==
    LET last == Len(observed)
        since == reply.time - Window
        ended == {k \in 2 .. last : observed[k].time > since}
        elapsed == Min({Window, reply.time - observed[1].time})
    IN  Returned => reply.estimate =
            IF elapsed = 0 THEN Missing
            ELSE [elapsed |-> elapsed,
                  sum |-> SumFunctionOnSet(
                      [k \in ended |-> Square(Mid2(observed[k]) - Mid2(observed[k - 1]))], ended)]

(* The two proposals of a decision rest: neither reaches the newest opposite*)
(* quote or the other proposal, nor betters its own side, also when the    *)
(* book is locked or its prices lie off the tick grid of the strategy.     *)
QuotesRest ==
    LET quote == Last(observed)
    IN  Returned =>
            /\ reply.bid # Missing => reply.bid <= quote.bid /\ reply.bid < quote.ask
            /\ reply.ask # Missing => reply.ask >= quote.ask /\ reply.ask > quote.bid
            /\ reply.bid # Missing /\ reply.ask # Missing => reply.bid < reply.ask

(* What a decision returns depends on the past alone and takes nothing from *)
(* the visible book (observe_quote, decide, _quotes_for_reservation).      *)
DecisionsAreCausal == EstimateIsTrailing /\ QuotesRest
=============================================================================
