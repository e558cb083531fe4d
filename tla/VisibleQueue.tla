---------------------------- MODULE VisibleQueue ----------------------------
(***************************************************************************)
(* The conservative known-order queue of queue_model.py, fed with the      *)
(* validated events of market_events.py and driving the order state        *)
(* machine of OrderLifecycle: every market message first applies the       *)
(* actions due strictly before it, then its own visible effect, then at    *)
(* most one simulated fill, then the invalidation of exposed orders the    *)
(* historical path has crossed, all in one call.                           *)
(*                                                                         *)
(* Slots are <<symbol, side>> pairs with side 1 (bid) or -1 (ask).         *)
(*                                                                         *)
(* Abstractions: the visible best price is read off the book (the lazily   *)
(* cleaned price heaps are not state here), diagnostics are counted but    *)
(* not stored, and the field-presence checks of market_events.py are the   *)
(* ranges the event parameters are drawn from.  An exception ends the      *)
(* whole scenario, so an abort keeps no state but the fact.                *)
(***************************************************************************)
EXTENDS OrderLifecycle

CONSTANTS
    Refs,          \* historical order references
    Matches,       \* execution match numbers
    MaxShares,     \* bound on a historical order's displayed quantity
    MaxAnomalies,  \* max_queue_anomalies
    MaxMessages    \* bound on the number of market messages of a run

ASSUME QueueAssumption ==
    /\ \A s \in Slots : s[2] \in {-1, 1}
    /\ MaxShares \in Nat \ {0} /\ MaxAnomalies \in Nat /\ MaxMessages \in Nat

VARIABLES
    visible,       \* historical live orders: reference -> order
    queues,        \* tracked queue of each exposed simulated order
    usedMatches,   \* match number -> the simulated order it filled
    anomalies,     \* anomaly_count
    running,       \* FALSE once an exception ended the scenario
    index          \* message index of the newest market message

queueVars == <<visible, queues, usedMatches, anomalies, running, index>>
allVars   == <<vars, queueVars>>

Shares == 1 .. MaxShares

With(f, k, v)  == [x \in DOMAIN f \cup {k} |-> IF x = k THEN v ELSE f[x]]
Without(f, k)  == [x \in DOMAIN f \ {k} |-> f[x]]
Empty          == [x \in {} |-> 0]

ExposedIds(os) == {i \in DOMAIN os : Exposed(os[i])}

-----------------------------------------------------------------------------
(* The visible book.                                                       *)

Opposite(s) == <<s[1], -s[2]>>

Level(book, s, p) == {r \in DOMAIN book : book[r].slot = s /\ book[r].price = p}

\* The best opposite price reaches the limit o.price.
CrossedBy(book, o) ==
    \E r \in DOMAIN book :
        /\ book[r].slot = Opposite(o.slot)
        /\ IF o.slot[2] = 1 THEN book[r].price <= o.price ELSE book[r].price >= o.price

\* _decrement_visible.
Decremented(book, r, q) ==
    IF book[r].remaining = q THEN Without(book, r)
    ELSE [book EXCEPT ![r].remaining = @ - q]

\* _decrement_ahead, and del tracker.ahead[r], in whichever queue holds r.
LessAhead(ahead, r, q) ==
    IF ahead[r] = q THEN Without(ahead, r) ELSE [ahead EXCEPT ![r] = @ - q]

AheadDecremented(qs, r, q) ==
    [i \in DOMAIN qs |->
        IF r \notin DOMAIN qs[i].ahead THEN qs[i] ELSE [qs[i] EXCEPT !.ahead = LessAhead(@, r, q)]]

\* Faulty variant: a deleted or replaced order keeps its place ahead.
AheadKept(qs, r) == qs

AheadRemoved(qs, r) ==
    [i \in DOMAIN qs |-> [qs[i] EXCEPT !.ahead = Without(@, r)]]

-----------------------------------------------------------------------------
(* What a message does to the simulated orders before its own effect.      *)

\* _resolve_activation accepts an order that is not marketable.
Passive == {i \in Ids : ~CrossedBy(visible, orders[i])}

JoinQueue(o) ==
    [ahead  |-> [r \in Level(visible, o.slot, o.price) |-> visible[r].remaining],
     joined |-> index + 1]

\* Faulty variant: the queue of an order that ended is kept.
QueuesKept(os, qs) ==
    [i \in ExposedIds(os) \cup DOMAIN qs |-> IF i \in DOMAIN qs THEN qs[i] ELSE JoinQueue(os[i])]

\* _resolve_activation adds a queue and _synchronise_transitions drops those of
\* orders no longer exposed.
QueuesFor(os, qs) ==
    [i \in ExposedIds(os) |-> IF i \in DOMAIN qs THEN qs[i] ELSE JoinQueue(os[i])]

OrdersBefore(t) == OrdersAfter(DueBefore(t), Passive)
QueuesBefore(t) == QueuesFor(OrdersBefore(t), queues)

\* _matching_queue: the exposed order of this slot at this price.
Matching(os, s, p) == {i \in ExposedIds(os) : os[i].slot = s /\ os[i].price = p}

\* An execution of an order behind q under match number m may fill q's owner.
\* Faulty variant: regardless of the match.
EarnsFillTwice(queue, m) == queue.ahead = Empty

EarnsFill(queue, m) == queue.ahead = Empty /\ m \notin DOMAIN usedMatches

MinOf(a, b) == IF a <= b THEN a ELSE b

\* An execution of slot s at price beyond (NoOrder: no execution) went past o's limit.
ExecutedPast(o, s, beyond) ==
    /\ beyond # NoOrder /\ o.slot = s
    /\ IF s[2] = 1 THEN beyond < o.price ELSE beyond > o.price

\* Faulty variant: only executions are looked at.
InvalidatedByExecution(os, book, s, beyond) ==
    [i \in DOMAIN os |->
        IF Exposed(os[i]) /\ ExecutedPast(os[i], s, beyond)
        THEN Ended(os[i], "invalidated") ELSE os[i]]

\* _invalidate_crossed_remainders, against the book after the event.
Invalidated(os, book, s, beyond) ==
    [i \in DOMAIN os |->
        IF Exposed(os[i]) /\ (ExecutedPast(os[i], s, beyond) \/ CrossedBy(book, os[i]))
        THEN Ended(os[i], "invalidated") ELSE os[i]]

CanOpen(t) == running /\ index < MaxMessages /\ t >= lastTs /\ t > completed

NextMessage(t) ==
    /\ running /\ index < MaxMessages
    /\ OpenMessage(t)
    /\ index' = index + 1

Abort(t) ==
    /\ CanOpen(t)
    /\ running' = FALSE
    /\ UNCHANGED <<vars, visible, queues, usedMatches, anomalies, index>>

\* The message leaves the visible book as it is.
PassOver(t) ==
    /\ NextMessage(t)
    /\ Commit(OrdersBefore(t))
    /\ queues' = QueuesBefore(t)
    /\ UNCHANGED <<visible, usedMatches, running>>

\* _record_anomaly for an event that is skipped as a whole.
Skip(t) ==
    \/ anomalies < MaxAnomalies /\ PassOver(t) /\ anomalies' = anomalies + 1
    \/ anomalies = MaxAnomalies /\ Abort(t)

\* The message changed the visible book to book and the simulated side to os, qs.
Apply(t, os, qs, book, s, beyond) ==
    LET after == Invalidated(os, book, s, beyond) IN
    /\ NextMessage(t)
    /\ Commit(after)
    /\ visible' = book
    /\ queues' = [i \in ExposedIds(after) |-> qs[i]]
    /\ UNCHANGED running

-----------------------------------------------------------------------------
(* Market messages.  "agrees" says that the symbol, side, price and        *)
(* remaining quantity the event carries are those of the visible order it  *)
(* names; every disagreement is skipped in the same way.                   *)

Add(t, r, s, p, q) ==
    \/ r \in DOMAIN visible /\ Skip(t)
    \/ /\ r \notin DOMAIN visible
       /\ Apply(t, OrdersBefore(t), QueuesBefore(t),
                With(visible, r, [slot |-> s, price |-> p, remaining |-> q, priority |-> index + 1]),
                s, NoOrder)
       /\ UNCHANGED <<usedMatches, anomalies>>

\* _validated_existing_order and the quantity check after it.
Consistent(r, q, agrees) ==
    r \in DOMAIN visible /\ agrees /\ q <= visible[r].remaining

\* E and C messages: an execution of q shares of r under match number m.
Execute(t, r, q, agrees, m) ==
    LET os     == OrdersBefore(t)
        qs     == QueuesBefore(t)
        slot   == visible[r].slot
        price  == visible[r].price
        book   == Decremented(visible, r, q)
        behind == {i \in Matching(os, slot, price) : r \notin DOMAIN qs[i].ahead}
        first  == {i \in behind : EarnsFill(qs[i], m)}
        filled == [i \in DOMAIN os |->
                      IF i \in first THEN WithFill(os[i], MinOf(q, os[i].remaining)) ELSE os[i]]
    IN
    \/ ~Consistent(r, q, agrees) /\ Skip(t)
    \/ /\ Consistent(r, q, agrees) /\ behind = {}
       /\ Apply(t, os, AheadDecremented(qs, r, q), book, slot, price)
       /\ UNCHANGED <<usedMatches, anomalies>>
    \/ /\ Consistent(r, q, agrees) /\ behind # {} /\ first = {}
       /\ anomalies < MaxAnomalies
       /\ Apply(t, os, qs, book, slot, price)
       /\ anomalies' = anomalies + 1
       /\ UNCHANGED usedMatches
    \/ /\ Consistent(r, q, agrees) /\ behind # {} /\ first = {}
       /\ anomalies = MaxAnomalies
       /\ Abort(t)
    \/ /\ Consistent(r, q, agrees) /\ first # {}
       /\ Apply(t, filled, qs, book, slot, price)
       /\ usedMatches' = With(usedMatches, m, CHOOSE i \in first : TRUE)
       /\ UNCHANGED anomalies

Cancel(t, r, q, agrees) ==
    \/ ~Consistent(r, q, agrees) /\ Skip(t)
    \/ /\ Consistent(r, q, agrees)
       /\ Apply(t, OrdersBefore(t), AheadDecremented(QueuesBefore(t), r, q),
                Decremented(visible, r, q), visible[r].slot, NoOrder)
       /\ UNCHANGED <<usedMatches, anomalies>>

\* A delete names the whole remaining quantity.
Delete(t, r, agrees) ==
    \/ ~(r \in DOMAIN visible /\ agrees) /\ Skip(t)
    \/ /\ r \in DOMAIN visible /\ agrees
       /\ Apply(t, OrdersBefore(t), AheadRemoved(QueuesBefore(t), r), Without(visible, r),
                visible[r].slot, NoOrder)
       /\ UNCHANGED <<usedMatches, anomalies>>

\* The new reference takes new priority, at any price of the same side.
Replace(t, r, new, p, q, agrees) ==
    LET possible == r \in DOMAIN visible /\ new \notin DOMAIN visible /\ agrees IN
    \/ ~possible /\ Skip(t)
    \/ /\ possible
       /\ Apply(t, OrdersBefore(t), AheadRemoved(QueuesBefore(t), r),
                With(Without(visible, r), new,
                     [slot |-> visible[r].slot, price |-> p, remaining |-> q, priority |-> index + 1]),
                visible[r].slot, NoOrder)
       /\ UNCHANGED <<usedMatches, anomalies>>

\* P and Q trades and trading-state messages never touch a displayed queue.
Observe(t) == PassOver(t) /\ UNCHANGED anomalies

BrokenTrade(t, m) ==
    \/ m \in DOMAIN usedMatches /\ Abort(t)
    \/ m \notin DOMAIN usedMatches /\ PassOver(t) /\ UNCHANGED anomalies

CompleteTimestamp ==
    /\ running
    /\ AfterMarketTimestamp(Passive)
    /\ queues' = QueuesFor(OrdersAfter(DueThrough(lastTs), Passive), queues)
    /\ UNCHANGED <<visible, usedMatches, anomalies, running, index>>

StrategyStep ==
    /\ running
    /\ \/ \E i \in OrderIds, s \in Slots, p \in Prices, q \in 1 .. MaxQuantity : Submit(i, s, p, q)
       \/ \E i \in Ids : RequestCancel(i)
    /\ UNCHANGED queueVars

QueueInit ==
    /\ Init
    /\ visible = Empty /\ queues = Empty /\ usedMatches = Empty
    /\ anomalies = 0 /\ running = TRUE /\ index = 0

Message ==
    \E t \in Times :
        \/ Observe(t)
        \/ \E m \in Matches : BrokenTrade(t, m)
        \/ \E r \in Refs, s \in Slots, p \in Prices, q \in Shares : Add(t, r, s, p, q)
        \/ \E r \in Refs, agrees \in BOOLEAN :
               \/ Delete(t, r, agrees)
               \/ \E q \in Shares : Cancel(t, r, q, agrees)
               \/ \E q \in Shares, m \in Matches : Execute(t, r, q, agrees, m)
               \/ \E new \in Refs, p \in Prices, q \in Shares : Replace(t, r, new, p, q, agrees)

QueueNext == Message \/ CompleteTimestamp \/ StrategyStep

QueueSpec == QueueInit /\ [][QueueNext]_allVars

-----------------------------------------------------------------------------
(* Properties.                                                             *)

\* Exactly the exposed orders have a tracked queue, and it is exactly the
\* visible orders of their level that were there before ("joined" is history:
\* the first message that cannot be ahead), with their present displayed
\* shares, after any sequence of partial executions, cancels, deletes,
\* replacements, reused references and skipped events; _decrement_ahead
\* therefore never fails.
AheadExact ==
    /\ DOMAIN queues = ExposedIds(orders)
    /\ \A i \in DOMAIN queues :
           queues[i].ahead =
               [r \in {x \in Level(visible, orders[i].slot, orders[i].price) :
                           visible[x].priority < queues[i].joined}
                   |-> visible[r].remaining]

\* No simulated order stays exposed against a visible opposite order that
\* reaches its limit: activation, every visible change and every execution past
\* the limit are looked at, so no later fill can rest on an impossible queue.
NoExposedCross ==
    \A i \in ExposedIds(orders) : ~CrossedBy(visible, orders[i])

JoinedAt(i) == IF i \in DOMAIN queues THEN queues[i].joined ELSE index + 1

DisplayedIn(book, r) == IF r \in DOMAIN book THEN book[r].remaining ELSE 0

\* A fill is earned: nothing that was displayed before the order joined is
\* still displayed at its level, one later historical order of that level lost
\* at least the filled quantity in the same message, and a match number that
\* had filled nothing before is now used for this order and for no other.
FillsAreEarned ==
    [][\A i \in Ids : orders'[i].remaining < orders[i].remaining =>
          /\ \A r \in Level(visible', orders[i].slot, orders[i].price) :
                 visible'[r].priority >= JoinedAt(i)
          /\ \E r \in Level(visible, orders[i].slot, orders[i].price) :
                 DisplayedIn(visible, r) - DisplayedIn(visible', r)
                     >= orders[i].remaining - orders'[i].remaining
          /\ \E m \in DOMAIN usedMatches' \ DOMAIN usedMatches :
                 usedMatches' = With(usedMatches, m, i)]_allVars
=============================================================================
