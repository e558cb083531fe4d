--------------------------- MODULE OrderLifecycle ---------------------------
(***************************************************************************)
(* The simulated-order lifecycle of the Python simulator: the immutable    *)
(* order values of order.py, the latency scheduler of scheduler.py and the *)
(* state machine of state_machine.py that owns both.                       *)
(*                                                                         *)
(* One market message opens with BeforeMarketEvent; while it is the        *)
(* current message of an open timestamp group the caller may submit,       *)
(* request cancellation, record fills and invalidate.  A group is closed   *)
(* by AfterMarketTimestamp or by the first message of a later timestamp.   *)
(*                                                                         *)
(* Abstractions: message indices (a BeforeMarketEvent step IS the next     *)
(* index, and callers always pass the current key), queue-ahead quantities *)
(* (VisibleQueue.tla keeps them), terminal timestamps and the returned     *)
(* OrderTransition values.  A call the code answers with an exception      *)
(* before it changes anything is a disabled action.                        *)
(***************************************************************************)
EXTENDS Integers

CONSTANTS
    OrderIds,      \* simulated order identifiers the callers may use
    Slots,         \* (symbol, side) pairs
    Prices,        \* Price4 values
    NoOrder,       \* the absent value of the occupied-slot dictionary
    MaxTime,       \* MAX_TIMESTAMP_NS, the last nanosecond of the day
    MaxLatency,    \* MAX_LATENCY_NS
    MaxQuantity    \* bound on an order's original quantity

ASSUME OrderAssumption == NoOrder \notin OrderIds
ASSUME TimeAssumption  == MaxTime \in Nat /\ MaxLatency \in Nat
ASSUME QuantityAssumption == MaxQuantity \in Nat \ {0}

VARIABLES
    subLatency,    \* configured submission latency of this run
    canLatency,    \* configured cancellation latency of this run
    orders,        \* the dictionary of every order ever submitted
    occupied,      \* live order of each slot, or NoOrder
    pending,       \* scheduled actions that have not become effective
    nextSeq,       \* the scheduler's next action sequence number
    lastTs,        \* timestamp of the newest market message, -1 before any
    completed      \* newest closed timestamp group, -1 before any

vars == <<subLatency, canLatency, orders, occupied, pending, nextSeq,
          lastTs, completed>>

Times == 0 .. MaxTime

TerminalStates == {"filled", "cancelled", "expired", "rejected", "invalidated"}
ExposedStates  == {"active", "partially_filled", "pending_cancel"}
LiveStates     == ExposedStates \cup {"pending_submit"}

Order == [slot : Slots, price : Prices, effective : Times,
          original : 1 .. MaxQuantity, remaining : 0 .. MaxQuantity,
          state : LiveStates \cup TerminalStates, cancelRequested : BOOLEAN]

ScheduledAction == [order : OrderIds, kind : {"activate", "cancel"},
                    effective : Times, seq : Nat]

Ids         == DOMAIN orders
Terminal(o) == o.state \in TerminalStates
Exposed(o)  == o.state \in ExposedStates
Live(o)     == o.state \in LiveStates

TypeOK ==
    /\ subLatency \in 0 .. MaxLatency /\ canLatency \in 0 .. MaxLatency
    /\ Ids \subseteq OrderIds /\ orders \in [Ids -> Order]
    /\ occupied \in [Slots -> OrderIds \cup {NoOrder}]
    /\ pending \in SUBSET ScheduledAction
    /\ nextSeq \in Nat
    /\ lastTs \in Times \cup {-1}
    /\ completed \in Times \cup {-1}

-----------------------------------------------------------------------------
(* Order values: what each transition makes of one order.                  *)

NewOrder(s, p, q, t) ==
    [slot |-> s, price |-> p, effective |-> t, original |-> q, remaining |-> q,
     state |-> "pending_submit", cancelRequested |-> FALSE]

WithCancelRequest(o) ==
    [o EXCEPT !.cancelRequested = TRUE,
              !.state = IF @ = "pending_submit" THEN @ ELSE "pending_cancel"]

\* Faulty variant: the last fill leaves the order partially filled.
WithFillNeverFilled(o, q) ==
    [o EXCEPT !.remaining = @ - q,
              !.state = IF @ = "pending_cancel" THEN @ ELSE "partially_filled"]

WithFill(o, q) ==
    [o EXCEPT !.remaining = @ - q,
              !.state = IF o.remaining = q THEN "filled"
                        ELSE IF @ = "pending_cancel" THEN @
                        ELSE "partially_filled"]

\* Faulty variant: a cancellation requested before activation is forgotten.
ActivatedForgetsCancel(o) == [o EXCEPT !.state = "active"]

Activated(o) ==
    [o EXCEPT !.state = IF o.cancelRequested THEN "pending_cancel" ELSE "active"]

Ended(o, how) == [o EXCEPT !.state = how]

-----------------------------------------------------------------------------
(* The scheduler.                                                          *)

EffectiveTimestamp(t, latency) == t + latency

\* Heap order: effective timestamp, then the request order.
Earlier(a, b) ==
    \/ a.effective < b.effective
    \/ a.effective = b.effective /\ a.seq < b.seq

\* Faulty variants: the tie at the market timestamp goes the other way.
DueBeforeInclusive(t)  == {a \in pending : a.effective <= t}
DueThroughStrictly(t)  == {a \in pending : a.effective < t}

DueBefore(t)   == {a \in pending : a.effective < t}
DueThrough(t)  == {a \in pending : a.effective <= t}

Schedule(i, k, eff) ==
    /\ pending' = pending \cup {[order |-> i, kind |-> k, effective |-> eff, seq |-> nextSeq]}
    /\ nextSeq' = nextSeq + 1

\* The current message belongs to a group that is still open.
GroupOpen == lastTs # -1 /\ completed # lastTs

-----------------------------------------------------------------------------
(* Applying a popped batch.  A batch holds at most one activation and one  *)
(* cancellation of an order and neither looks at another order, so the     *)
(* loop over the batch is stated order by order.  "passive" is the set of  *)
(* orders whose activation the queue resolver accepts; it returns None for *)
(* the others, which are then rejected as marketable.                      *)

\* Faulty variant: a late action of a terminal order is applied as well.
AfterDueEvenTerminal(i, o, due, passive) ==
    LET mine == {a \in due : a.order = i}
    IN  IF mine = {} THEN o
        ELSE IF \E a \in mine : a.kind = "cancel" THEN Ended(o, "cancelled")
        ELSE IF i \notin passive THEN Ended(o, "rejected")
        ELSE Activated(o)

AfterDue(i, o, due, passive) ==
    LET mine     == {a \in due : a.order = i}
        activate == {a \in mine : a.kind = "activate"}
        cancel   == {a \in mine : a.kind = "cancel"}
        cancelFirst == \E c \in cancel, a \in activate : Earlier(c, a)
    IN  IF ~Live(o) \/ mine = {} THEN o
        ELSE IF activate # {} /\ ~cancelFirst /\ i \notin passive THEN Ended(o, "rejected")
        ELSE IF cancel # {} THEN Ended(o, "cancelled")
        ELSE Activated(o)

OrdersAfter(due, passive) ==
    [i \in Ids |-> AfterDue(i, orders[i], due, passive)]

\* Faulty variant: every order that is terminal frees its old slot again.
ReleasedAgain(occ, before, after) ==
    [s \in Slots |->
        IF \E i \in DOMAIN after : Terminal(after[i]) /\ after[i].slot = s
        THEN NoOrder ELSE occ[s]]

\* _commit: an order that becomes terminal gives its slot up.
Released(occ, before, after) ==
    [s \in Slots |->
        IF \E i \in DOMAIN before : Live(before[i]) /\ Terminal(after[i]) /\ after[i].slot = s
        THEN NoOrder ELSE occ[s]]

Commit(after) ==
    /\ orders' = after
    /\ occupied' = Released(occupied, orders, after)

CommitOne(i, o) == Commit([orders EXCEPT ![i] = o])

-----------------------------------------------------------------------------
(* Operations.                                                             *)

Init ==
    /\ subLatency \in 0 .. MaxLatency /\ canLatency \in 0 .. MaxLatency
    /\ orders = [i \in {} |-> NoOrder]
    /\ occupied = [s \in Slots |-> NoOrder]
    /\ pending = {}
    /\ nextSeq = 0
    /\ lastTs = -1 /\ completed = -1

\* actions_before_market: the next market message closes every earlier group.
OpenMessage(t) ==
    /\ t >= lastTs /\ t > completed
    /\ completed' = IF lastTs # -1 /\ t > lastTs THEN lastTs ELSE completed
    /\ lastTs' = t
    /\ pending' = pending \ DueBefore(t)
    /\ UNCHANGED <<subLatency, canLatency, nextSeq>>

\* actions_after_market_timestamp.
CloseGroup ==
    /\ GroupOpen
    /\ completed' = lastTs
    /\ pending' = pending \ DueThrough(lastTs)
    /\ UNCHANGED <<subLatency, canLatency, nextSeq, lastTs>>

BeforeMarketEvent(t, passive) ==
    OpenMessage(t) /\ Commit(OrdersAfter(DueBefore(t), passive))

AfterMarketTimestamp(passive) ==
    CloseGroup /\ Commit(OrdersAfter(DueThrough(lastTs), passive))

Submit(i, s, p, q) ==
    LET eff == EffectiveTimestamp(lastTs, subLatency) IN
    /\ GroupOpen
    /\ i \notin Ids
    /\ occupied[s] = NoOrder
    /\ eff <= MaxTime
    /\ Schedule(i, "activate", eff)
    /\ orders' = [j \in Ids \cup {i} |-> IF j = i THEN NewOrder(s, p, q, eff) ELSE orders[j]]
    /\ occupied' = [occupied EXCEPT ![s] = i]
    /\ UNCHANGED <<subLatency, canLatency, lastTs, completed>>

RequestCancel(i) ==
    LET eff == EffectiveTimestamp(lastTs, canLatency) IN
    /\ GroupOpen
    /\ orders[i].state \in {"pending_submit", "active", "partially_filled"}
    /\ ~orders[i].cancelRequested
    /\ eff <= MaxTime
    /\ Schedule(i, "cancel", eff)
    /\ orders' = [orders EXCEPT ![i] = WithCancelRequest(@)]
    /\ UNCHANGED <<subLatency, canLatency, occupied, lastTs, completed>>

RecordFill(i, q) ==
    /\ GroupOpen
    /\ Exposed(orders[i])
    /\ q <= orders[i].remaining
    /\ lastTs >= orders[i].effective
    /\ CommitOne(i, WithFill(orders[i], q))
    /\ UNCHANGED <<subLatency, canLatency, pending, nextSeq, lastTs, completed>>

\* reject takes the caller's timestamp, which only has to reach the
\* activation's effective time; a timestamp of the day always can.
Reject(i) ==
    /\ orders[i].state = "pending_submit"
    /\ CommitOne(i, Ended(orders[i], "rejected"))
    /\ UNCHANGED <<subLatency, canLatency, pending, nextSeq, lastTs, completed>>

Invalidate(i) ==
    /\ GroupOpen
    /\ Exposed(orders[i])
    /\ CommitOne(i, Ended(orders[i], "invalidated"))
    /\ UNCHANGED <<subLatency, canLatency, pending, nextSeq, lastTs, completed>>

Expire(i) ==
    /\ Live(orders[i])
    /\ CommitOne(i, Ended(orders[i], "expired"))
    /\ UNCHANGED <<subLatency, canLatency, pending, nextSeq, lastTs, completed>>

Next ==
    \/ \E t \in Times, passive \in SUBSET Ids : BeforeMarketEvent(t, passive)
    \/ \E passive \in SUBSET Ids : AfterMarketTimestamp(passive)
    \/ \E i \in OrderIds, s \in Slots, p \in Prices, q \in 1 .. MaxQuantity : Submit(i, s, p, q)
    \/ \E i \in Ids : RequestCancel(i)
    \/ \E i \in Ids, q \in 1 .. MaxQuantity : RecordFill(i, q)
    \/ \E i \in Ids : Reject(i) \/ Invalidate(i) \/ Expire(i)

Spec == Init /\ [][Next]_vars

-----------------------------------------------------------------------------
(* Properties.                                                             *)

\* A slot names exactly the one live order of its symbol and side, and every
\* live order owns its slot: the check in _commit never finds a foreign owner
\* and occupied_order never meets a terminal order, whatever mixture of
\* batches, fills, rejections and expiries ended the earlier orders.
SlotExclusive ==
    /\ \A s \in Slots : occupied[s] # NoOrder =>
           /\ occupied[s] \in Ids
           /\ Live(orders[occupied[s]])
           /\ orders[occupied[s]].slot = s
    /\ \A i \in Ids : Live(orders[i]) => occupied[orders[i].slot] = i

Of(i, k) == {a \in pending : a.order = i /\ a.kind = k}

\* The heap still holds the activation of every live order that is waiting
\* for it and the cancellation of every live order that asked for one, never
\* two of a kind: no live order can be forgotten, and _apply_action never
\* meets a live order in a state that refuses the popped action.
LiveOrdersScheduled ==
    /\ \A a, b \in pending : a.order = b.order /\ a.kind = b.kind => a = b
    /\ \A i \in Ids : Live(orders[i]) =>
        /\ orders[i].state = "pending_submit" <=> Of(i, "activate") # {}
        /\ orders[i].cancelRequested <=> Of(i, "cancel") # {}
        /\ orders[i].state = "pending_cancel" => orders[i].cancelRequested
        /\ orders[i].state \in {"active", "partially_filled"} => ~orders[i].cancelRequested

\* Nothing that should have taken effect is still waiting: with the group
\* open only effects at or after its timestamp wait (market messages come
\* first), with the group closed only strictly later ones do.
NothingOverdue ==
    \A a \in pending :
        IF GroupOpen THEN a.effective >= lastTs ELSE a.effective > lastTs

\* What validate_simulated_order demands of the value each commit stores: a
\* remainder of zero exactly when filled, a strict partial, a remainder that
\* never exceeds the original.
OrderValuesValid ==
    \A i \in Ids :
        /\ orders[i].remaining <= orders[i].original
        /\ (orders[i].state = "filled") <=> (orders[i].remaining = 0)
        /\ orders[i].state = "partially_filled" => orders[i].remaining < orders[i].original

(***************************************************************************)
(* The inductive invariant.  SlotExclusive needs to know that the heap     *)
(* still holds the actions live orders wait for, NothingOverdue needs the  *)
(* two clocks in order, and FillsRespectLatency needs an exposed order's   *)
(* effective time in the past of every open group.                         *)
(***************************************************************************)
ClocksOrdered == completed <= lastTs

PendingKnown ==
    \A a \in pending :
        /\ a.order \in Ids
        /\ a.seq < nextSeq
        /\ a.kind = "activate" => a.effective = orders[a.order].effective
        /\ a.kind = "cancel" => orders[a.order].cancelRequested

ExposedInPast ==
    \A i \in Ids : Exposed(orders[i]) =>
        IF GroupOpen THEN orders[i].effective < lastTs ELSE orders[i].effective <= lastTs

LifecycleInv ==
    /\ TypeOK
    /\ ClocksOrdered
    /\ PendingKnown
    /\ LiveOrdersScheduled
    /\ NothingOverdue
    /\ ExposedInPast
    /\ OrderValuesValid
    /\ SlotExclusive

\* A fill happens only strictly after the order's submission took effect and
\* never after its cancellation did: the market-first tie-break holds in both
\* directions, so a fill cannot use an instant the order was not exposed in.
FillsRespectLatency ==
    [][\A i \in Ids :
          orders'[i].remaining < orders[i].remaining =>
              /\ orders[i].effective < lastTs
              /\ \A a \in Of(i, "cancel") : a.effective >= lastTs]_vars

\* The state diagram of the lifecycle: an order only moves along these edges,
\* and a terminal order never changes again, not even when its own late
\* activation or cancellation is finally popped.
Successors(st) ==
    CASE st = "pending_submit"   -> {"active", "pending_cancel", "cancelled",
                                     "rejected", "expired"}
      [] st = "active"           -> {"partially_filled", "pending_cancel", "filled",
                                     "invalidated", "expired"}
      [] st = "partially_filled" -> {"pending_cancel", "filled",
                                     "invalidated", "expired"}
      [] st = "pending_cancel"   -> {"filled", "cancelled", "invalidated", "expired"}
      [] OTHER                   -> {}

LifecycleEdges ==
    [][\A i \in Ids :
          /\ i \in Ids'
          /\ orders'[i].state # orders[i].state => orders'[i].state \in Successors(orders[i].state)
          /\ Terminal(orders[i]) => orders'[i] = orders[i]]_vars
=============================================================================
