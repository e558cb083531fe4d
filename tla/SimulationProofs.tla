--------------------------- MODULE SimulationProofs ---------------------------
(***************************************************************************)
(* Proofs about the order lifecycle and the two machines built on it.      *)
(*                                                                         *)
(* OrderLifecycle, for any finite or infinite set of orders and slots and  *)
(* any latencies: slots, the actions in the heap and the lifecycle edges.  *)
(*                                                                         *)
(* SimulationRun: the event loop only makes legal lifecycle calls, and the *)
(* projected-inventory gate keeps every exposure bounded.                  *)
(*                                                                         *)
(* VisibleQueue, for any orders, symbols, prices, messages and latencies:  *)
(* the tracked queues are exact, no exposed order is crossed, and every    *)
(* fill is earned.  A message goes through three stages in one step: the   *)
(* due actions turn the orders and the queues into OrdersBefore and        *)
(* QueuesBefore, its own effect changes the visible book and the queues    *)
(* with it, and the last stage ends crossed orders and drops their queues. *)
(* "Exact" relates the orders, queues and book of any stage, so one lemma  *)
(* covers each stage.                                                      *)
(***************************************************************************)
EXTENDS SimulationRun, VisibleQueue, TLAPS

(***************************************************************************)
(*                            OrderLifecycle                               *)
(***************************************************************************)

-----------------------------------------------------------------------------
(* One order inside a popped batch.                                        *)

\* What the loop over a batch leaves of one order: the order itself when no
\* action of it was due, otherwise one of the three outcomes.
LEMMA AfterDueCases ==
    ASSUME TypeOK, NEW due, due \subseteq pending, NEW passive, NEW i \in Ids,
           NEW n, n = AfterDue(i, orders[i], due, passive)
    PROVE  \/ /\ n = orders[i]
              /\ Live(orders[i]) => \A a \in due : a.order # i
           \/ /\ Live(orders[i]) /\ \E a \in due : a.order = i
              /\ n = Ended(orders[i], "rejected") \/ n = Ended(orders[i], "cancelled")
           \/ /\ Live(orders[i]) /\ n = Activated(orders[i])
              /\ \E a \in due : a.order = i /\ a.kind = "activate"
              /\ \A a \in due : a.order = i => a.kind # "cancel"
<1>1. \A a \in due : a.kind \in {"activate", "cancel"}
  BY DEF TypeOK, ScheduledAction
<1> QED  BY <1>1 DEF AfterDue

\* A batch keeps an order's slot, quantities, effective time and cancellation
\* request, and it turns a live order only into a live or a terminal one.
LEMMA AfterDueKeeps ==
    ASSUME TypeOK, NEW due, due \subseteq pending, NEW passive, NEW i \in Ids,
           NEW n, n = AfterDue(i, orders[i], due, passive)
    PROVE  /\ n \in Order
           /\ n # orders[i] => Live(orders[i])
           /\ n.slot = orders[i].slot
           /\ n.effective = orders[i].effective
           /\ n.original = orders[i].original
           /\ n.remaining = orders[i].remaining
           /\ n.cancelRequested = orders[i].cancelRequested
           /\ n.state = "filled" <=> orders[i].state = "filled"
           /\ n.state = "partially_filled" => orders[i].state = "partially_filled"
<1>1. orders[i] \in Order
  BY DEF TypeOK
<1>2. \/ n = orders[i]
      \/ Live(orders[i]) /\ n = Activated(orders[i])
      \/ Live(orders[i]) /\ (n = Ended(orders[i], "rejected") \/ n = Ended(orders[i], "cancelled"))
  BY DEF AfterDue
<1>3. CASE n = orders[i]
  BY <1>1, <1>3
<1>4. CASE Live(orders[i]) /\ n = Activated(orders[i])
  BY <1>1, <1>4 DEF Activated, Order, Live, LiveStates, ExposedStates
<1>5. CASE Live(orders[i]) /\ n \in {Ended(orders[i], "rejected"), Ended(orders[i], "cancelled")}
  BY <1>1, <1>5 DEF Ended, Order, TerminalStates, Live, LiveStates, ExposedStates
<1> QED  BY <1>2, <1>3, <1>4, <1>5

\* Freeing the slots of the orders that just ended keeps slots and live orders
\* in one-to-one correspondence, whatever set of orders changed.
LEMMA ReleaseKeepsSlots ==
    ASSUME TypeOK, SlotExclusive, NEW after \in [Ids -> Order],
           \A i \in Ids : after[i].slot = orders[i].slot,
           \A i \in Ids : Live(after[i]) => Live(orders[i]),
           orders' = after, occupied' = Released(occupied, orders, after)
    PROVE  /\ SlotExclusive'
           /\ occupied' \in [Slots -> OrderIds \cup {NoOrder}]
<1>1. \A i \in Ids : Live(after[i]) <=> ~Terminal(after[i])
  BY DEF Order, Live, Terminal, LiveStates, ExposedStates, TerminalStates
<1>2. occupied' \in [Slots -> OrderIds \cup {NoOrder}]
  BY DEF TypeOK, Released
<1>3. Ids' = Ids
  BY DEF Ids
<1>4. ASSUME NEW s \in Slots, occupied'[s] # NoOrder
      PROVE  /\ occupied'[s] \in Ids /\ Live(after[occupied'[s]])
             /\ after[occupied'[s]].slot = s
  <2>1. occupied'[s] = occupied[s]
    BY <1>4 DEF Released
  <2>2. ~\E i \in Ids : Live(orders[i]) /\ Terminal(after[i]) /\ after[i].slot = s
    BY <1>4 DEF Released, Ids
  <2>3. occupied[s] \in Ids /\ Live(orders[occupied[s]]) /\ orders[occupied[s]].slot = s
    BY <1>4, <2>1 DEF SlotExclusive
  <2> QED  BY <1>1, <2>1, <2>2, <2>3
<1>5. ASSUME NEW i \in Ids, Live(after[i])
      PROVE  occupied'[after[i].slot] = i
  <2>1. Live(orders[i]) /\ occupied[orders[i].slot] = i /\ orders[i].slot \in Slots
    BY <1>5 DEF SlotExclusive, TypeOK, Order
  <2>2. \A j \in Ids : Live(orders[j]) /\ orders[j].slot = orders[i].slot => j = i
    BY <2>1 DEF SlotExclusive
  <2> QED  BY <1>1, <1>5, <2>1, <2>2 DEF Released, Ids
<1> QED  BY <1>2, <1>3, <1>4, <1>5 DEF SlotExclusive

\* Popping a batch and applying it keeps everything that does not mention the
\* clock.
LEMMA BatchKeepsInv ==
    ASSUME LifecycleInv, NEW due, due \subseteq pending, NEW passive,
           pending' = pending \ due, nextSeq' = nextSeq,
           subLatency' = subLatency, canLatency' = canLatency,
           lastTs' \in Times \cup {-1}, completed' \in Times \cup {-1},
           Commit(OrdersAfter(due, passive))
    PROVE  /\ TypeOK' /\ PendingKnown' /\ LiveOrdersScheduled'
           /\ OrderValuesValid' /\ SlotExclusive'
           /\ Ids' = Ids
           /\ \A i \in Ids : orders'[i].effective = orders[i].effective
           /\ \A i \in Ids : Exposed(orders'[i]) =>
                  Exposed(orders[i]) \/ \E a \in due : a.effective = orders[i].effective
<1> DEFINE after == OrdersAfter(due, passive)
<1>1. TypeOK
  BY DEF LifecycleInv
<1>2. orders' = after /\ occupied' = Released(occupied, orders, after) /\ Ids' = Ids
  BY DEF Commit, OrdersAfter, Ids
<1>3. \A i \in Ids : after[i] = AfterDue(i, orders[i], due, passive)
  BY DEF OrdersAfter
<1> HIDE DEF after
<1>4. ASSUME NEW i \in Ids
      PROVE  /\ after[i] \in Order
             /\ after[i] # orders[i] => Live(orders[i])
             /\ after[i].slot = orders[i].slot
             /\ after[i].effective = orders[i].effective
             /\ after[i].original = orders[i].original
             /\ after[i].remaining = orders[i].remaining
             /\ after[i].cancelRequested = orders[i].cancelRequested
             /\ after[i].state = "filled" <=> orders[i].state = "filled"
             /\ after[i].state = "partially_filled" => orders[i].state = "partially_filled"
  BY <1>1, <1>3, <1>4, AfterDueKeeps
<1>5. after \in [Ids -> Order]
  BY <1>4, <1>2 DEF OrdersAfter, after
<1>6. ASSUME NEW i \in Ids
      PROVE  \/ /\ after[i] = orders[i]
                /\ Live(orders[i]) => \A a \in due : a.order # i
             \/ /\ Live(orders[i]) /\ ~Live(after[i]) /\ ~Exposed(after[i])
             \/ /\ Live(orders[i]) /\ after[i] = Activated(orders[i])
                /\ \E a \in due : a.order = i /\ a.kind = "activate"
                /\ \A a \in due : a.order = i => a.kind # "cancel"
  <2>1. \/ /\ after[i] = orders[i]
           /\ Live(orders[i]) => \A a \in due : a.order # i
        \/ /\ Live(orders[i]) /\ \E a \in due : a.order = i
           /\ after[i] = Ended(orders[i], "rejected") \/ after[i] = Ended(orders[i], "cancelled")
        \/ /\ Live(orders[i]) /\ after[i] = Activated(orders[i])
           /\ \E a \in due : a.order = i /\ a.kind = "activate"
           /\ \A a \in due : a.order = i => a.kind # "cancel"
    BY <1>1, <1>3, AfterDueCases
  <2>2. orders[i] \in Order
    BY <1>1 DEF TypeOK
  <2>3. after[i] = Ended(orders[i], "rejected") \/ after[i] = Ended(orders[i], "cancelled")
        => ~Live(after[i]) /\ ~Exposed(after[i])
    BY <2>2 DEF Ended, Order, Live, Exposed, LiveStates, ExposedStates
  <2> QED  BY <2>1, <2>3
<1>7. SlotExclusive' /\ occupied' \in [Slots -> OrderIds \cup {NoOrder}]
  BY <1>1, <1>2, <1>4, <1>5, ReleaseKeepsSlots DEF LifecycleInv
<1>8. TypeOK'
  BY <1>1, <1>2, <1>5, <1>7 DEF TypeOK
<1>9. OrderValuesValid'
  BY <1>2, <1>4 DEF LifecycleInv, OrderValuesValid
<1>10. PendingKnown'
  BY <1>1, <1>2, <1>4 DEF LifecycleInv, PendingKnown, TypeOK, ScheduledAction
<1>11. LiveOrdersScheduled'
  <2>1. \A a, b \in pending' : a.order = b.order /\ a.kind = b.kind => a = b
    BY DEF LifecycleInv, LiveOrdersScheduled
  <2>2. ASSUME NEW i \in Ids, Live(after[i])
        PROVE  /\ after[i].state = "pending_submit" <=> (Of(i, "activate"))' # {}
               /\ after[i].cancelRequested <=> (Of(i, "cancel"))' # {}
               /\ after[i].state = "pending_cancel" => after[i].cancelRequested
               /\ after[i].state \in {"active", "partially_filled"} => ~after[i].cancelRequested
    <3>1. /\ orders[i].state = "pending_submit" <=> Of(i, "activate") # {}
          /\ orders[i].cancelRequested <=> Of(i, "cancel") # {}
          /\ orders[i].state = "pending_cancel" => orders[i].cancelRequested
          /\ orders[i].state \in {"active", "partially_filled"} => ~orders[i].cancelRequested
      BY <1>6, <2>2 DEF LifecycleInv, LiveOrdersScheduled
    <3>2. CASE after[i] = orders[i] /\ \A a \in due : a.order # i
      BY <3>1, <3>2 DEF Of
    <3>3. CASE /\ after[i] = Activated(orders[i])
               /\ \E a \in due : a.order = i /\ a.kind = "activate"
               /\ \A a \in due : a.order = i => a.kind # "cancel"
      <4>1. (Of(i, "activate"))' = {}
        BY <3>3 DEF Of, LifecycleInv, LiveOrdersScheduled
      <4>2. (Of(i, "cancel"))' = Of(i, "cancel")
        BY <3>3 DEF Of
      <4>3. after[i].cancelRequested = orders[i].cancelRequested /\ orders[i] \in Order
        BY <1>1, <1>4 DEF TypeOK
      <4>4. after[i].state = IF orders[i].cancelRequested THEN "pending_cancel" ELSE "active"
        BY <3>3, <4>3 DEF Activated, Order
      <4> QED  BY <3>1, <4>1, <4>2, <4>3, <4>4
    <3> QED  BY <1>6, <2>2, <3>2, <3>3
  <2> QED  BY <1>2, <2>1, <2>2 DEF LiveOrdersScheduled
<1>12. ASSUME NEW i \in Ids, Exposed(after[i]), ~Exposed(orders[i])
       PROVE  \E a \in due : a.effective = orders[i].effective
  <2>1. PICK a \in due : a.order = i /\ a.kind = "activate"
    BY <1>6, <1>12
  <2> QED  BY <2>1 DEF LifecycleInv, PendingKnown
<1> QED  BY <1>2, <1>4, <1>7, <1>8, <1>9, <1>10, <1>11, <1>12
-----------------------------------------------------------------------------
(* The inductive invariant.                                                *)

LEMMA LifecycleInit == Init => LifecycleInv
<1> SUFFICES ASSUME Init PROVE LifecycleInv
  OBVIOUS
<1>1. Ids = {}
  BY DEF Init, Ids
<1>2. TypeOK
  BY <1>1, TimeAssumption DEF Init, TypeOK, Times
<1> QED
  BY <1>1, <1>2, OrderAssumption DEF Init, LifecycleInv, ClocksOrdered, PendingKnown,
     LiveOrdersScheduled, NothingOverdue, ExposedInPast, OrderValuesValid, SlotExclusive

\* The steps that open and close timestamp groups.
LEMMA ClockStepsKeepInv ==
    ASSUME LifecycleInv,
           \/ \E t \in Times, passive \in SUBSET Ids : BeforeMarketEvent(t, passive)
           \/ \E passive \in SUBSET Ids : AfterMarketTimestamp(passive)
    PROVE  LifecycleInv'
<1>1. /\ lastTs \in Times \cup {-1} /\ completed \in Times \cup {-1} /\ MaxTime \in Nat
      /\ completed <= lastTs
      /\ \A a \in pending : a.effective \in Times
      /\ \A i \in Ids : orders[i].effective \in Times
  BY TimeAssumption DEF LifecycleInv, TypeOK, ClocksOrdered, ScheduledAction, Order
<1>2. ASSUME NEW t \in Times, NEW passive \in SUBSET Ids, BeforeMarketEvent(t, passive)
      PROVE  LifecycleInv'
  <2> DEFINE due == DueBefore(t)
  <2>1. /\ t >= lastTs /\ t > completed
        /\ completed' = IF lastTs # -1 /\ t > lastTs THEN lastTs ELSE completed
        /\ lastTs' = t /\ pending' = pending \ due
        /\ Commit(OrdersAfter(due, passive))
        /\ subLatency' = subLatency /\ canLatency' = canLatency /\ nextSeq' = nextSeq
    BY <1>2 DEF BeforeMarketEvent, OpenMessage
  <2>2. due \subseteq pending /\ \A a \in due : a.effective < t
    BY DEF DueBefore
  <2>3. lastTs' \in Times \cup {-1} /\ completed' \in Times \cup {-1}
    BY <1>1, <2>1
  <2>4. /\ TypeOK' /\ PendingKnown' /\ LiveOrdersScheduled'
        /\ OrderValuesValid' /\ SlotExclusive'
        /\ Ids' = Ids
        /\ \A i \in Ids : orders'[i].effective = orders[i].effective
        /\ \A i \in Ids : Exposed(orders'[i]) =>
               Exposed(orders[i]) \/ \E a \in due : a.effective = orders[i].effective
    BY <2>1, <2>2, <2>3, BatchKeepsInv
  <2>5. ClocksOrdered' /\ GroupOpen'
    BY <1>1, <2>1 DEF ClocksOrdered, GroupOpen, Times
  <2>6. NothingOverdue'
    BY <1>1, <2>1, <2>5 DEF NothingOverdue, DueBefore, Times
  <2>7. ASSUME NEW i \in Ids, Exposed(orders[i])  PROVE orders[i].effective < t
    <3>1. CASE t > lastTs
      BY <1>1, <2>1, <2>7, <3>1 DEF LifecycleInv, ExposedInPast, Times
    <3>2. CASE t = lastTs
      <4>1. GroupOpen
        BY <1>1, <2>1, <3>2 DEF GroupOpen, Times
      <4> QED  BY <2>7, <3>2, <4>1 DEF LifecycleInv, ExposedInPast
    <3> QED  BY <1>1, <2>1, <3>1, <3>2 DEF Times
  <2>8. ASSUME NEW i \in Ids, Exposed(orders'[i])  PROVE orders'[i].effective < t
    <3> HIDE DEF due
    <3> QED  BY <2>2, <2>4, <2>7, <2>8
  <2>9. ExposedInPast'
    BY <2>1, <2>4, <2>5, <2>8 DEF ExposedInPast
  <2> QED  BY <2>4, <2>5, <2>6, <2>9 DEF LifecycleInv
<1>3. ASSUME NEW passive \in SUBSET Ids, AfterMarketTimestamp(passive)
      PROVE  LifecycleInv'
  <2> DEFINE due == DueThrough(lastTs)
  <2>1. /\ GroupOpen /\ completed' = lastTs
        /\ lastTs' = lastTs /\ pending' = pending \ due
        /\ Commit(OrdersAfter(due, passive))
        /\ subLatency' = subLatency /\ canLatency' = canLatency /\ nextSeq' = nextSeq
    BY <1>3 DEF AfterMarketTimestamp, CloseGroup
  <2>2. due \subseteq pending /\ \A a \in due : a.effective <= lastTs
    BY DEF DueThrough
  <2>3. lastTs' \in Times \cup {-1} /\ completed' \in Times \cup {-1}
    BY <1>1, <2>1
  <2>4. /\ TypeOK' /\ PendingKnown' /\ LiveOrdersScheduled'
        /\ OrderValuesValid' /\ SlotExclusive'
        /\ Ids' = Ids
        /\ \A i \in Ids : orders'[i].effective = orders[i].effective
        /\ \A i \in Ids : Exposed(orders'[i]) =>
               Exposed(orders[i]) \/ \E a \in due : a.effective = orders[i].effective
    BY <2>1, <2>2, <2>3, BatchKeepsInv
  <2>5. ClocksOrdered' /\ ~GroupOpen'
    BY <1>1, <2>1 DEF ClocksOrdered, GroupOpen, Times
  <2>6. NothingOverdue'
    BY <1>1, <2>1, <2>5 DEF NothingOverdue, DueThrough, Times
  <2>7. \A i \in Ids : Exposed(orders[i]) => orders[i].effective <= lastTs
    BY <1>1 DEF LifecycleInv, ExposedInPast, Times
  <2>8. ASSUME NEW i \in Ids, Exposed(orders'[i])  PROVE orders'[i].effective <= lastTs
    <3> HIDE DEF due
    <3> QED  BY <2>2, <2>4, <2>7, <2>8
  <2>9. ExposedInPast'
    BY <2>1, <2>4, <2>5, <2>8 DEF ExposedInPast
  <2> QED  BY <2>4, <2>5, <2>6, <2>9 DEF LifecycleInv
<1> QED  BY <1>2, <1>3

\* The new order takes a free slot and an action of its own.
LEMMA SubmitKeepsInv ==
    ASSUME LifecycleInv, NEW i \in OrderIds, NEW s \in Slots, NEW p \in Prices,
           NEW q \in 1 .. MaxQuantity, Submit(i, s, p, q)
    PROVE  LifecycleInv'
<1> DEFINE eff == EffectiveTimestamp(lastTs, subLatency)
           new == NewOrder(s, p, q, eff)
           act == [order |-> i, kind |-> "activate", effective |-> eff, seq |-> nextSeq]
<1>1. TypeOK
  BY DEF LifecycleInv
<1>2. /\ GroupOpen /\ i \notin Ids /\ occupied[s] = NoOrder /\ eff <= MaxTime
      /\ pending' = pending \cup {act} /\ nextSeq' = nextSeq + 1
      /\ orders' = [j \in Ids \cup {i} |-> IF j = i THEN new ELSE orders[j]]
      /\ occupied' = [occupied EXCEPT ![s] = i]
      /\ UNCHANGED <<subLatency, canLatency, lastTs, completed>>
  BY DEF Submit, Schedule
<1>3. eff \in Times /\ eff >= lastTs
  BY <1>1, <1>2, TimeAssumption DEF TypeOK, EffectiveTimestamp, Times, GroupOpen
<1>4. /\ new \in Order /\ new.state = "pending_submit" /\ new.slot = s
      /\ new.effective = eff /\ ~new.cancelRequested
      /\ new.remaining = new.original /\ new.remaining # 0
  BY <1>3, QuantityAssumption DEF NewOrder, Order, LiveStates
<1>5. Live(new) /\ ~Exposed(new)
  BY <1>4 DEF Live, Exposed, LiveStates, ExposedStates
<1>6. act \in ScheduledAction
  BY <1>1, <1>3 DEF ScheduledAction, TypeOK
<1> HIDE DEF new, eff
<1>7. Ids' = Ids \cup {i} /\ orders'[i] = new /\ \A j \in Ids : orders'[j] = orders[j]
  BY <1>2 DEF Ids
<1>8. TypeOK'
  BY <1>1, <1>2, <1>4, <1>6, <1>7 DEF TypeOK
<1>9. ClocksOrdered' /\ NothingOverdue'
  BY <1>2, <1>3 DEF LifecycleInv, ClocksOrdered, NothingOverdue, GroupOpen
<1>10. PendingKnown'
  BY <1>1, <1>2, <1>4, <1>7 DEF LifecycleInv, PendingKnown, TypeOK, ScheduledAction
<1>11. LiveOrdersScheduled'
  <2>1. \A a \in pending : a.order # i
    BY <1>2 DEF LifecycleInv, PendingKnown
  <2>2. \A a, b \in pending' : a.order = b.order /\ a.kind = b.kind => a = b
    BY <1>2, <2>1 DEF LifecycleInv, LiveOrdersScheduled
  <2>3. (Of(i, "activate"))' = {act} /\ (Of(i, "cancel"))' = {}
    BY <1>2, <2>1 DEF Of
  <2>4. \A j \in Ids : (Of(j, "activate"))' = Of(j, "activate") /\ (Of(j, "cancel"))' = Of(j, "cancel")
    BY <1>2 DEF Of
  <2> QED  BY <1>4, <1>7, <2>2, <2>3, <2>4 DEF LifecycleInv, LiveOrdersScheduled
<1>12. ExposedInPast'
  BY <1>2, <1>5, <1>7 DEF LifecycleInv, ExposedInPast, GroupOpen
<1>13. OrderValuesValid'
  BY <1>1, <1>4, <1>7 DEF LifecycleInv, OrderValuesValid, TypeOK, Order
<1>14. SlotExclusive'
  BY <1>1, <1>2, <1>4, <1>5, <1>7, OrderAssumption DEF LifecycleInv, SlotExclusive, TypeOK, Order
<1> QED  BY <1>8, <1>9, <1>10, <1>11, <1>12, <1>13, <1>14 DEF LifecycleInv

\* The cancellation request keeps the slot and the exposure.
LEMMA RequestCancelKeepsInv ==
    ASSUME LifecycleInv, NEW i \in Ids, RequestCancel(i)
    PROVE  LifecycleInv'
<1> DEFINE eff == EffectiveTimestamp(lastTs, canLatency)
           new == WithCancelRequest(orders[i])
           act == [order |-> i, kind |-> "cancel", effective |-> eff, seq |-> nextSeq]
<1>1. TypeOK /\ orders[i] \in Order
  BY DEF LifecycleInv, TypeOK
<1>2. /\ GroupOpen /\ eff <= MaxTime
      /\ orders[i].state \in {"pending_submit", "active", "partially_filled"}
      /\ ~orders[i].cancelRequested
      /\ pending' = pending \cup {act} /\ nextSeq' = nextSeq + 1
      /\ orders' = [orders EXCEPT ![i] = new]
      /\ UNCHANGED <<subLatency, canLatency, occupied, lastTs, completed>>
  BY DEF RequestCancel, Schedule
<1>3. eff \in Times /\ eff >= lastTs
  BY <1>1, <1>2, TimeAssumption DEF TypeOK, EffectiveTimestamp, Times, GroupOpen
<1>4. /\ new \in Order /\ new.slot = orders[i].slot /\ new.effective = orders[i].effective
      /\ new.original = orders[i].original /\ new.remaining = orders[i].remaining
      /\ new.cancelRequested
      /\ new.state = IF orders[i].state = "pending_submit" THEN "pending_submit" ELSE "pending_cancel"
  BY <1>1 DEF WithCancelRequest, Order, LiveStates, ExposedStates
<1>5. Live(new) /\ Live(orders[i]) /\ (Exposed(new) <=> Exposed(orders[i]))
  BY <1>2, <1>4 DEF Live, Exposed, LiveStates, ExposedStates
<1>6. act \in ScheduledAction
  BY <1>1, <1>3 DEF ScheduledAction, TypeOK
<1> HIDE DEF new, eff
<1>7. Ids' = Ids /\ orders'[i] = new /\ \A j \in Ids : j # i => orders'[j] = orders[j]
  BY <1>1, <1>2 DEF Ids, TypeOK
<1>8. TypeOK'
  BY <1>1, <1>2, <1>4, <1>6, <1>7 DEF TypeOK
<1>9. ClocksOrdered' /\ NothingOverdue'
  BY <1>2, <1>3 DEF LifecycleInv, ClocksOrdered, NothingOverdue, GroupOpen
<1>10. PendingKnown'
  BY <1>1, <1>2, <1>4, <1>7 DEF LifecycleInv, PendingKnown, TypeOK, ScheduledAction
<1>11. LiveOrdersScheduled'
  <2>1. Of(i, "cancel") = {} /\ \A a \in pending : a.order = i => a.kind # "cancel"
    BY <1>2, <1>5 DEF LifecycleInv, LiveOrdersScheduled, Of
  <2>2. \A a, b \in pending' : a.order = b.order /\ a.kind = b.kind => a = b
    BY <1>2, <2>1 DEF LifecycleInv, LiveOrdersScheduled
  <2>3. (Of(i, "activate"))' = Of(i, "activate") /\ (Of(i, "cancel"))' = {act}
    BY <1>2, <2>1 DEF Of
  <2>4. \A j \in Ids : j # i => (Of(j, "activate"))' = Of(j, "activate") /\ (Of(j, "cancel"))' = Of(j, "cancel")
    BY <1>2 DEF Of
  <2>5. orders[i].state = "pending_submit" <=> Of(i, "activate") # {}
    BY <1>5 DEF LifecycleInv, LiveOrdersScheduled
  <2> QED  BY <1>4, <1>7, <2>2, <2>3, <2>4, <2>5 DEF LifecycleInv, LiveOrdersScheduled
<1>12. ExposedInPast'
  BY <1>2, <1>4, <1>5, <1>7 DEF LifecycleInv, ExposedInPast, GroupOpen
<1>13. OrderValuesValid'
  BY <1>1, <1>2, <1>4, <1>7 DEF LifecycleInv, OrderValuesValid, TypeOK, Order
<1>14. SlotExclusive'
  BY <1>1, <1>2, <1>4, <1>5, <1>7 DEF LifecycleInv, SlotExclusive, TypeOK, Order
<1> QED  BY <1>8, <1>9, <1>10, <1>11, <1>12, <1>13, <1>14 DEF LifecycleInv

\* A commit of one live order: a fill that leaves a remainder, or the end of
\* the order.  The heap is not told either way.
LEMMA CommitKeepsInv ==
    ASSUME LifecycleInv, NEW i \in Ids, NEW new \in Order,
           Live(orders[i]), CommitOne(i, new),
           new.slot = orders[i].slot, new.effective = orders[i].effective,
           new.original = orders[i].original, new.remaining <= new.original,
           new.cancelRequested = orders[i].cancelRequested,
           new.state = "filled" <=> new.remaining = 0,
           new.state = "partially_filled" => new.remaining < new.original,
           \/ Terminal(new)
           \/ /\ Exposed(orders[i])
              /\ new.state = IF orders[i].state = "pending_cancel" THEN "pending_cancel"
                             ELSE "partially_filled",
           UNCHANGED <<subLatency, canLatency, pending, nextSeq, lastTs, completed>>
    PROVE  LifecycleInv'
<1>1. TypeOK /\ orders \in [Ids -> Order]
  BY DEF LifecycleInv, TypeOK
<1> DEFINE after == [orders EXCEPT ![i] = new]
<1>2. /\ orders' = after /\ occupied' = Released(occupied, orders, after)
      /\ after \in [Ids -> Order]
      /\ after[i] = new /\ \A j \in Ids : j # i => after[j] = orders[j]
  BY <1>1 DEF CommitOne, Commit
<1>3. Ids' = Ids
  BY <1>1, <1>2 DEF Ids
<1> HIDE DEF after
<1>4. SlotExclusive' /\ occupied' \in [Slots -> OrderIds \cup {NoOrder}]
  <2>1. \A j \in Ids : after[j].slot = orders[j].slot
    BY <1>2
  <2>2. \A j \in Ids : Live(after[j]) => Live(orders[j])
    BY <1>2
  <2> QED  BY <1>1, <1>2, <2>1, <2>2, ReleaseKeepsSlots DEF LifecycleInv
<1>5. TypeOK'
  BY <1>1, <1>2, <1>3, <1>4 DEF TypeOK
<1>6. ClocksOrdered' /\ NothingOverdue'
  BY DEF LifecycleInv, ClocksOrdered, NothingOverdue, GroupOpen
<1>7. PendingKnown'
  BY <1>2, <1>3 DEF LifecycleInv, PendingKnown
<1>8. Terminal(new) => ~Live(new) /\ ~Exposed(new)
  BY DEF Terminal, Live, Exposed, TerminalStates, LiveStates, ExposedStates
<1>9. LiveOrdersScheduled'
  <2>1. \A j \in Ids, k \in {"activate", "cancel"} : (Of(j, k))' = Of(j, k)
    BY DEF Of
  <2>2. Exposed(orders[i]) => orders[i].state # "pending_submit"
    BY DEF Exposed, ExposedStates
  <2> QED  BY <1>2, <1>3, <1>8, <2>1, <2>2 DEF LifecycleInv, LiveOrdersScheduled, Exposed, ExposedStates
<1>10. ExposedInPast'
  BY <1>2, <1>3, <1>8 DEF LifecycleInv, ExposedInPast, GroupOpen
<1>11. OrderValuesValid'
  BY <1>2, <1>3 DEF LifecycleInv, OrderValuesValid
<1> QED  BY <1>4, <1>5, <1>6, <1>7, <1>9, <1>10, <1>11 DEF LifecycleInv

LEMMA FillKeepsInv ==
    ASSUME LifecycleInv, NEW i \in Ids, NEW q \in 1 .. MaxQuantity, RecordFill(i, q)
    PROVE  LifecycleInv'
<1> DEFINE new == WithFill(orders[i], q)
<1>1. /\ orders[i] \in Order /\ Exposed(orders[i]) /\ q <= orders[i].remaining
      /\ orders[i].remaining <= orders[i].original
      /\ CommitOne(i, new)
      /\ UNCHANGED <<subLatency, canLatency, pending, nextSeq, lastTs, completed>>
  BY DEF LifecycleInv, TypeOK, OrderValuesValid, RecordFill
<1> DEFINE st == IF orders[i].remaining = q THEN "filled"
                 ELSE IF orders[i].state = "pending_cancel" THEN "pending_cancel"
                 ELSE "partially_filled"
           rest == orders[i].remaining - q
<1>a. rest \in 0 .. MaxQuantity
  BY <1>1, QuantityAssumption DEF Order
<1>b. st \in LiveStates \cup TerminalStates
  BY DEF LiveStates, ExposedStates, TerminalStates
<1>c. new = [orders[i] EXCEPT !.remaining = rest, !.state = st]
  BY <1>1 DEF WithFill, Order
<1>2. /\ new \in Order
      /\ new.slot = orders[i].slot /\ new.effective = orders[i].effective
      /\ new.original = orders[i].original /\ new.remaining = rest
      /\ new.cancelRequested = orders[i].cancelRequested
      /\ new.state = st
  <2> HIDE DEF new, st, rest
  <2> QED  BY <1>1, <1>a, <1>b, <1>c DEF Order
<1>3. Live(orders[i])
  BY <1>1 DEF Live, LiveStates, Exposed
<1>4. /\ new.remaining <= new.original
      /\ new.state = "filled" <=> new.remaining = 0
      /\ new.state = "partially_filled" => new.remaining < new.original
      /\ new.state = "filled" => Terminal(new)
  BY <1>1, <1>2, QuantityAssumption DEF Order, Terminal, TerminalStates
<1> HIDE DEF new
<1> QED  BY <1>1, <1>2, <1>3, <1>4, CommitKeepsInv

LEMMA EndKeepsInv ==
    ASSUME LifecycleInv, NEW i \in Ids, Reject(i) \/ Invalidate(i) \/ Expire(i)
    PROVE  LifecycleInv'
<1>1. PICK how \in {"rejected", "invalidated", "expired"} : CommitOne(i, Ended(orders[i], how))
  BY DEF Reject, Invalidate, Expire
<1> DEFINE new == Ended(orders[i], how)
<1>2. /\ orders[i] \in Order /\ Live(orders[i])
      /\ UNCHANGED <<subLatency, canLatency, pending, nextSeq, lastTs, completed>>
  BY DEF LifecycleInv, TypeOK, Reject, Invalidate, Expire, Live, LiveStates, Exposed
<1>3. /\ new \in Order
      /\ new.slot = orders[i].slot /\ new.effective = orders[i].effective
      /\ new.original = orders[i].original /\ new.remaining = orders[i].remaining
      /\ new.cancelRequested = orders[i].cancelRequested
      /\ new.state = how
  BY <1>2 DEF Ended, Order, TerminalStates
<1>4. orders[i].remaining # 0 /\ orders[i].remaining <= orders[i].original
  BY <1>2 DEF LifecycleInv, OrderValuesValid, Live, LiveStates, ExposedStates
<1>5. Terminal(new)
  BY <1>3 DEF Terminal, TerminalStates
<1>6. new.state # "filled" /\ new.state # "partially_filled"
  BY <1>3
<1> HIDE DEF new
<1>7. CommitOne(i, new)
  BY <1>1 DEF new
<1> QED  BY <1>2, <1>3, <1>4, <1>5, <1>6, <1>7, CommitKeepsInv

\* Every step of the state machine, and any step that leaves it alone.
LEMMA StepKeepsInv ==
    ASSUME LifecycleInv, [Next]_vars
    PROVE  LifecycleInv'
<1>1. CASE Next
  BY <1>1, ClockStepsKeepInv, SubmitKeepsInv, RequestCancelKeepsInv, FillKeepsInv,
     EndKeepsInv DEF Next
<1>2. CASE UNCHANGED vars
  BY <1>2 DEF vars, LifecycleInv, TypeOK, Ids, ClocksOrdered, PendingKnown,
     LiveOrdersScheduled, Of, NothingOverdue, GroupOpen, ExposedInPast, OrderValuesValid,
     SlotExclusive
<1> QED  BY <1>1, <1>2

\* LifecycleInv is an invariant: the state machine keeps its dictionary of
\* orders, its slots and its heap consistent under every legal call sequence.
THEOREM LifecycleInvariant == Spec => []LifecycleInv
<1> QED  BY LifecycleInit, StepKeepsInv, PTL DEF Spec

\* Every variable keeps its type.
THEOREM TypeCorrect == Spec => []TypeOK
<1>1. LifecycleInv => TypeOK
  BY DEF LifecycleInv
<1> QED  BY <1>1, LifecycleInvariant, PTL

\* Slots and live orders stay in one-to-one correspondence: no interleaving of
\* batches, fills, rejections, invalidations and expiries leaves a terminal
\* order in a slot or a live order without one.
THEOREM SlotsExclusive == Spec => []SlotExclusive
<1>1. LifecycleInv => SlotExclusive
  BY DEF LifecycleInv
<1> QED  BY <1>1, LifecycleInvariant, PTL

\* No live order is forgotten by the heap, and no popped action meets a live
\* order in a state that refuses it.
THEOREM OrdersStayScheduled == Spec => []LiveOrdersScheduled
<1>1. LifecycleInv => LiveOrdersScheduled
  BY DEF LifecycleInv
<1> QED  BY <1>1, LifecycleInvariant, PTL

\* Market messages come first at every timestamp, and nothing stays overdue.
THEOREM MarketFirst == Spec => []NothingOverdue
<1>1. LifecycleInv => NothingOverdue
  BY DEF LifecycleInv
<1> QED  BY <1>1, LifecycleInvariant, PTL

\* Only RecordFill lowers a remainder.
LEMMA OnlyFillsReduce ==
    ASSUME LifecycleInv, [Next]_vars, NEW i \in Ids, orders'[i].remaining < orders[i].remaining
    PROVE  \E q \in 1 .. MaxQuantity : RecordFill(i, q)
<1>1. TypeOK /\ orders[i] \in Order /\ ~(orders[i].remaining < orders[i].remaining)
  BY DEF LifecycleInv, TypeOK, Order
<1>2. ASSUME NEW due, due \subseteq pending, NEW passive, Commit(OrdersAfter(due, passive))
      PROVE  FALSE
  <2>1. orders'[i] = AfterDue(i, orders[i], due, passive)
    BY <1>2 DEF Commit, OrdersAfter
  <2>2. orders'[i].remaining = orders[i].remaining
    BY <1>1, <1>2, <2>1, AfterDueKeeps
  <2> QED  BY <1>1, <2>2
<1>3. ASSUME NEW passive \in SUBSET Ids,
             \/ \E t \in Times : BeforeMarketEvent(t, passive)
             \/ AfterMarketTimestamp(passive)
      PROVE  FALSE
  BY <1>2, <1>3 DEF BeforeMarketEvent, AfterMarketTimestamp, DueBefore, DueThrough
<1>4. ASSUME NEW j \in OrderIds, NEW sl \in Slots, NEW p \in Prices,
             NEW q \in 1 .. MaxQuantity, Submit(j, sl, p, q)
      PROVE  FALSE
  BY <1>1, <1>4 DEF Submit
<1>5. ASSUME NEW j \in Ids, RequestCancel(j) \/ Reject(j) \/ Invalidate(j) \/ Expire(j)
      PROVE  FALSE
  <2>1. j \in Ids /\ orders[j] \in Order
    BY <1>1 DEF TypeOK
  <2>2. PICK new : orders' = [orders EXCEPT ![j] = new] /\ new.remaining = orders[j].remaining
    <3>1. WithCancelRequest(orders[j]).remaining = orders[j].remaining
      BY <2>1 DEF WithCancelRequest, Order
    <3>3. CASE RequestCancel(j)
      BY <3>1, <3>3 DEF RequestCancel
    <3>4. CASE Reject(j) \/ Invalidate(j) \/ Expire(j)
      <4>1. PICK how \in {"rejected", "invalidated", "expired"} : CommitOne(j, Ended(orders[j], how))
        BY <3>4 DEF Reject, Invalidate, Expire
      <4>2. orders' = [orders EXCEPT ![j] = Ended(orders[j], how)]
        BY <4>1 DEF CommitOne, Commit
      <4>3. Ended(orders[j], how).remaining = orders[j].remaining
        BY <2>1 DEF Ended, Order
      <4> QED  BY <4>2, <4>3
    <3> QED  BY <1>5, <3>3, <3>4
  <2>3. orders'[i].remaining = orders[i].remaining
    BY <1>1, <2>1, <2>2 DEF TypeOK
  <2> QED  BY <1>1, <2>3
<1>6. ASSUME NEW j \in Ids, NEW q \in 1 .. MaxQuantity, RecordFill(j, q)
      PROVE  \E r \in 1 .. MaxQuantity : RecordFill(i, r)
  <2>1. CASE j = i
    BY <1>6, <2>1
  <2>2. CASE j # i
    BY <1>1, <1>6, <2>2 DEF RecordFill, CommitOne, Commit, TypeOK
  <2> QED  BY <2>1, <2>2
<1>7. ~UNCHANGED vars
  BY <1>1 DEF vars
<1> QED  BY <1>3, <1>4, <1>5, <1>6, <1>7 DEF Next

\* Fills happen strictly after submission took effect and not after
\* cancellation did, for every pair of latencies.
THEOREM LatencyRespected == Spec => FillsRespectLatency
<1> DEFINE A == \A i \in Ids : orders'[i].remaining < orders[i].remaining =>
                    /\ orders[i].effective < lastTs
                    /\ \A a \in Of(i, "cancel") : a.effective >= lastTs
<1>1. ASSUME LifecycleInv, [Next]_vars PROVE [A]_vars
  <2>1. ASSUME NEW i \in Ids, orders'[i].remaining < orders[i].remaining
        PROVE  /\ orders[i].effective < lastTs
               /\ \A a \in Of(i, "cancel") : a.effective >= lastTs
    <3>1. GroupOpen /\ Exposed(orders[i])
      BY <1>1, <2>1, OnlyFillsReduce DEF RecordFill
    <3> QED  BY <1>1, <2>1, <3>1 DEF LifecycleInv, ExposedInPast, NothingOverdue, Of
  <2> QED  BY <2>1
<1> QED  BY <1>1, LifecycleInvariant, PTL DEF Spec, FillsRespectLatency

\* The diagram, for one order and one step.
EdgeOf(i) ==
    /\ i \in Ids'
    /\ orders'[i].state # orders[i].state => orders'[i].state \in Successors(orders[i].state)
    /\ Terminal(orders[i]) => orders'[i] = orders[i]

LEMMA BatchEdge ==
    ASSUME LifecycleInv, NEW due, due \subseteq pending, NEW passive,
           Commit(OrdersAfter(due, passive)), NEW i \in Ids
    PROVE  EdgeOf(i)
<1>1. TypeOK /\ PendingKnown /\ LiveOrdersScheduled /\ orders[i] \in Order
  BY DEF LifecycleInv, TypeOK
<1>2. i \in Ids' /\ orders'[i] = AfterDue(i, orders[i], due, passive)
  BY DEF Commit, OrdersAfter, Ids
<1>3. \A a \in due : a.order = i /\ Live(orders[i]) =>
         /\ a.kind = "activate" => orders[i].state = "pending_submit"
         /\ a.kind = "cancel" => orders[i].state \in {"pending_submit", "pending_cancel"}
  BY <1>1 DEF PendingKnown, LiveOrdersScheduled, Of, Live, LiveStates, ExposedStates
<1>4. \A a \in due : a.kind \in {"activate", "cancel"}
  BY <1>1 DEF TypeOK, ScheduledAction
<1>5. CASE orders'[i] = orders[i]
  BY <1>2, <1>5 DEF EdgeOf
<1>6. CASE orders'[i] # orders[i]
  <2>1. Live(orders[i]) /\ ~Terminal(orders[i])
    BY <1>1, <1>2, <1>6, AfterDueKeeps
       DEF Live, Terminal, LiveStates, ExposedStates, TerminalStates
  <2>2. CASE orders'[i] = Ended(orders[i], "rejected")
    <3>1. orders[i].state = "pending_submit"
      <4>1. Ended(orders[i], "cancelled") # orders'[i] /\ Activated(orders[i]) # orders'[i]
        BY <1>1, <2>2 DEF Ended, Activated, Order
      <4>2. \E a \in due : a.order = i /\ a.kind = "activate"
        BY <1>2, <1>6, <4>1 DEF AfterDue
      <4> QED BY <1>3, <2>1, <4>2
    <3> QED BY <1>1, <1>2, <2>1, <2>2, <3>1 DEF EdgeOf, Ended, Order, Successors
  <2>3. CASE orders'[i] = Ended(orders[i], "cancelled")
    <3>1. orders[i].state \in {"pending_submit", "pending_cancel"}
      BY <1>2, <1>3, <1>4, <1>6, <2>1 DEF AfterDue
    <3> QED BY <1>1, <1>2, <2>1, <2>3, <3>1 DEF EdgeOf, Ended, Order, Successors
  <2>4. CASE orders'[i] = Activated(orders[i]) /\ \E a \in due : a.order = i /\ a.kind = "activate"
    <3>1. orders[i].state = "pending_submit"
      BY <1>3, <2>1, <2>4
    <3> QED BY <1>1, <1>2, <2>1, <2>4, <3>1 DEF EdgeOf, Activated, Order, Successors
  <2>5. \/ orders'[i] \in {Ended(orders[i], "rejected"), Ended(orders[i], "cancelled")}
        \/ /\ orders'[i] = Activated(orders[i])
           /\ \E a \in due : a.order = i /\ a.kind = "activate"
    BY <1>2, <1>4, <1>6 DEF AfterDue
  <2> QED BY <2>2, <2>3, <2>4, <2>5
<1> QED BY <1>5, <1>6

LEMMA CommitOneEdge ==
    ASSUME LifecycleInv, NEW j \in Ids, NEW new, CommitOne(j, new), ~Terminal(orders[j]),
           new.state # orders[j].state => new.state \in Successors(orders[j].state),
           NEW i \in Ids
    PROVE  EdgeOf(i)
<1>1. orders' = [orders EXCEPT ![j] = new] /\ orders \in [Ids -> Order]
  BY DEF CommitOne, Commit, LifecycleInv, TypeOK
<1> QED BY <1>1 DEF EdgeOf, Ids

\* An order only moves along the edges of the state diagram and a terminal
\* order is final, even when its late activation or cancellation is popped.
THEOREM LifecycleFollowsDiagram == Spec => LifecycleEdges
<1>1. ASSUME LifecycleInv, [Next]_vars, NEW i \in Ids PROVE EdgeOf(i)
  <2>1. TypeOK /\ LiveOrdersScheduled /\ \A j \in Ids : orders[j] \in Order
    BY <1>1 DEF LifecycleInv, TypeOK
  <2>2. ASSUME NEW passive \in SUBSET Ids,
               \/ \E t \in Times : BeforeMarketEvent(t, passive)
               \/ AfterMarketTimestamp(passive)
        PROVE  EdgeOf(i)
    BY <1>1, <2>2, BatchEdge DEF BeforeMarketEvent, AfterMarketTimestamp, DueBefore, DueThrough
  <2>3. ASSUME NEW j \in OrderIds, NEW s \in Slots, NEW p \in Prices, NEW q \in 1 .. MaxQuantity,
               Submit(j, s, p, q)
        PROVE  EdgeOf(i)
    BY <1>1, <2>3 DEF Submit, EdgeOf, Ids
  <2>4. ASSUME NEW j \in Ids, RequestCancel(j) PROVE EdgeOf(i)
    <3>1. orders' = [orders EXCEPT ![j] = WithCancelRequest(orders[j])]
      BY <2>4 DEF RequestCancel
    <3>2. orders[j] \in Order /\ orders[j].state \in {"pending_submit", "active", "partially_filled"}
      BY <2>1, <2>4 DEF RequestCancel
    <3>3. CASE i = j
      BY <1>1, <2>1, <3>1, <3>2, <3>3
         DEF EdgeOf, Ids, TypeOK, WithCancelRequest, Order, Terminal, TerminalStates, Successors
    <3>4. CASE i # j
      BY <1>1, <2>1, <3>1, <3>4 DEF EdgeOf, Ids, TypeOK
    <3> QED BY <3>3, <3>4
  <2>5. ASSUME NEW j \in Ids, NEW q \in 1 .. MaxQuantity, RecordFill(j, q) PROVE EdgeOf(i)
    <3>1. CommitOne(j, WithFill(orders[j], q)) /\ Exposed(orders[j])
      BY <2>5 DEF RecordFill
    <3>2. ~Terminal(orders[j])
      BY <2>1, <3>1 DEF Exposed, ExposedStates, Terminal, TerminalStates
    <3>3. WithFill(orders[j], q).state # orders[j].state =>
             WithFill(orders[j], q).state \in Successors(orders[j].state)
      BY <2>1, <3>1 DEF WithFill, Order, Exposed, ExposedStates, Successors
    <3> QED BY <1>1, <3>1, <3>2, <3>3, CommitOneEdge
  <2>6. ASSUME NEW j \in Ids, Reject(j) \/ Invalidate(j) \/ Expire(j) PROVE EdgeOf(i)
    <3>1. PICK how : /\ CommitOne(j, Ended(orders[j], how))
                     /\ how \in Successors(orders[j].state)
                     /\ ~Terminal(orders[j])
      BY <2>1, <2>6
         DEF Reject, Invalidate, Expire, Successors, Exposed, ExposedStates, Live, LiveStates,
             Terminal, TerminalStates
    <3>2. Ended(orders[j], how).state = how
      BY <2>1 DEF Ended, Order
    <3> QED BY <1>1, <3>1, <3>2, CommitOneEdge
  <2>7. CASE UNCHANGED vars
    BY <1>1, <2>7 DEF vars, EdgeOf, Ids
  <2> QED BY <1>1, <2>2, <2>3, <2>4, <2>5, <2>6, <2>7 DEF Next
<1>2. ASSUME LifecycleInv, [Next]_vars
      PROVE  [\A i \in Ids : /\ i \in Ids'
                             /\ orders'[i].state # orders[i].state =>
                                   orders'[i].state \in Successors(orders[i].state)
                             /\ Terminal(orders[i]) => orders'[i] = orders[i]]_vars
  BY <1>1, <1>2 DEF EdgeOf
<1> QED  BY <1>2, LifecycleInvariant, PTL DEF Spec, LifecycleEdges

(***************************************************************************)
(*                             SimulationRun                               *)
(***************************************************************************)

-----------------------------------------------------------------------------
(* Arithmetic of signed quantities.                                        *)

LEMMA SignedProduct ==
    ASSUME NEW side \in {-1, 1}, NEW n \in Int
    PROVE  /\ side * n \in Int
           /\ side = 1 => side * n = n
           /\ side = -1 => side * n = -n
  OBVIOUS

\* A fill moves towards the bound its own order already respected.
LEMMA OwnFillWithin ==
    ASSUME NEW p \in Int, NEW side \in {-1, 1}, NEW r \in Nat, NEW q \in 0 .. r,
           WithinLimit(p), WithinLimit(p + side * r)
    PROVE  WithinLimit(p + side * q)
<1>1. side * r \in Int /\ side * q \in Int
  BY SignedProduct
<1> QED  BY <1>1, SimulationAssumption, SignedProduct DEF WithinLimit

\* The fill of one side leaves the exposure of the other side bounded.
LEMMA OtherFillWithin ==
    ASSUME NEW p \in Int, NEW a \in {-1, 1}, NEW b \in {-1, 1}, a # b,
           NEW r \in Nat, NEW q \in 0 .. r, NEW m \in Nat,
           WithinLimit(p), WithinLimit(p + a * r), WithinLimit(p + b * m)
    PROVE  WithinLimit((p + a * q) + b * m)
<1>1. CASE a = 1
  BY <1>1, SimulationAssumption DEF WithinLimit
<1>2. CASE a = -1
  BY <1>2, SimulationAssumption DEF WithinLimit
<1> QED  BY <1>1, <1>2

-----------------------------------------------------------------------------
(* Calls that fill nothing.                                                *)

\* The remainders stay and no order comes back to life.
Quiet ==
    /\ Ids' = Ids
    /\ \A i \in Ids : /\ orders'[i].slot = orders[i].slot
                      /\ orders'[i].remaining = orders[i].remaining
                      /\ Live(orders'[i]) => Live(orders[i])

LEMMA UnchangedIsQuiet == ASSUME UNCHANGED vars PROVE Quiet
  BY DEF vars, Quiet, Ids

LEMMA BatchIsQuiet ==
    ASSUME TypeOK, NEW due, due \subseteq pending, NEW passive, Commit(OrdersAfter(due, passive))
    PROVE  Quiet
<1>1. orders' = [i \in Ids |-> AfterDue(i, orders[i], due, passive)]
  BY DEF Commit, OrdersAfter
<1>2. Ids' = Ids
  BY <1>1 DEF Ids
<1>3. ASSUME NEW i \in Ids
      PROVE  /\ orders'[i].slot = orders[i].slot
             /\ orders'[i].remaining = orders[i].remaining
             /\ Live(orders'[i]) => Live(orders[i])
  <2>1. orders'[i] = AfterDue(i, orders[i], due, passive)
    BY <1>1, <1>3
  <2>2. /\ orders'[i] # orders[i] => Live(orders[i])
        /\ orders'[i].slot = orders[i].slot
        /\ orders'[i].remaining = orders[i].remaining
    BY <2>1, <1>3, AfterDueKeeps
  <2> QED  BY <2>2
<1> QED  BY <1>2, <1>3 DEF Quiet

LEMMA ClockIsQuiet ==
    ASSUME TypeOK,
           \/ \E t \in Times, passive \in SUBSET Ids : BeforeMarketEvent(t, passive)
           \/ \E passive \in SUBSET Ids : AfterMarketTimestamp(passive)
    PROVE  Quiet
<1>1. CASE \E t \in Times, passive \in SUBSET Ids : BeforeMarketEvent(t, passive)
  BY <1>1, BatchIsQuiet DEF BeforeMarketEvent, DueBefore
<1>2. CASE \E passive \in SUBSET Ids : AfterMarketTimestamp(passive)
  BY <1>2, BatchIsQuiet DEF AfterMarketTimestamp, DueThrough
<1> QED  BY <1>1, <1>2

LEMMA OrderCallIsQuiet ==
    ASSUME TypeOK, NEW i \in Ids, RequestCancel(i) \/ Invalidate(i) \/ Expire(i)
    PROVE  Quiet
<1>1. /\ orders \in [Ids -> Order] /\ orders[i] \in Order
      /\ Live(orders[i])
  BY DEF TypeOK, RequestCancel, Invalidate, Expire, Live, LiveStates, Exposed, ExposedStates
<1>2. PICK new \in {WithCancelRequest(orders[i]), Ended(orders[i], "invalidated"),
                    Ended(orders[i], "expired")} :
          orders' = [orders EXCEPT ![i] = new]
  BY DEF RequestCancel, Invalidate, Expire, CommitOne, Commit
<1>3. new.slot = orders[i].slot /\ new.remaining = orders[i].remaining
  BY <1>1, <1>2 DEF WithCancelRequest, Ended, Order
<1> QED  BY <1>1, <1>2, <1>3 DEF Quiet, Ids

\* Quiet calls change no certain position and no exposure.
LEMMA QuietKeepsExposure ==
    ASSUME SimInv, Quiet, UNCHANGED <<position, owedOrder, owedQuantity>>
    PROVE  PositionsWithin' /\ ExposureBounded'
<1>1. ASSUME NEW i \in Ids
      PROVE  /\ orders'[i].slot = orders[i].slot
             /\ orders'[i].remaining = orders[i].remaining
             /\ Live(orders'[i]) => Live(orders[i])
             /\ SymbolOf(i)' = SymbolOf(i) /\ SideOf(i)' = SideOf(i)
  BY <1>1 DEF Quiet, SymbolOf, SideOf
<1>2. owedOrder # NoOrder => owedOrder \in Ids
  BY DEF SimInv, OwedKnown
<1>3. ASSUME NEW s
      PROVE  CertainPosition(s)' = CertainPosition(s)
  <2>1. CASE owedOrder = NoOrder
    BY <2>1 DEF CertainPosition
  <2>2. CASE owedOrder # NoOrder
    BY <1>1, <1>2, <2>2 DEF CertainPosition
  <2> QED  BY <2>1, <2>2
<1>4. PositionsWithin'
  BY <1>3 DEF SimInv, PositionsWithin, WithinLimit
<1>5. ASSUME NEW i \in Ids', Live(orders'[i])
      PROVE  WithinLimit(CertainPosition(SymbolOf(i)) + SideOf(i) * orders[i].remaining)'
  <2>1. i \in Ids /\ Live(orders[i])
    BY <1>1, <1>5 DEF Quiet
  <2>2. CertainPosition(SymbolOf(i))' = CertainPosition(SymbolOf(i))
    BY <1>1, <1>3, <2>1 
  <2> QED  BY <1>1, <2>1, <2>2 DEF SimInv, ExposureBounded, WithinLimit
<1> QED  BY <1>4, <1>5 DEF ExposureBounded

-----------------------------------------------------------------------------
(* Every step is a legal call of the state machine or none.                *)

LEMMA StepIsLifecycle ==
    ASSUME LifecycleInv, SimTypeOK, ScopeKnown, SimNext
    PROVE  [Next]_vars
<1> USE DEF Proceed, Fail
<1>1. CASE \E s \in Symbols \cup {Foreign}, t \in Times, passive \in SUBSET Inactive,
                  quoted \in BOOLEAN : StartEvent(s, t, passive, quoted)
  BY <1>1 DEF StartEvent, Inactive, Next
<1>2. CASE \E i \in Ids, q \in 1 .. MaxQuantity : QueueFill(i, q)
  BY <1>2 DEF QueueFill, Next
<1>3. CASE \E i \in Ids : QueueInvalidate(i)
  BY <1>3 DEF QueueInvalidate, Next
<1>4. CASE NoFill \/ Account \/ Decide \/ StayInGroup \/ StartSettlement \/ CommitSettlement
  BY <1>4 DEF NoFill, Account, Decide, StayInGroup, StartSettlement, CommitSettlement
<1>5. CASE RefreshQuotes
  <2>1. PICK desired \in Prices \cup {NoOrder} :
            \/ RefreshSide("bid", 1, "ask", desired)
            \/ RefreshSide("ask", -1, "close", desired)
    BY <1>5 DEF RefreshQuotes
  <2>2. ASSUME NEW stage \in {"bid", "ask"}, NEW side \in {-1, 1}, NEW following,
               RefreshSide(stage, side, following, desired)
        PROVE  [Next]_vars
    <3> DEFINE current == occupied[<<symbol, side>>]
               id == CHOOSE i \in FreshIds : TRUE
    <3>1. <<symbol, side>> \in Slots
      BY <2>2, SimulationAssumption DEF SimTypeOK, ScopeKnown, RefreshSide
    <3>2. \/ UNCHANGED vars
          \/ current # NoOrder /\ RequestCancel(current)
          \/ desired # NoOrder /\ desired \in Desired(side)
             /\ Submit(id, <<symbol, side>>, desired, OrderQuantity)
      BY <2>2 DEF RefreshSide
    <3>3. CASE current # NoOrder /\ RequestCancel(current)
      <4>1. current \in Ids
        BY <3>1, <3>3 DEF LifecycleInv, SlotExclusive
      <4> QED  BY <3>3, <4>1 DEF Next
    <3>4. CASE desired # NoOrder /\ desired \in Desired(side)
             /\ Submit(id, <<symbol, side>>, desired, OrderQuantity)
      <4>1. FreshIds # {} /\ desired \in Prices
        BY <3>4 DEF Desired
      <4>2. id \in OrderIds
        BY <4>1 DEF FreshIds
      <4> QED  BY <3>1, <3>4, <4>1, <4>2, SimulationAssumption DEF Next
    <3> QED  BY <3>2, <3>3, <3>4
  <2> QED  BY <2>1, <2>2
<1>6. CASE \E passive \in SUBSET Inactive : CompleteMarketTimestamp(passive)
  BY <1>6 DEF CompleteMarketTimestamp, Inactive, Next
<1>7. CASE \E i \in Ids : ExpireOpen(i)
  BY <1>7 DEF ExpireOpen, Next
<1>8. CASE RowRefused \/ QuoteRefused \/ SumOverflows \/ StrategyFails
  BY <1>8 DEF RowRefused, QuoteRefused, SumOverflows, StrategyFails
<1> QED  BY <1>1, <1>2, <1>3, <1>4, <1>5, <1>6, <1>7, <1>8 DEF SimNext

\* The loop's calls form a legal history of the state machine.
LEMMA LifecycleKept ==
    ASSUME LifecycleInv, SimTypeOK, ScopeKnown, [SimNext]_runVars
    PROVE  LifecycleInv'
<1>1. [Next]_vars
  BY StepIsLifecycle DEF runVars
<1> QED  BY <1>1, StepKeepsInv

-----------------------------------------------------------------------------
(* The loop keeps its own invariant, one lemma per kind of step.           *)

\* A fill is only owed between the queue's call and the ledger's, or when the
\* day stopped there.
LEMMA NothingOwed ==
    ASSUME SimInv, at \notin {"cross", "failed"}
    PROVE  /\ owedOrder = NoOrder
           /\ \A s \in Symbols : CertainPosition(s) = position[s]
<1>1. owedOrder = NoOrder
  BY DEF SimInv, OwedKnown
<1>2. SimTypeOK
  BY DEF SimInv
<1> QED  BY <1>1, <1>2 DEF CertainPosition, SimTypeOK

LEMMA StartEventKeeps ==
    ASSUME LifecycleInv, SimInv, NEW s \in Symbols \cup {Foreign}, NEW t \in Times,
           NEW passive \in SUBSET Ids, NEW quoted \in BOOLEAN, StartEvent(s, t, passive, quoted)
    PROVE  SimInv'
<1>1. Quiet
  BY ClockIsQuiet DEF LifecycleInv, StartEvent
<1>2. PositionsWithin' /\ ExposureBounded'
  BY <1>1, QuietKeepsExposure DEF StartEvent
<1>3. SimTypeOK' /\ PolicyNeverFails' /\ SettledFlat'
  BY SimulationAssumption
  DEF SimInv, StartEvent, SimTypeOK, PolicyNeverFails, SettledFlat, Stages
<1>4. OwedKnown' /\ ScopeKnown'
  BY NothingOwed DEF StartEvent, OwedKnown, ScopeKnown
<1>5. QuotesKnown'
  BY <1>1 DEF SimInv, QuotesKnown, StartEvent, Quiet, SymbolOf
<1> QED  BY <1>2, <1>3, <1>4, <1>5 DEF SimInv

LEMMA FillKeeps ==
    ASSUME LifecycleInv, SimInv, NEW i \in Ids, NEW q \in 1 .. MaxQuantity, QueueFill(i, q)
    PROVE  SimInv'
<1> DEFINE new == WithFill(orders[i], q)
<1>1. /\ at = "fill" /\ at' = "cross" /\ SymbolOf(i) = symbol /\ Exposed(orders[i])
      /\ q <= orders[i].remaining
      /\ orders' = [orders EXCEPT ![i] = new]
      /\ owedOrder' = i /\ owedQuantity' = q
      /\ UNCHANGED <<symbol, marked, position, hasQuote, nextDecision, events, failure>>
  BY DEF QueueFill, RecordFill, CommitOne, Commit
<1>2. /\ orders \in [Ids -> Order] /\ Ids' = Ids /\ SimTypeOK
      /\ \A j \in Ids : SideOf(j) \in {-1, 1} /\ SymbolOf(j) \in Symbols
                       /\ orders[j].slot = <<SymbolOf(j), SideOf(j)>>
                       /\ orders[j].remaining \in Nat
  BY <1>1, SimulationAssumption DEF LifecycleInv, TypeOK, SimInv, Ids, Order, SymbolOf, SideOf
<1>3. /\ Live(orders[i])
      /\ new.slot = orders[i].slot /\ new.remaining = orders[i].remaining - q
  BY <1>1, <1>2 DEF WithFill, Order, Live, LiveStates, Exposed
<1> HIDE DEF new
<1>4. \A j \in Ids : /\ SymbolOf(j)' = SymbolOf(j) /\ SideOf(j)' = SideOf(j)
                     /\ j # i => orders'[j] = orders[j]
  BY <1>1, <1>2, <1>3 DEF SymbolOf, SideOf
<1>5. /\ \A s \in Symbols : CertainPosition(s) = position[s]
      /\ owedOrder = NoOrder
      /\ q \in 0 .. orders[i].remaining
  BY <1>1, <1>2, NothingOwed, QuantityAssumption
<1>6. ASSUME NEW s \in Symbols
      PROVE  CertainPosition(s)' =
                 IF s = symbol THEN position[s] + SideOf(i) * q ELSE position[s]
  <2>1. i # NoOrder
    BY OrderAssumption DEF LifecycleInv, TypeOK
  <2>2. position[s] \in Int
    BY <1>2 DEF SimTypeOK
  <2> QED  BY <1>1, <1>2, <1>4, <2>1, <2>2 DEF CertainPosition
<1>7. /\ position[symbol] \in Int
      /\ WithinLimit(position[symbol])
      /\ WithinLimit(position[symbol] + SideOf(i) * orders[i].remaining)
  BY <1>1, <1>2, <1>3, <1>5 DEF SimInv, SimTypeOK, PositionsWithin, ExposureBounded
<1>8. PositionsWithin'
  <2>1. WithinLimit(position[symbol] + SideOf(i) * q)
    BY <1>2, <1>5, <1>7, OwnFillWithin
  <2>2. ASSUME NEW s \in Symbols PROVE WithinLimit(CertainPosition(s)')
    BY <1>5, <1>6, <2>1 DEF SimInv, PositionsWithin
  <2> QED  BY <2>2 DEF PositionsWithin, WithinLimit
<1>9. ASSUME NEW j \in Ids, NEW s \in Symbols, SymbolOf(j) = s, Live(orders'[j])
      PROVE  WithinLimit(CertainPosition(s)' + SideOf(j) * orders'[j].remaining)
  <2>1. CASE j = i
    <3>1. orders'[j].remaining = orders[i].remaining - q
      BY <1>1, <1>2, <1>3, <2>1
    <3>2. SideOf(i) * q \in Int /\ SideOf(i) * (orders[i].remaining - q) \in Int
          /\ SideOf(i) * orders[i].remaining
                 = SideOf(i) * q + SideOf(i) * (orders[i].remaining - q)
      BY <1>1, <1>2, SignedProduct
    <3>3. (position[symbol] + SideOf(i) * q) + SideOf(i) * (orders[i].remaining - q)
             = position[symbol] + SideOf(i) * orders[i].remaining
      BY <1>7, <3>2
    <3> QED  BY <1>1, <1>6, <1>7, <1>9, <2>1, <3>1, <3>3
  <2>2. CASE j # i /\ s = symbol
    <3>1. Live(orders[j]) /\ orders'[j] = orders[j]
      BY <1>4, <1>9, <2>2
    <3>2. SideOf(j) # SideOf(i)
      BY <1>1, <1>2, <1>3, <1>9, <2>2, <3>1 DEF LifecycleInv, SlotExclusive
    <3>3. WithinLimit(position[symbol] + SideOf(j) * orders[j].remaining)
      BY <1>5, <1>9, <2>2, <3>1 DEF SimInv, ExposureBounded
    <3>4. WithinLimit((position[symbol] + SideOf(i) * q) + SideOf(j) * orders[j].remaining)
      BY <1>2, <1>5, <1>7, <3>2, <3>3, OtherFillWithin
    <3> QED  BY <1>6, <2>2, <3>1, <3>4
  <2>3. CASE j # i /\ s # symbol
    <3>1. Live(orders[j]) /\ orders'[j] = orders[j]
      BY <1>4, <1>9, <2>3
    <3>2. CertainPosition(s)' = CertainPosition(s)
      BY <1>5, <1>6, <2>3
    <3> QED  BY <1>9, <3>1, <3>2 DEF SimInv, ExposureBounded
  <2> QED  BY <2>1, <2>2, <2>3
<1>10. ExposureBounded'
  BY <1>2, <1>4, <1>9 DEF ExposureBounded, WithinLimit
<1>11. SimTypeOK' /\ OwedKnown' /\ ScopeKnown' /\ PolicyNeverFails' /\ SettledFlat'
  BY <1>1, <1>2, <1>4, OrderAssumption
  DEF LifecycleInv, TypeOK, SimInv, SimTypeOK, Stages, OwedKnown, ScopeKnown, PolicyNeverFails, SettledFlat
<1>12. QuotesKnown'
  BY <1>1, <1>2, <1>4 DEF SimInv, QuotesKnown
<1> QED  BY <1>8, <1>10, <1>11, <1>12 DEF SimInv

\* Calls of the queue, the strategy, the clock and the settlement that fill
\* nothing and leave the ledger alone.
LEMMA QuietCallKeeps ==
    ASSUME LifecycleInv, SimInv, Quiet,
           UNCHANGED <<symbol, marked, position, hasQuote, owedOrder, owedQuantity, events, failure>>,
           nextDecision' \in [Symbols -> Nat],
           at' \in Stages \ {"settled", "decide"},
           owedOrder = NoOrder \/ at' = at,
           at' \in {"bid", "ask"} => symbol \in hasQuote,
           at' = "cross" \/ at \notin {"fill", "cross", "failed"}
    PROVE  SimInv'
<1>1. PositionsWithin' /\ ExposureBounded'
  BY QuietKeepsExposure
<1>2. SimTypeOK' /\ PolicyNeverFails' /\ SettledFlat'
  BY DEF SimInv, SimTypeOK, PolicyNeverFails, SettledFlat
<1>3. OwedKnown' /\ ScopeKnown'
  BY DEF SimInv, OwedKnown, ScopeKnown, Quiet, SymbolOf
<1>4. QuotesKnown'
  BY DEF SimInv, QuotesKnown, Quiet, SymbolOf
<1> QED  BY <1>1, <1>2, <1>3, <1>4 DEF SimInv

\* The ledger turns the owed fill into position: nothing certain changes, and
\* the checks for a mark and for the limit never fail.
LEMMA AccountKeeps ==
    ASSUME LifecycleInv, SimInv, Account
    PROVE  SimInv'
<1>1. /\ orders' = orders /\ lastTs' = lastTs /\ symbol' = symbol
      /\ UNCHANGED <<nextDecision, events>>
      /\ symbol \in Symbols
  BY DEF Account, Fail, vars
<1>2. /\ SimTypeOK /\ Ids' = Ids
      /\ \A j \in Ids : SideOf(j) \in {-1, 1} /\ SymbolOf(j) \in Symbols
  BY <1>1, SimulationAssumption
  DEF LifecycleInv, TypeOK, SimInv, Ids, Order, SymbolOf, SideOf
<1>3. \A j \in Ids : SymbolOf(j)' = SymbolOf(j) /\ SideOf(j)' = SideOf(j)
  BY <1>1 DEF SymbolOf, SideOf
<1>4. CASE owedOrder = NoOrder
  <2>1. /\ at' = "decide" /\ hasQuote' = QuotesAfterEvent
        /\ UNCHANGED <<marked, position, owedOrder, owedQuantity, failure>>
    BY <1>4 DEF Account
  <2>2. Quiet
    BY <1>1 DEF Quiet, Ids
  <2>3. PositionsWithin' /\ ExposureBounded'
    BY <2>1, <2>2, QuietKeepsExposure
  <2>4. QuotesKnown'
    BY <1>1, <1>2, <1>3, <2>1 DEF SimInv, QuotesKnown, QuotesAfterEvent, InSession
  <2> QED
    BY <1>1, <1>2, <1>4, <2>1, <2>3, <2>4, SimulationAssumption
    DEF SimInv, SimTypeOK, Stages, OwedKnown, ScopeKnown, PolicyNeverFails, SettledFlat,
        QuotesAfterEvent
<1>5. CASE owedOrder # NoOrder
  <2>1. /\ owedOrder \in Ids /\ SymbolOf(owedOrder) = symbol /\ symbol \in Symbols
        /\ symbol \in hasQuote
    BY <1>2, <1>5 DEF SimInv, OwedKnown, QuotesKnown
  <2>2. PositionAfterFill = CertainPosition(symbol) /\ PositionAfterFill \in Int
    BY <1>2, <1>5, <2>1, SignedProduct DEF PositionAfterFill, CertainPosition, SimTypeOK
  <2>3. WithinLimit(PositionAfterFill)
    BY <2>1, <2>2 DEF SimInv, PositionsWithin
  <2>4. /\ position' = [position EXCEPT ![symbol] = PositionAfterFill]
        /\ at' = "decide" /\ hasQuote' = QuotesAfterEvent /\ marked' = TRUE
        /\ owedOrder' = NoOrder /\ owedQuantity' = 0 /\ failure' = failure
    BY <1>5, <2>1, <2>3 DEF Account
  <2>5. ASSUME NEW s \in Symbols
        PROVE  CertainPosition(s)' = CertainPosition(s)
    <3>1. position'[s] \in Int /\ CertainPosition(s)' = position'[s]
      BY <1>2, <2>2, <2>4 DEF CertainPosition, SimTypeOK
    <3>2. CASE s = symbol
      BY <1>2, <2>1, <2>2, <2>4, <3>1, <3>2 DEF SimTypeOK
    <3>3. CASE s # symbol
      BY <1>2, <1>5, <2>1, <2>4, <3>1, <3>3 DEF SimTypeOK, CertainPosition
    <3> QED  BY <3>2, <3>3
  <2>6. PositionsWithin'
    BY <2>5 DEF SimInv, PositionsWithin, WithinLimit
  <2>7. ASSUME NEW j \in Ids, NEW s \in Symbols, SymbolOf(j) = s, Live(orders[j])
        PROVE  WithinLimit(CertainPosition(s)' + SideOf(j) * orders[j].remaining)
    BY <2>5, <2>7 DEF SimInv, ExposureBounded
  <2>8. ExposureBounded'
    BY <1>1, <1>2, <1>3, <2>7 DEF ExposureBounded, WithinLimit
  <2>9. QuotesKnown'
    BY <1>1, <1>2, <1>3, <2>1, <2>4
    DEF SimInv, QuotesKnown, QuotesAfterEvent, InSession, SimTypeOK
  <2> QED
    BY <1>1, <1>2, <2>1, <2>2, <2>4, <2>6, <2>8, <2>9, SimulationAssumption
    DEF SimInv, SimTypeOK, Stages, OwedKnown, ScopeKnown, PolicyNeverFails, SettledFlat,
        QuotesAfterEvent
<1> QED  BY <1>4, <1>5

\* A decision starts from a bounded position and an observed quote.
LEMMA DecideKeeps ==
    ASSUME LifecycleInv, SimInv, Decide
    PROVE  SimInv'
<1>1. /\ at = "decide" /\ UNCHANGED vars
      /\ UNCHANGED <<symbol, marked, position, hasQuote, owedOrder, owedQuantity, events>>
  BY DEF Decide, Fail
<1>2. owedOrder = NoOrder /\ SimTypeOK /\ Quiet
  BY <1>1, NothingOwed, UnchangedIsQuiet DEF SimInv
<1>3. symbol \in Symbols /\ WithinLimit(position[symbol])
  BY <1>1, <1>2, NothingOwed DEF SimInv, ScopeKnown, PositionsWithin, SimTypeOK
<1>4. CASE ~DecisionDue
  BY <1>1, <1>2, <1>3, <1>4, QuietCallKeeps DEF Decide, SimTypeOK, Stages
<1>5. CASE DecisionDue
  <2>1. symbol \in hasQuote
    BY <1>1, <1>5 DEF SimInv, QuotesKnown, DecisionDue
  <2>2. /\ at' = "bid" /\ failure' = failure
        /\ nextDecision' = [nextDecision EXCEPT ![symbol] = NextOnGrid]
    BY <1>3, <1>5, <2>1 DEF Decide
  <2>3. NextOnGrid \in Nat
    BY <1>5, SimulationAssumption DEF DecisionDue, InSession, NextOnGrid, LifecycleInv, TypeOK, Times
  <2>4. nextDecision' \in [Symbols -> Nat]
    BY <1>2, <2>2, <2>3 DEF SimTypeOK
  <2> QED  BY <1>1, <1>2, <2>1, <2>2, <2>4, QuietCallKeeps DEF Stages
<1> QED  BY <1>4, <1>5

\* An error that is not one of the policy leaves everything where it is.
LEMMA FailureKeeps ==
    ASSUME LifecycleInv, SimInv, NEW reason \in Refusals \cup {"timestamp"}, Fail(reason)
    PROVE  SimInv'
<1>1. UNCHANGED <<vars, symbol, marked, position, hasQuote, owedOrder, owedQuantity,
                  nextDecision, events>> /\ at' = "failed" /\ failure' = reason
  BY DEF Fail
<1>2. Quiet
  BY <1>1, UnchangedIsQuiet
<1>3. PositionsWithin' /\ ExposureBounded'
  BY <1>1, <1>2, QuietKeepsExposure
<1>4. SimTypeOK' /\ ScopeKnown' /\ PolicyNeverFails' /\ SettledFlat'
  BY <1>1
  DEF SimInv, SimTypeOK, Stages, Reasons, Refusals, ScopeKnown, PolicyNeverFails, SettledFlat
<1>5. OwedKnown' /\ QuotesKnown'
  BY <1>1, <1>2 DEF SimInv, OwedKnown, QuotesKnown, Quiet, SymbolOf
<1> QED  BY <1>3, <1>4, <1>5 DEF SimInv

\* A new quote enters with its complete fill inside the limit.
LEMMA SubmitKeepsExposure ==
    ASSUME LifecycleInv, SimInv, at \in {"bid", "ask"}, NEW id \in OrderIds,
           NEW side \in {-1, 1}, NEW price \in Prices, NEW stage \in {"ask", "close"},
           Permitted(side), Submit(id, <<symbol, side>>, price, OrderQuantity), Proceed(stage)
    PROVE  SimInv'
<1> DEFINE new == NewOrder(<<symbol, side>>, price, OrderQuantity,
                           EffectiveTimestamp(lastTs, subLatency))
<1>1. /\ id \notin Ids
      /\ orders' = [j \in Ids \cup {id} |-> IF j = id THEN new ELSE orders[j]]
      /\ lastTs' = lastTs
  BY DEF Submit
<1>2. new.slot = <<symbol, side>> /\ new.remaining = OrderQuantity
  BY DEF NewOrder
<1> HIDE DEF new
<1>3. /\ at' = stage
      /\ UNCHANGED <<symbol, marked, position, hasQuote, owedOrder, owedQuantity,
                     nextDecision, events, failure>>
  BY DEF Proceed
<1>4. /\ Ids' = Ids \cup {id}
      /\ \A j \in Ids : /\ orders'[j] = orders[j]
                        /\ SymbolOf(j)' = SymbolOf(j) /\ SideOf(j)' = SideOf(j)
      /\ orders'[id] = new /\ SymbolOf(id)' = symbol /\ SideOf(id)' = side
  BY <1>1, <1>2 DEF Ids, SymbolOf, SideOf
<1>5. owedOrder = NoOrder /\ SimTypeOK /\ symbol \in Symbols
      /\ \A s \in Symbols : CertainPosition(s) = position[s]
  BY NothingOwed DEF SimInv, SimTypeOK, ScopeKnown
<1>6. ASSUME NEW s \in Symbols
      PROVE  CertainPosition(s)' = position[s]
  BY <1>3, <1>5 DEF CertainPosition, SimTypeOK
<1>7. PositionsWithin'
  BY <1>5, <1>6 DEF SimInv, PositionsWithin, WithinLimit
<1>8. ASSUME NEW j \in Ids, NEW s \in Symbols, SymbolOf(j) = s, Live(orders[j])
      PROVE  WithinLimit(CertainPosition(s)' + SideOf(j) * orders[j].remaining)
  BY <1>5, <1>6, <1>8 DEF SimInv, ExposureBounded
<1>9. WithinLimit(CertainPosition(symbol)' + side * OrderQuantity)
  <2>1. symbol' = symbol /\ symbol \in Symbols
    BY <1>3, <1>5
  <2> QED  BY <1>6, <2>1 DEF Permitted
<1>10. \A j \in Ids : SymbolOf(j) \in Symbols
  BY SimulationAssumption DEF LifecycleInv, TypeOK, Order, SymbolOf
<1>11. ExposureBounded'
  <2>1. ASSUME NEW j \in Ids', Live(orders'[j])
        PROVE  WithinLimit(CertainPosition(SymbolOf(j))' + (SideOf(j) * orders[j].remaining)')
    <3>1. CASE j = id
      BY <1>2, <1>3, <1>4, <1>9, <3>1
    <3>2. CASE j # id
      BY <1>4, <1>8, <1>10, <2>1, <3>2
    <3> QED  BY <3>1, <3>2
  <2> QED  BY <2>1 DEF ExposureBounded, WithinLimit
<1>12. SimTypeOK' /\ OwedKnown' /\ ScopeKnown' /\ PolicyNeverFails' /\ SettledFlat'
  BY <1>3, <1>5 DEF SimInv, SimTypeOK, Stages, OwedKnown, ScopeKnown, PolicyNeverFails, SettledFlat
<1>13. QuotesKnown'
  BY <1>3, <1>4 DEF SimInv, QuotesKnown
<1> QED  BY <1>7, <1>11, <1>12, <1>13 DEF SimInv

LEMMA RefreshKeeps ==
    ASSUME LifecycleInv, SimInv, RefreshQuotes
    PROVE  SimInv'
<1>1. PICK desired \in Prices \cup {NoOrder} :
          \/ RefreshSide("bid", 1, "ask", desired)
          \/ RefreshSide("ask", -1, "close", desired)
  BY DEF RefreshQuotes
<1>2. ASSUME NEW stage \in {"bid", "ask"}, NEW side \in {-1, 1},
             NEW following \in {"ask", "close"}, RefreshSide(stage, side, following, desired)
      PROVE  SimInv'
  <2> DEFINE current == occupied[<<symbol, side>>]
             id == CHOOSE i \in FreshIds : TRUE
  <2>1. at = stage /\ desired \in Desired(side)
    BY <1>2 DEF RefreshSide
  <2>2. owedOrder = NoOrder /\ SimTypeOK /\ symbol \in hasQuote
    BY <2>1, NothingOwed DEF SimInv, QuotesKnown
  <2>3. \/ Fail("timestamp")
        \/ UNCHANGED vars /\ Proceed(following)
        \/ current # NoOrder /\ RequestCancel(current) /\ Proceed(following)
        \/ /\ desired # NoOrder
           /\ Submit(id, <<symbol, side>>, desired, OrderQuantity) /\ Proceed(following)
    BY <1>2 DEF RefreshSide
  <2>4. CASE Fail("timestamp")
    BY <2>4, FailureKeeps
  <2>5. ASSUME Quiet, Proceed(following) PROVE SimInv'
    BY <2>1, <2>2, <2>5, QuietCallKeeps DEF Proceed, SimTypeOK, Stages
  <2>6. CASE UNCHANGED vars /\ Proceed(following)
    BY <2>5, <2>6, UnchangedIsQuiet
  <2>7. CASE current # NoOrder /\ RequestCancel(current) /\ Proceed(following)
    <3>1. <<symbol, side>> \in Slots
      BY <2>2, SimulationAssumption DEF SimTypeOK
    <3>2. TypeOK /\ current \in Ids
      BY <2>7, <3>1 DEF LifecycleInv, SlotExclusive
    <3> QED  BY <2>5, <2>7, <3>2, OrderCallIsQuiet
  <2>8. CASE desired # NoOrder /\ Proceed(following)
             /\ Submit(id, <<symbol, side>>, desired, OrderQuantity)
    <3>1. Permitted(side) /\ FreshIds # {} /\ desired \in Prices
      BY <2>1, <2>8 DEF Desired
    <3>2. id \in OrderIds
      BY <3>1 DEF FreshIds
    <3> QED  BY <2>1, <2>8, <3>1, <3>2, SubmitKeepsExposure
  <2> QED  BY <2>3, <2>4, <2>6, <2>7, <2>8
<1> QED  BY <1>1, <1>2

\* Settlement: terminal quotes are never missing, and what is left is flat.
LEMMA SettlementKeeps ==
    ASSUME LifecycleInv, SimInv,
           StartSettlement \/ (\E i \in Ids : ExpireOpen(i)) \/ CommitSettlement
    PROVE  SimInv'
<1>1. SimTypeOK /\ TypeOK
  BY DEF SimInv, LifecycleInv
<1>2. CASE StartSettlement
  <2>1. at = "event" /\ UNCHANGED vars /\ Proceed("expire")
    BY <1>2 DEF StartSettlement, SimInv, QuotesKnown
  <2>2. owedOrder = NoOrder /\ Quiet
    BY <2>1, NothingOwed, UnchangedIsQuiet
  <2> QED  BY <1>1, <2>1, <2>2, QuietCallKeeps DEF Proceed, SimTypeOK, Stages
<1>3. CASE \E i \in Ids : ExpireOpen(i)
  <2>1. Quiet /\ at = "expire" /\ UNCHANGED simVars
    BY <1>1, <1>3, OrderCallIsQuiet DEF ExpireOpen
  <2> QED  BY <1>1, <2>1, QuietCallKeeps DEF simVars, SimTypeOK, Stages
<1>4. CASE CommitSettlement
  <2>1. /\ at = "expire" /\ OpenOrders = {} /\ at' = "settled"
        /\ position' = [s \in Symbols |-> 0]
        /\ UNCHANGED <<vars, symbol, marked, hasQuote, owedOrder, owedQuantity,
                       nextDecision, events, failure>>
    BY <1>4 DEF CommitSettlement
  <2>2. owedOrder = NoOrder
    BY <2>1, NothingOwed
  <2>3. orders' = orders /\ Ids' = Ids /\ occupied' = occupied
    BY <2>1 DEF vars, Ids
  <2>4. \A i \in Ids : ~Live(orders[i]) /\ Terminal(orders[i])
    BY <1>1, <2>1 DEF OpenOrders, TypeOK, Order, Live, Terminal
  <2>5. \A s \in Slots : occupied[s] = NoOrder
    BY <2>4 DEF LifecycleInv, SlotExclusive
  <2>6. SettledFlat'
    BY <2>1, <2>3, <2>4, <2>5 DEF SettledFlat, Flat
  <2>7. PositionsWithin' /\ ExposureBounded'
    BY <2>1, <2>2, <2>3, <2>4, SimulationAssumption
    DEF PositionsWithin, ExposureBounded, CertainPosition, WithinLimit
  <2>8. SimTypeOK' /\ OwedKnown' /\ ScopeKnown' /\ PolicyNeverFails'
    BY <1>1, <2>1, <2>2 DEF SimInv, SimTypeOK, Stages, OwedKnown, ScopeKnown, PolicyNeverFails
  <2>9. QuotesKnown'
    BY <2>1, <2>3 DEF SimInv, QuotesKnown, SymbolOf
  <2> QED  BY <2>6, <2>7, <2>8, <2>9 DEF SimInv
<1> QED  BY <1>2, <1>3, <1>4

-----------------------------------------------------------------------------
(* The theorems.                                                           *)

LEMMA SimInitHolds == ASSUME SimInit PROVE LifecycleInv /\ SimInv
<1>1. LifecycleInv
  BY LifecycleInit DEF SimInit
<1>2. Ids = {}
  BY DEF SimInit, Init, Ids
<1>3. SimTypeOK
  <2>1. SessionStart + DecisionInterval \in Nat /\ 0 \in 0 .. MaxEvents
    BY SimulationAssumption
  <2>2. position \in [Symbols -> Int] /\ nextDecision \in [Symbols -> Nat]
    BY <2>1 DEF SimInit
  <2> QED  BY <2>1, <2>2 DEF SimInit, SimTypeOK, Stages, Reasons
<1>4. PositionsWithin /\ ExposureBounded
  BY <1>2, SimulationAssumption
  DEF SimInit, PositionsWithin, ExposureBounded, CertainPosition, WithinLimit
<1> QED
  BY <1>1, <1>2, <1>3, <1>4, SimulationAssumption
  DEF SimInit, SimInv, OwedKnown, ScopeKnown, QuotesKnown, PolicyNeverFails, SettledFlat

LEMMA SimStepKeeps ==
    ASSUME LifecycleInv, SimInv, [SimNext]_runVars
    PROVE  LifecycleInv' /\ SimInv'
<1>1. LifecycleInv' /\ SimTypeOK /\ TypeOK /\ ScopeKnown
  BY LifecycleKept DEF SimInv, LifecycleInv
<1>2. CASE \E s \in Symbols \cup {Foreign}, t \in Times, passive \in SUBSET Inactive,
                  quoted \in BOOLEAN : StartEvent(s, t, passive, quoted)
  BY <1>2, StartEventKeeps, <1>1 DEF Inactive
<1>3. CASE \E i \in Ids, q \in 1 .. MaxQuantity : QueueFill(i, q)
  BY <1>3, FillKeeps, <1>1
<1>4. CASE NoFill
  BY <1>1, <1>4, NothingOwed, UnchangedIsQuiet, QuietCallKeeps DEF NoFill, SimTypeOK, Stages
<1>5. CASE \E i \in Ids : QueueInvalidate(i)
  <2>1. Quiet /\ at = "cross" /\ UNCHANGED simVars
    BY <1>1, <1>5, OrderCallIsQuiet DEF QueueInvalidate
  <2> QED  BY <1>1, <2>1, QuietCallKeeps DEF simVars, SimTypeOK, Stages
<1>6. CASE Account \/ Decide \/ RefreshQuotes
  BY <1>1, <1>6, AccountKeeps, DecideKeeps, RefreshKeeps
<1>7. CASE StayInGroup
  BY <1>1, <1>7, NothingOwed, UnchangedIsQuiet, QuietCallKeeps
  DEF StayInGroup, Proceed, SimTypeOK, Stages
<1>8. CASE \E passive \in SUBSET Inactive : CompleteMarketTimestamp(passive)
  <2>1. Quiet /\ at = "close" /\ Proceed("event")
    BY <1>1, <1>8, ClockIsQuiet DEF CompleteMarketTimestamp, Inactive
  <2> QED  BY <1>1, <2>1, NothingOwed, QuietCallKeeps DEF Proceed, SimTypeOK, Stages
<1>9. CASE StartSettlement \/ (\E i \in Ids : ExpireOpen(i)) \/ CommitSettlement
  BY <1>1, <1>9, SettlementKeeps
<1>10. CASE RowRefused \/ QuoteRefused \/ SumOverflows \/ StrategyFails
  <2>1. \E reason \in Refusals : Fail(reason)
    BY <1>10 DEF RowRefused, QuoteRefused, SumOverflows, StrategyFails, Refusals
  <2> QED  BY <1>1, <2>1, FailureKeeps
<1>11. CASE UNCHANGED runVars
  BY <1>1, <1>11
  DEF runVars, vars, simVars, Ids, SimInv, SimTypeOK, OwedKnown, ScopeKnown, QuotesKnown, PositionsWithin,
      ExposureBounded, CertainPosition, SymbolOf, SideOf, PolicyNeverFails, SettledFlat, Flat
<1> QED
  BY <1>2, <1>3, <1>4, <1>5, <1>6, <1>7, <1>8, <1>9, <1>10, <1>11 DEF SimNext

\* The loop keeps both invariants on every day, whatever the queue lets fill
\* and whatever prices the strategy asks for.
THEOREM SimulationInvariant == SimSpec => [](LifecycleInv /\ SimInv)
<1> QED  BY SimInitHolds, SimStepKeeps, PTL DEF SimSpec

\* The detailed loop implements the lifecycle specification: every call it
\* makes is one the state machine accepts, in an order it allows.
THEOREM SimulationImplementsLifecycle == SimSpec => Spec
<1>1. SimInit => Init
  BY DEF SimInit
<1>2. ASSUME LifecycleInv, SimInv, [SimNext]_runVars PROVE [Next]_vars
  BY <1>2, StepIsLifecycle DEF SimInv, runVars
<1> QED  BY <1>1, <1>2, SimulationInvariant, PTL DEF SimSpec, Spec

\* The projected-inventory gate is sound: no interleaving of latencies,
\* partial fills and replaced quotes can take the inventory past its limit.
THEOREM ExposureStaysBounded == SimSpec => []ExposureBounded
<1>1. SimInv => ExposureBounded
  BY DEF SimInv
<1> QED  BY <1>1, SimulationInvariant, PTL

\* No day meets a fill without a mark, a decision or a final position without a
\* quote, or an inventory outside its limit, whatever else may stop it.
THEOREM PolicyErrorsNeverRaised == SimSpec => []PolicyNeverFails
<1>1. SimInv => PolicyNeverFails
  BY DEF SimInv
<1> QED  BY <1>1, SimulationInvariant, PTL

(***************************************************************************)
(*                             VisibleQueue                                *)
(***************************************************************************)

HistoricalOrder(n) == [slot : Slots, price : Prices, remaining : Shares, priority : 1 .. n]

BookOK(book, n) == book \in [DOMAIN book -> HistoricalOrder(n)]

\* The visible orders displayed at an order's level before it joined.
Before(book, o, joined) ==
    {x \in Level(book, o.slot, o.price) : book[x].priority < joined}

ExactQueue(o, queue, book, n) ==
    /\ queue \in [ahead : {queue.ahead}, joined : 1 .. n + 1]
    /\ queue.ahead = [r \in Before(book, o, queue.joined) |-> book[r].remaining]

Exact(os, qs, book, n) ==
    /\ DOMAIN qs = ExposedIds(os)
    /\ \A i \in DOMAIN qs : ExactQueue(os[i], qs[i], book, n)

\* What a stage keeps of every order: its terms, and that it has ended.
Terms(os) ==
    /\ os \in [Ids -> Order]
    /\ \A i \in Ids : /\ os[i].slot = orders[i].slot
                      /\ os[i].price = orders[i].price
                      /\ Live(os[i]) => Live(orders[i])

SameShares(os) == \A i \in Ids : os[i].remaining = orders[i].remaining

(* The inductive invariant: AheadExact needs the bound on "joined", so that *)
(* an order added later is never ahead, and one exposed order per slot, so  *)
(* that an execution that fills one queue shrinks no other.                 *)
QueueInv ==
    /\ TypeOK /\ SlotExclusive
    /\ index \in Nat
    /\ BookOK(visible, index)
    /\ Exact(orders, queues, visible, index)
    /\ NoExposedCross

-----------------------------------------------------------------------------
(* The due actions. *)

LEMMA ActionsKeepTerms ==
    ASSUME TypeOK, NEW due, due \subseteq pending, NEW passive
    PROVE  /\ Terms(OrdersAfter(due, passive)) /\ SameShares(OrdersAfter(due, passive))
           /\ \A i \in Ids : Exposed(OrdersAfter(due, passive)[i]) =>
                                Exposed(orders[i]) \/ i \in passive
<1> DEFINE os == OrdersAfter(due, passive)
<1>1. \A i \in Ids : os[i] = AfterDue(i, orders[i], due, passive)
  BY DEF OrdersAfter
<1>2. ASSUME NEW i \in Ids
      PROVE  /\ os[i] \in Order
             /\ os[i].slot = orders[i].slot
             /\ os[i].remaining = orders[i].remaining
             /\ os[i] # orders[i] => Live(orders[i])
  BY <1>1, <1>2, AfterDueKeeps
<1>3. ASSUME NEW i \in Ids
      PROVE  os[i].price = orders[i].price
  <2>1. os[i] \in {orders[i], Activated(orders[i])} \cup {Ended(orders[i], how) : how \in TerminalStates}
    BY <1>1, <1>3 DEF AfterDue, TerminalStates
  <2> QED BY <2>1 DEF TypeOK, Activated, Ended, Order
<1>4. ASSUME NEW i \in Ids, Exposed(os[i]), ~Exposed(orders[i])
      PROVE  i \in passive
  <2>1. orders[i] \in Order /\ \A a \in due : a.kind \in {"activate", "cancel"}
    BY DEF TypeOK, ScheduledAction
  <2>2. ~Exposed(Ended(orders[i], "rejected")) /\ ~Exposed(Ended(orders[i], "cancelled"))
    BY <2>1 DEF Exposed, Ended, ExposedStates, Order
  <2>3. os[i] # orders[i] /\ os[i] # Ended(orders[i], "rejected") /\ os[i] # Ended(orders[i], "cancelled")
    BY <1>4, <2>2
  <2> QED BY <1>1, <1>4, <2>1, <2>3 DEF AfterDue
<1>5. os \in [Ids -> Order]
  BY <1>2 DEF OrdersAfter
<1>6. \A i \in Ids : Live(os[i]) => Live(orders[i])
  BY <1>2
<1> QED BY <1>2, <1>3, <1>4, <1>5, <1>6 DEF Terms, SameShares

\* An order that is exposed now joins behind the whole level, and the others
\* keep their queue.
LEMMA JoiningIsExact ==
    ASSUME QueueInv, NEW os, Terms(os)
    PROVE  Exact(os, QueuesFor(os, queues), visible, index)
<1> DEFINE qs == QueuesFor(os, queues)
<1>1. DOMAIN qs = ExposedIds(os)
  BY DEF QueuesFor
<1>2. ASSUME NEW i \in ExposedIds(os)
      PROVE  ExactQueue(os[i], qs[i], visible, index)
  <2>1. i \in Ids /\ os[i].slot = orders[i].slot /\ os[i].price = orders[i].price
    BY <1>2 DEF Terms, ExposedIds
  <2>2. CASE i \in DOMAIN queues
    <3>1. qs[i] = queues[i]
      BY <1>2, <2>2 DEF QueuesFor
    <3>2. ExactQueue(orders[i], queues[i], visible, index)
      BY <2>2 DEF QueueInv, Exact
    <3> QED BY <2>1, <3>1, <3>2 DEF ExactQueue, Before
  <2>3. CASE i \notin DOMAIN queues
    <3>1. qs[i] = JoinQueue(os[i])
      BY <1>2, <2>3 DEF QueuesFor
    <3>2. index \in Nat /\ \A r \in DOMAIN visible : visible[r].priority \in 1 .. index
      BY DEF QueueInv, BookOK, HistoricalOrder
    <3>3. Before(visible, os[i], index + 1) = Level(visible, os[i].slot, os[i].price)
      BY <3>2 DEF Before, Level
    <3>4. index + 1 \in 1 .. index + 1
      BY <3>2
    <3> QED BY <3>1, <3>3, <3>4 DEF ExactQueue, JoinQueue
  <2> QED BY <2>2, <2>3
<1> QED BY <1>1, <1>2 DEF Exact

\* At most one exposed order in a slot, also inside a message.
LEMMA OneExposedPerSlot ==
    ASSUME QueueInv, NEW os, Terms(os), NEW i \in ExposedIds(os), NEW j \in ExposedIds(os),
           os[i].slot = os[j].slot
    PROVE  i = j
<1>1. i \in Ids /\ j \in Ids /\ Live(orders[i]) /\ Live(orders[j])
  BY DEF ExposedIds, Terms, Exposed, Live, LiveStates
<1> QED BY <1>1 DEF QueueInv, SlotExclusive, Terms

-----------------------------------------------------------------------------
(* The effect of a message on the book and the queues. *)

\* An order added now has the newest priority, so it is ahead of nobody.
LEMMA AddedIsBehind ==
    ASSUME NEW n \in Nat, NEW os, NEW qs, NEW book, BookOK(book, n), Exact(os, qs, book, n),
           NEW r, r \notin DOMAIN book, NEW o \in HistoricalOrder(n + 1), o.priority = n + 1
    PROVE  BookOK(With(book, r, o), n + 1) /\ Exact(os, qs, With(book, r, o), n)
<1> DEFINE new == With(book, r, o)
<1>1. /\ DOMAIN new = DOMAIN book \cup {r} /\ new[r] = o
      /\ \A x \in DOMAIN book : new[x] = book[x]
  BY DEF With
<1>2. \A x \in DOMAIN book : book[x] \in HistoricalOrder(n) /\ book[x] \in HistoricalOrder(n + 1)
  BY DEF BookOK, HistoricalOrder
<1>3. BookOK(new, n + 1)
  <2>1. \A x \in DOMAIN new : new[x] \in HistoricalOrder(n + 1)
    BY <1>1, <1>2
  <2>2. new = [x \in DOMAIN new |-> new[x]]
    BY DEF With
  <2> QED BY <2>1, <2>2 DEF BookOK
<1> HIDE DEF new
<1>4. ASSUME NEW i \in DOMAIN qs
      PROVE  ExactQueue(os[i], qs[i], new, n)
  <2>1. ExactQueue(os[i], qs[i], book, n)
    BY <1>4 DEF Exact
  <2>2. qs[i].joined \in 1 .. n + 1
    BY <2>1 DEF ExactQueue
  <2>3. Before(new, os[i], qs[i].joined) = Before(book, os[i], qs[i].joined)
    <3>1. ~(o.priority < qs[i].joined)
      BY <2>2
    <3> QED BY <1>1, <3>1 DEF Before, Level
  <2>4. \A x \in Before(book, os[i], qs[i].joined) : new[x].remaining = book[x].remaining
    BY <1>1 DEF Before, Level
  <2> QED BY <2>1, <2>3, <2>4 DEF ExactQueue
<1>5. Exact(os, qs, new, n)
  BY <1>4 DEF Exact
<1> QED BY <1>3, <1>5 DEF new

\* A reference that leaves the book leaves every queue.
LEMMA RemovedEverywhere ==
    ASSUME NEW n \in Nat, NEW os, NEW qs, NEW book, BookOK(book, n), Exact(os, qs, book, n),
           NEW r
    PROVE  BookOK(Without(book, r), n) /\ Exact(os, AheadRemoved(qs, r), Without(book, r), n)
<1> DEFINE new == Without(book, r)
           left == AheadRemoved(qs, r)
<1>1. DOMAIN new = DOMAIN book \ {r} /\ \A x \in DOMAIN new : new[x] = book[x]
  BY DEF Without
<1>2. BookOK(new, n)
  BY <1>1 DEF BookOK, Without
<1>3. DOMAIN left = DOMAIN qs /\ \A i \in DOMAIN qs : left[i] = [qs[i] EXCEPT !.ahead = Without(@, r)]
  BY DEF AheadRemoved
<1> HIDE DEF new, left
<1>4. ASSUME NEW i \in DOMAIN qs
      PROVE  ExactQueue(os[i], left[i], new, n)
  <2> DEFINE q == qs[i]
  <2>1. ExactQueue(os[i], q, book, n)
    BY <1>4 DEF Exact
  <2>2. /\ left[i] \in [ahead : {left[i].ahead}, joined : 1 .. n + 1]
        /\ left[i].joined = q.joined /\ left[i].ahead = Without(q.ahead, r)
    BY <1>3, <2>1 DEF ExactQueue
  <2>3. Before(new, os[i], q.joined) = Before(book, os[i], q.joined) \ {r}
    BY <1>1 DEF Before, Level
  <2>4. \A x \in Before(new, os[i], q.joined) : new[x].remaining = book[x].remaining
    BY <1>1 DEF Before, Level
  <2>5. Without(q.ahead, r) = [x \in Before(new, os[i], q.joined) |-> new[x].remaining]
    BY <2>1, <2>3, <2>4 DEF ExactQueue, Without
  <2> QED BY <2>2, <2>5 DEF ExactQueue
<1> QED BY <1>2, <1>3, <1>4 DEF Exact, new, left

\* Shares that leave an order of the book leave it in every queue.
LEMMA DecrementedEverywhere ==
    ASSUME NEW n \in Nat, NEW os, NEW qs, NEW book, BookOK(book, n), Exact(os, qs, book, n),
           NEW r \in DOMAIN book, NEW q \in Shares, q <= book[r].remaining
    PROVE  /\ BookOK(Decremented(book, r, q), n)
           /\ Exact(os, AheadDecremented(qs, r, q), Decremented(book, r, q), n)
<1> DEFINE left == AheadDecremented(qs, r, q)
<1>1. /\ DOMAIN left = DOMAIN qs
      /\ \A i \in DOMAIN qs : left[i] =
            IF r \notin DOMAIN qs[i].ahead THEN qs[i]
            ELSE [qs[i] EXCEPT !.ahead = LessAhead(@, r, q)]
  BY DEF AheadDecremented
<1>2. /\ book[r] \in HistoricalOrder(n) /\ book[r].remaining \in Shares
      /\ book[r].remaining # q => book[r].remaining - q \in Shares
  BY QueueAssumption DEF BookOK, HistoricalOrder, Shares
<1> HIDE DEF left
<1>3. CASE book[r].remaining = q
  <2>1. Decremented(book, r, q) = Without(book, r)
    BY <1>3 DEF Decremented
  <2>2. ASSUME NEW i \in DOMAIN qs
        PROVE  left[i] = [qs[i] EXCEPT !.ahead = Without(@, r)]
    <3>1. ExactQueue(os[i], qs[i], book, n)
      BY <2>2 DEF Exact
    <3>2. CASE r \in DOMAIN qs[i].ahead
      <4>1. qs[i].ahead[r] = q
        BY <1>3, <3>1, <3>2 DEF ExactQueue
      <4> QED BY <1>1, <3>2, <4>1 DEF LessAhead
    <3>3. CASE r \notin DOMAIN qs[i].ahead
      <4>1. Without(qs[i].ahead, r) = qs[i].ahead
        BY <3>1, <3>3 DEF Without, ExactQueue
      <4> QED BY <1>1, <3>1, <3>3, <4>1 DEF ExactQueue
    <3> QED BY <3>2, <3>3
  <2>3. left = AheadRemoved(qs, r)
    BY <1>1, <2>2 DEF AheadRemoved, AheadDecremented, left
  <2> QED BY <2>1, <2>3, RemovedEverywhere DEF left
<1>4. CASE book[r].remaining # q
  <2> DEFINE new == [book EXCEPT ![r].remaining = @ - q]
  <2>1. /\ DOMAIN new = DOMAIN book /\ \A x \in DOMAIN book \ {r} : new[x] = book[x]
        /\ new[r] = [book[r] EXCEPT !.remaining = @ - q]
    BY DEF BookOK
  <2>2. /\ new[r] \in HistoricalOrder(n) /\ new[r].remaining = book[r].remaining - q
        /\ new[r].slot = book[r].slot /\ new[r].price = book[r].price
        /\ new[r].priority = book[r].priority
    BY <1>2, <1>4, <2>1 DEF HistoricalOrder
  <2>3. BookOK(new, n)
    BY <2>1, <2>2 DEF BookOK
  <2> HIDE DEF new
  <2>4. ASSUME NEW i \in DOMAIN qs
        PROVE  ExactQueue(os[i], left[i], new, n)
    <3>1. ExactQueue(os[i], qs[i], book, n)
      BY <2>4 DEF Exact
    <3>2. Before(new, os[i], qs[i].joined) = Before(book, os[i], qs[i].joined)
      BY <2>1, <2>2 DEF Before, Level
    <3>3. CASE r \notin DOMAIN qs[i].ahead
      <4>1. \A x \in Before(book, os[i], qs[i].joined) : new[x].remaining = book[x].remaining
        BY <2>1, <3>1, <3>3 DEF ExactQueue, Before, Level
      <4>2. left[i] = qs[i]
        BY <1>1, <3>3
      <4> QED BY <3>1, <3>2, <4>1, <4>2 DEF ExactQueue
    <3>4. CASE r \in DOMAIN qs[i].ahead
      <4>1. qs[i].ahead[r] = book[r].remaining
        BY <3>1, <3>4 DEF ExactQueue
      <4>2. LessAhead(qs[i].ahead, r, q) = [qs[i].ahead EXCEPT ![r] = @ - q]
        BY <1>4, <4>1 DEF LessAhead
      <4>3. left[i] = [qs[i] EXCEPT !.ahead = [qs[i].ahead EXCEPT ![r] = qs[i].ahead[r] - q]]
        BY <1>1, <3>4, <4>2
      <4>4. /\ left[i] \in [ahead : {left[i].ahead}, joined : 1 .. n + 1]
            /\ left[i].joined = qs[i].joined
            /\ left[i].ahead = [qs[i].ahead EXCEPT ![r] = qs[i].ahead[r] - q]
        BY <3>1, <4>3 DEF ExactQueue
      <4>5. left[i].ahead = [x \in Before(new, os[i], qs[i].joined) |-> new[x].remaining]
        <5>1. DOMAIN qs[i].ahead = Before(book, os[i], qs[i].joined)
          BY <3>1 DEF ExactQueue
        <5>2. \A x \in Before(book, os[i], qs[i].joined) :
                 [qs[i].ahead EXCEPT ![r] = qs[i].ahead[r] - q][x] = new[x].remaining
          <6>1. Before(book, os[i], qs[i].joined) \subseteq DOMAIN book
            BY DEF Before, Level
          <6> QED BY <2>1, <2>2, <3>1, <3>4, <4>1, <5>1, <6>1 DEF ExactQueue
        <5> QED BY <3>2, <4>4, <5>1, <5>2
      <4> QED BY <4>4, <4>5 DEF ExactQueue
    <3> QED BY <3>3, <3>4
  <2>5. Exact(os, left, new, n)
    BY <1>1, <2>4 DEF Exact
  <2> QED BY <1>4, <2>3, <2>5 DEF Decremented, new, left
<1> QED BY <1>3, <1>4

\* Ending orders only drops their queues.
LEMMA DroppingIsExact ==
    ASSUME NEW n \in Nat, NEW os, NEW qs, NEW book, Exact(os, qs, book, n),
           NEW after, DOMAIN after = DOMAIN os,
           \A i \in DOMAIN os : after[i].slot = os[i].slot /\ after[i].price = os[i].price,
           ExposedIds(after) \subseteq ExposedIds(os)
    PROVE  Exact(after, [i \in ExposedIds(after) |-> qs[i]], book, n + 1)
<1> DEFINE left == [i \in ExposedIds(after) |-> qs[i]]
<1>1. ASSUME NEW i \in ExposedIds(after)
      PROVE  ExactQueue(after[i], left[i], book, n + 1)
  <2>1. i \in DOMAIN os /\ ExactQueue(os[i], qs[i], book, n) /\ left[i] = qs[i]
    BY <1>1 DEF Exact, ExposedIds
  <2>2. Before(book, after[i], qs[i].joined) = Before(book, os[i], qs[i].joined)
    BY <2>1 DEF Before
  <2>3. qs[i] \in [ahead : {qs[i].ahead}, joined : 1 .. n + 2]
    BY <2>1 DEF ExactQueue
  <2> QED BY <2>1, <2>2, <2>3 DEF ExactQueue
<1> QED BY <1>1 DEF Exact

-----------------------------------------------------------------------------
(* The stages of a step. *)

LEMMA BeforeMessage ==
    ASSUME QueueInv, NEW t
    PROVE  /\ Terms(OrdersBefore(t)) /\ SameShares(OrdersBefore(t))
           /\ Exact(OrdersBefore(t), QueuesBefore(t), visible, index)
           /\ \A i \in ExposedIds(OrdersBefore(t)) : ~CrossedBy(visible, orders[i])
<1>1. TypeOK /\ DueBefore(t) \subseteq pending
  BY DEF QueueInv, DueBefore
<1>2. /\ Terms(OrdersBefore(t)) /\ SameShares(OrdersBefore(t))
      /\ \A i \in Ids : Exposed(OrdersBefore(t)[i]) => Exposed(orders[i]) \/ i \in Passive
  BY <1>1, ActionsKeepTerms DEF OrdersBefore
<1>3. Exact(OrdersBefore(t), QueuesBefore(t), visible, index)
  BY <1>2, JoiningIsExact DEF QueuesBefore
<1>4. ASSUME NEW i \in ExposedIds(OrdersBefore(t))
      PROVE  ~CrossedBy(visible, orders[i])
  <2>1. i \in Ids /\ (Exposed(orders[i]) \/ i \in Passive)
    BY <1>2, <1>4 DEF ExposedIds, Terms
  <2> QED BY <2>1 DEF QueueInv, NoExposedCross, ExposedIds, Passive, Ids
<1> QED BY <1>2, <1>3, <1>4

\* A step that leaves the orders with their terms and the queues exact keeps
\* the invariant when no exposed order is crossed.
LEMMA ExactStepKeeps ==
    ASSUME QueueInv, NEW after, Terms(after),
           orders' = after, occupied' = Released(occupied, orders, after),
           UNCHANGED <<subLatency, canLatency, nextSeq>>, pending' \subseteq pending,
           lastTs' \in Times \cup {-1}, completed' \in Times \cup {-1},
           index' \in Nat, BookOK(visible', index'),
           Exact(after, queues', visible', index'),
           \A i \in ExposedIds(after) : ~CrossedBy(visible', after[i])
    PROVE  QueueInv'
<1>1. after \in [Ids -> Order] /\ Ids' = Ids /\ TypeOK
  BY DEF Terms, Ids, QueueInv
<1>2. SlotExclusive' /\ occupied' \in [Slots -> OrderIds \cup {NoOrder}]
  BY <1>1, ReleaseKeepsSlots DEF QueueInv, Terms
<1>3. TypeOK'
  BY <1>1, <1>2 DEF TypeOK
<1>4. NoExposedCross'
  BY DEF NoExposedCross
<1>5. Exact(orders, queues, visible, index)' /\ BookOK(visible, index)'
  OBVIOUS
<1> QED BY <1>2, <1>3, <1>4, <1>5 DEF QueueInv

LEMMA MessageClock ==
    ASSUME TypeOK, NEW t \in Times, OpenMessage(t)
    PROVE  /\ UNCHANGED <<subLatency, canLatency, nextSeq>> /\ pending' \subseteq pending
           /\ lastTs' \in Times \cup {-1} /\ completed' \in Times \cup {-1}
<1> QED BY DEF OpenMessage, TypeOK

\* The last stage of a message that changed the book.
LEMMA ApplyKeeps ==
    ASSUME QueueInv, NEW t \in Times, NEW base, Terms(base), NEW qs, NEW book,
           Exact(base, qs, book, index), BookOK(book, index + 1),
           NEW os, Terms(os), ExposedIds(os) \subseteq ExposedIds(base), NEW s, NEW beyond,
           Apply(t, os, qs, book, s, beyond)
    PROVE  QueueInv' /\ \A i \in Ids : orders'[i].remaining = os[i].remaining
<1> DEFINE after == Invalidated(os, book, s, beyond)
<1>1. /\ OpenMessage(t) /\ index' = index + 1 /\ visible' = book
      /\ orders' = after /\ occupied' = Released(occupied, orders, after)
      /\ queues' = [i \in ExposedIds(after) |-> qs[i]]
  BY DEF Apply, NextMessage, Commit
<1>2. DOMAIN os = Ids /\ os \in [Ids -> Order]
  BY DEF Terms
<1>3. ASSUME NEW i \in Ids
      PROVE  /\ after[i] \in Order
             /\ after[i].slot = os[i].slot /\ after[i].price = os[i].price
             /\ after[i].remaining = os[i].remaining
             /\ Live(after[i]) => Live(os[i])
             /\ Exposed(after[i]) => Exposed(os[i]) /\ ~CrossedBy(book, os[i])
  <2>1. os[i] \in Order
    BY <1>2
  <2>2. CASE after[i] = os[i] /\ (Exposed(os[i]) => ~CrossedBy(book, os[i]))
    BY <2>1, <2>2
  <2>3. CASE after[i] = Ended(os[i], "invalidated")
    BY <2>1, <2>3
       DEF Ended, Order, Live, LiveStates, Exposed, ExposedStates, TerminalStates
  <2> QED BY <1>2, <2>2, <2>3 DEF Invalidated
<1>4. DOMAIN after = Ids /\ after = [i \in Ids |-> after[i]]
  BY <1>2 DEF Invalidated
<1> HIDE DEF after
<1>5. Terms(after)
  BY <1>3, <1>4 DEF Terms
<1>6. ExposedIds(after) \subseteq ExposedIds(os)
  BY <1>2, <1>3, <1>4 DEF ExposedIds
<1>7. index \in Nat /\ TypeOK
  BY DEF QueueInv
<1>8. Exact(after, queues', book, index + 1)
  <2>1. /\ DOMAIN after = DOMAIN base
        /\ \A i \in DOMAIN base : after[i].slot = base[i].slot /\ after[i].price = base[i].price
    BY <1>3, <1>4 DEF Terms
  <2> QED BY <1>1, <1>6, <1>7, <2>1, DroppingIsExact
<1>9. \A i \in ExposedIds(after) : ~CrossedBy(book, after[i])
  BY <1>3, <1>4 DEF ExposedIds, CrossedBy
<1>10. QueueInv'
  BY <1>1, <1>5, <1>7, <1>8, <1>9, ExactStepKeeps, MessageClock
<1> QED BY <1>1, <1>3, <1>10

\* A message that leaves the book as it is.
LEMMA PassOverKeeps ==
    ASSUME QueueInv, NEW t \in Times, PassOver(t)
    PROVE  QueueInv' /\ \A i \in Ids : orders'[i].remaining = orders[i].remaining
<1> DEFINE after == OrdersBefore(t)
<1>1. /\ OpenMessage(t) /\ index' = index + 1 /\ visible' = visible
      /\ orders' = after /\ occupied' = Released(occupied, orders, after)
      /\ queues' = QueuesBefore(t)
  BY DEF PassOver, NextMessage, Commit
<1>2. /\ Terms(after) /\ SameShares(after)
      /\ Exact(after, QueuesBefore(t), visible, index)
      /\ \A i \in ExposedIds(after) : ~CrossedBy(visible, orders[i])
  BY BeforeMessage
<1>3. index \in Nat /\ TypeOK /\ BookOK(visible, index)
  BY DEF QueueInv
<1>4. BookOK(visible, index + 1)
  BY <1>3 DEF BookOK, HistoricalOrder
<1>5. Exact(after, QueuesBefore(t), visible, index + 1)
  <2>1. QueuesBefore(t) = [i \in ExposedIds(after) |-> QueuesBefore(t)[i]]
    BY DEF QueuesBefore, QueuesFor
  <2>2. Exact(after, [i \in ExposedIds(after) |-> QueuesBefore(t)[i]], visible, index + 1)
    BY <1>2, <1>3, DroppingIsExact
  <2> QED BY <2>1, <2>2
<1>6. \A i \in ExposedIds(after) : ~CrossedBy(visible, after[i])
  BY <1>2 DEF CrossedBy, Terms, ExposedIds
<1> HIDE DEF after
<1>7. QueueInv'
  BY <1>1, <1>2, <1>3, <1>4, <1>5, <1>6, ExactStepKeeps, MessageClock
<1> QED BY <1>1, <1>2, <1>7 DEF SameShares

-----------------------------------------------------------------------------
(* The messages. *)

\* The rest of the messages fill nothing.
NothingFilled == \A i \in Ids : orders'[i].remaining = orders[i].remaining

LEMMA SkipKeeps ==
    ASSUME QueueInv, NEW t \in Times, Skip(t)
    PROVE  QueueInv' /\ NothingFilled
<1>1. CASE PassOver(t)
  BY <1>1, PassOverKeeps DEF NothingFilled
<1>2. CASE Abort(t)
  BY <1>2
     DEF Abort, vars, NothingFilled, QueueInv, TypeOK, SlotExclusive, BookOK, Exact, NoExposedCross, Ids
<1> QED BY <1>1, <1>2 DEF Skip

\* A message that gives the book its new value and fills nothing.
LEMMA ChangeKeeps ==
    ASSUME QueueInv, NEW t \in Times, NEW qs, NEW book,
           Exact(OrdersBefore(t), qs, book, index), BookOK(book, index + 1),
           NEW s, NEW beyond, Apply(t, OrdersBefore(t), qs, book, s, beyond)
    PROVE  QueueInv' /\ NothingFilled
<1> DEFINE os == OrdersBefore(t)
<1>1. Terms(os) /\ SameShares(os)
  BY BeforeMessage
<1> HIDE DEF os
<1>2. QueueInv' /\ \A i \in Ids : orders'[i].remaining = os[i].remaining
  BY <1>1, ApplyKeeps DEF os
<1> QED BY <1>1, <1>2 DEF NothingFilled, SameShares

LEMMA NewerBound == ASSUME NEW n \in Nat, NEW book, BookOK(book, n) PROVE BookOK(book, n + 1)
<1> QED BY DEF BookOK, HistoricalOrder

LEMMA AddKeeps ==
    ASSUME QueueInv, NEW t \in Times, NEW r, NEW s \in Slots, NEW p \in Prices, NEW q \in Shares,
           Add(t, r, s, p, q)
    PROVE  QueueInv' /\ NothingFilled
<1> DEFINE o == [slot |-> s, price |-> p, remaining |-> q, priority |-> index + 1]
<1>1. index \in Nat /\ BookOK(visible, index)
  BY DEF QueueInv
<1>2. CASE r \in DOMAIN visible
  BY <1>2, SkipKeeps DEF Add
<1>3. CASE r \notin DOMAIN visible
  <2>1. o \in HistoricalOrder(index + 1) /\ o.priority = index + 1
    BY <1>1 DEF HistoricalOrder
  <2>2. Apply(t, OrdersBefore(t), QueuesBefore(t), With(visible, r, o), s, NoOrder)
    BY <1>3 DEF Add
  <2> HIDE DEF o
  <2>3. /\ BookOK(With(visible, r, o), index + 1)
        /\ Exact(OrdersBefore(t), QueuesBefore(t), With(visible, r, o), index)
    BY <1>1, <1>3, <2>1, BeforeMessage, AddedIsBehind
  <2> QED BY <2>2, <2>3, ChangeKeeps
<1> QED BY <1>2, <1>3

LEMMA CancelKeeps ==
    ASSUME QueueInv, NEW t \in Times, NEW r, NEW q \in Shares, NEW agrees \in BOOLEAN,
           Cancel(t, r, q, agrees)
    PROVE  QueueInv' /\ NothingFilled
<1>1. index \in Nat /\ BookOK(visible, index)
  BY DEF QueueInv
<1>2. CASE ~Consistent(r, q, agrees)
  BY <1>2, SkipKeeps DEF Cancel
<1>3. CASE Consistent(r, q, agrees)
  <2>1. r \in DOMAIN visible /\ q <= visible[r].remaining
    BY <1>3 DEF Consistent
  <2>2. /\ BookOK(Decremented(visible, r, q), index)
        /\ Exact(OrdersBefore(t), AheadDecremented(QueuesBefore(t), r, q),
                 Decremented(visible, r, q), index)
    BY <1>1, <2>1, BeforeMessage, DecrementedEverywhere
  <2>3. Apply(t, OrdersBefore(t), AheadDecremented(QueuesBefore(t), r, q),
              Decremented(visible, r, q), visible[r].slot, NoOrder)
    BY <1>3 DEF Cancel
  <2> QED BY <1>1, <2>2, <2>3, ChangeKeeps, NewerBound
<1> QED BY <1>2, <1>3

LEMMA DeleteKeeps ==
    ASSUME QueueInv, NEW t \in Times, NEW r, NEW agrees \in BOOLEAN, Delete(t, r, agrees)
    PROVE  QueueInv' /\ NothingFilled
<1>1. index \in Nat /\ BookOK(visible, index)
  BY DEF QueueInv
<1>2. CASE ~(r \in DOMAIN visible /\ agrees)
  BY <1>2, SkipKeeps DEF Delete
<1>3. CASE r \in DOMAIN visible /\ agrees
  <2>1. /\ BookOK(Without(visible, r), index)
        /\ Exact(OrdersBefore(t), AheadRemoved(QueuesBefore(t), r), Without(visible, r), index)
    BY <1>1, BeforeMessage, RemovedEverywhere
  <2>2. Apply(t, OrdersBefore(t), AheadRemoved(QueuesBefore(t), r), Without(visible, r),
              visible[r].slot, NoOrder)
    BY <1>3 DEF Delete
  <2> QED BY <1>1, <2>1, <2>2, ChangeKeeps, NewerBound
<1> QED BY <1>2, <1>3

LEMMA ReplaceKeeps ==
    ASSUME QueueInv, NEW t \in Times, NEW r, NEW new, NEW p \in Prices, NEW q \in Shares,
           NEW agrees \in BOOLEAN, Replace(t, r, new, p, q, agrees)
    PROVE  QueueInv' /\ NothingFilled
<1> DEFINE possible == r \in DOMAIN visible /\ new \notin DOMAIN visible /\ agrees
           o == [slot |-> visible[r].slot, price |-> p, remaining |-> q, priority |-> index + 1]
<1>1. index \in Nat /\ BookOK(visible, index)
  BY DEF QueueInv
<1>2. CASE ~possible
  BY <1>2, SkipKeeps DEF Replace
<1>3. CASE possible
  <2>1. o \in HistoricalOrder(index + 1) /\ o.priority = index + 1
    BY <1>1, <1>3 DEF HistoricalOrder, BookOK
  <2>2. Apply(t, OrdersBefore(t), AheadRemoved(QueuesBefore(t), r),
              With(Without(visible, r), new, o), visible[r].slot, NoOrder)
    BY <1>3 DEF Replace
  <2> HIDE DEF o
  <2>3. /\ BookOK(Without(visible, r), index)
        /\ Exact(OrdersBefore(t), AheadRemoved(QueuesBefore(t), r), Without(visible, r), index)
    BY <1>1, BeforeMessage, RemovedEverywhere
  <2>4. new \notin DOMAIN Without(visible, r)
    BY <1>3 DEF Without
  <2>5. /\ BookOK(With(Without(visible, r), new, o), index + 1)
        /\ Exact(OrdersBefore(t), AheadRemoved(QueuesBefore(t), r),
                 With(Without(visible, r), new, o), index)
    BY <1>1, <2>1, <2>3, <2>4, AddedIsBehind
  <2> QED BY <2>2, <2>5, ChangeKeeps
<1> QED BY <1>2, <1>3

-----------------------------------------------------------------------------
(* Executions. *)

\* With an exposed order of the executed level behind r, no queue holds r:
\* it would be the queue of another exposed order of the same slot.
LEMMA NobodyElseShrinks ==
    ASSUME QueueInv, NEW os, Terms(os), NEW qs, qs = QueuesFor(os, queues),
           Exact(os, qs, visible, index), NEW r \in DOMAIN visible, NEW q,
           NEW j \in Matching(os, visible[r].slot, visible[r].price), r \notin DOMAIN qs[j].ahead
    PROVE  AheadDecremented(qs, r, q) = qs
<1>1. ASSUME NEW i \in DOMAIN qs, r \in DOMAIN qs[i].ahead
      PROVE  FALSE
  <2>1. ExactQueue(os[i], qs[i], visible, index) /\ i \in ExposedIds(os)
    BY <1>1 DEF Exact
  <2>2. r \in Level(visible, os[i].slot, os[i].price)
    BY <1>1, <2>1 DEF ExactQueue, Before
  <2>3. j \in ExposedIds(os) /\ os[j].slot = os[i].slot
    BY <2>2 DEF Matching, Level
  <2>4. i = j
    BY <2>1, <2>3, OneExposedPerSlot
  <2> QED BY <1>1, <2>4
<1>2. AheadDecremented(qs, r, q) = [i \in DOMAIN qs |-> qs[i]]
  BY <1>1 DEF AheadDecremented
<1>3. qs = [i \in DOMAIN qs |-> qs[i]]
  BY DEF QueuesFor
<1> QED BY <1>2, <1>3

Behind(t, r) ==
    {i \in Matching(OrdersBefore(t), visible[r].slot, visible[r].price) :
        r \notin DOMAIN QueuesBefore(t)[i].ahead}

First(t, r, m) == {i \in Behind(t, r) : EarnsFill(QueuesBefore(t)[i], m)}

FilledBy(t, r, q, m) ==
    [i \in DOMAIN OrdersBefore(t) |->
        IF i \in First(t, r, m)
        THEN WithFill(OrdersBefore(t)[i], MinOf(q, OrdersBefore(t)[i].remaining))
        ELSE OrdersBefore(t)[i]]

\* The outcomes of an execution.
Fills(t, r, q, agrees, m) ==
    /\ Consistent(r, q, agrees) /\ First(t, r, m) # {}
    /\ Apply(t, FilledBy(t, r, q, m), QueuesBefore(t), Decremented(visible, r, q),
             visible[r].slot, visible[r].price)
    /\ usedMatches' = With(usedMatches, m, CHOOSE i \in First(t, r, m) : TRUE)

LEMMA ExecuteOutcomes ==
    ASSUME NEW t, NEW r, NEW q, NEW agrees, NEW m, Execute(t, r, q, agrees, m)
    PROVE  \/ Skip(t) \/ Abort(t)
           \/ /\ Consistent(r, q, agrees) /\ Behind(t, r) = {}
              /\ Apply(t, OrdersBefore(t), AheadDecremented(QueuesBefore(t), r, q),
                       Decremented(visible, r, q), visible[r].slot, visible[r].price)
           \/ /\ Consistent(r, q, agrees) /\ Behind(t, r) # {}
              /\ Apply(t, OrdersBefore(t), QueuesBefore(t),
                       Decremented(visible, r, q), visible[r].slot, visible[r].price)
           \/ Fills(t, r, q, agrees, m)
<1> QED BY DEF Execute, Behind, First, FilledBy, Fills

\* What a fill makes of the orders: their terms stay, one order loses shares.
LEMMA FilledKeepsTerms ==
    ASSUME QueueInv, NEW t, NEW r, NEW q \in Shares, NEW m
    PROVE  /\ Terms(FilledBy(t, r, q, m))
           /\ ExposedIds(FilledBy(t, r, q, m)) \subseteq ExposedIds(OrdersBefore(t))
           /\ \A i \in Ids :
                 IF i \in First(t, r, m)
                 THEN FilledBy(t, r, q, m)[i].remaining
                         = orders[i].remaining - MinOf(q, orders[i].remaining)
                 ELSE FilledBy(t, r, q, m)[i].remaining = orders[i].remaining
<1> DEFINE os == OrdersBefore(t)
           filled == FilledBy(t, r, q, m)
<1>1. os \in [Ids -> Order] /\ Terms(os) /\ SameShares(os) /\ DOMAIN filled = Ids
  BY BeforeMessage DEF Terms, FilledBy
<1>2. \A i \in Ids : filled[i] = IF i \in First(t, r, m)
                                 THEN WithFill(os[i], MinOf(q, os[i].remaining)) ELSE os[i]
  BY <1>1 DEF FilledBy
<1>3. \A i \in First(t, r, m) : i \in Ids /\ Exposed(os[i])
  BY <1>1 DEF First, Behind, Matching, ExposedIds
<1>4. filled = [i \in Ids |-> filled[i]]
  BY <1>1 DEF FilledBy
<1> HIDE DEF os, filled
<1>5. ASSUME NEW i \in First(t, r, m)
      PROVE  /\ filled[i] \in Order
             /\ filled[i].slot = os[i].slot /\ filled[i].price = os[i].price
             /\ filled[i].remaining = os[i].remaining - MinOf(q, os[i].remaining)
  <2> DEFINE n == MinOf(q, os[i].remaining)
  <2>1. os[i] \in Order /\ filled[i] = WithFill(os[i], n)
    BY <1>1, <1>2, <1>3, <1>5
  <2>2. os[i].remaining \in 0 .. MaxQuantity
    BY <2>1 DEF Order
  <2>3. os[i].remaining - n \in 0 .. MaxQuantity
    BY <2>2, QueueAssumption, QuantityAssumption DEF MinOf, Shares
  <2> HIDE DEF n
  <2> QED BY <2>1, <2>3
          DEF WithFill, Order, LiveStates, ExposedStates, TerminalStates, n
<1>6. \A i \in Ids : filled[i] \in Order
  BY <1>1, <1>2, <1>5
<1>7. Terms(filled)
  <2>1. ASSUME NEW i \in Ids
        PROVE  /\ filled[i].slot = orders[i].slot /\ filled[i].price = orders[i].price
               /\ Live(filled[i]) => Live(orders[i])
    BY <1>1, <1>2, <1>3, <1>5, <2>1 DEF Terms, Exposed, Live, LiveStates
  <2> QED BY <1>4, <1>6, <2>1 DEF Terms
<1>8. ExposedIds(filled) \subseteq ExposedIds(os)
  BY <1>1, <1>2, <1>3 DEF ExposedIds
<1>9. \A i \in Ids : IF i \in First(t, r, m)
                     THEN filled[i].remaining = orders[i].remaining - MinOf(q, orders[i].remaining)
                     ELSE filled[i].remaining = orders[i].remaining
  BY <1>1, <1>2, <1>5 DEF SameShares
<1> QED BY <1>7, <1>8, <1>9 DEF os, filled

LEMMA ExecuteKeeps ==
    ASSUME QueueInv, NEW t \in Times, NEW r, NEW q \in Shares, NEW agrees \in BOOLEAN, NEW m,
           Execute(t, r, q, agrees, m)
    PROVE  QueueInv' /\ (NothingFilled \/ Fills(t, r, q, agrees, m))
<1> DEFINE os == OrdersBefore(t)
           qs == QueuesBefore(t)
           book == Decremented(visible, r, q)
<1>1. index \in Nat /\ BookOK(visible, index)
  BY DEF QueueInv
<1>2. Terms(os) /\ Exact(os, qs, visible, index) /\ qs = QueuesFor(os, queues)
  BY BeforeMessage DEF QueuesBefore
<1>3. Consistent(r, q, agrees) => r \in DOMAIN visible /\ q <= visible[r].remaining
  BY DEF Consistent
<1> HIDE DEF os, qs
<1>4. Consistent(r, q, agrees) =>
         BookOK(book, index + 1) /\ Exact(os, AheadDecremented(qs, r, q), book, index)
  BY <1>1, <1>2, <1>3, DecrementedEverywhere, NewerBound
<1>5. Consistent(r, q, agrees) /\ Behind(t, r) # {} => Exact(os, qs, book, index)
  <2>1. ASSUME Consistent(r, q, agrees), NEW j \in Behind(t, r)
        PROVE  AheadDecremented(qs, r, q) = qs
    BY <1>2, <1>3, <2>1, NobodyElseShrinks DEF Behind, os, qs
  <2> QED BY <1>4, <2>1
<1> HIDE DEF book
<1>6. CASE Skip(t) \/ Abort(t)
  <2>1. CASE Skip(t)
    BY <2>1, SkipKeeps
  <2>2. CASE Abort(t)
    BY <2>2 DEF Abort, vars, NothingFilled, QueueInv, TypeOK, SlotExclusive, BookOK, Exact,
                NoExposedCross, Ids
  <2> QED BY <1>6, <2>1, <2>2
<1>7. CASE /\ Consistent(r, q, agrees) /\ Behind(t, r) = {}
           /\ Apply(t, os, AheadDecremented(qs, r, q), book, visible[r].slot, visible[r].price)
  BY <1>4, <1>7, ChangeKeeps DEF os
<1>8. CASE /\ Consistent(r, q, agrees) /\ Behind(t, r) # {}
           /\ Apply(t, os, qs, book, visible[r].slot, visible[r].price)
  BY <1>4, <1>5, <1>8, ChangeKeeps DEF os
<1>9. CASE Fills(t, r, q, agrees, m)
  <2> DEFINE filled == FilledBy(t, r, q, m)
  <2>1. Behind(t, r) # {} /\ Consistent(r, q, agrees)
    BY <1>9 DEF Fills, First
  <2>2. Terms(filled) /\ ExposedIds(filled) \subseteq ExposedIds(os)
    BY FilledKeepsTerms DEF os
  <2>3. Apply(t, filled, qs, book, visible[r].slot, visible[r].price)
    BY <1>9 DEF Fills, qs, book
  <2> HIDE DEF filled
  <2> QED BY <1>2, <1>4, <1>5, <1>9, <2>1, <2>2, <2>3, ApplyKeeps
<1> QED BY <1>6, <1>7, <1>8, <1>9, ExecuteOutcomes DEF os, qs, book

-----------------------------------------------------------------------------
(* The other steps. *)

LEMMA CompleteKeeps ==
    ASSUME QueueInv, CompleteTimestamp
    PROVE  QueueInv' /\ NothingFilled
<1> DEFINE due == DueThrough(lastTs)
           after == OrdersAfter(due, Passive)
<1>1. /\ CloseGroup /\ UNCHANGED <<visible, index>>
      /\ orders' = after /\ occupied' = Released(occupied, orders, after)
      /\ queues' = QueuesFor(after, queues)
  BY DEF CompleteTimestamp, AfterMarketTimestamp, Commit
<1>2. TypeOK /\ due \subseteq pending /\ index \in Nat /\ BookOK(visible, index)
  BY DEF QueueInv, DueThrough
<1>3. /\ UNCHANGED <<subLatency, canLatency, nextSeq>> /\ pending' \subseteq pending
      /\ lastTs' \in Times \cup {-1} /\ completed' \in Times \cup {-1}
  BY <1>1, <1>2 DEF CloseGroup, TypeOK
<1> HIDE DEF due
<1>4. /\ Terms(after) /\ SameShares(after)
      /\ \A i \in Ids : Exposed(after[i]) => Exposed(orders[i]) \/ i \in Passive
  BY <1>2, ActionsKeepTerms
<1> HIDE DEF after
<1>5. Exact(after, queues', visible', index')
  BY <1>1, <1>4, JoiningIsExact
<1>6. ASSUME NEW i \in ExposedIds(after)
      PROVE  ~CrossedBy(visible', after[i])
  <2>1. i \in Ids /\ (Exposed(orders[i]) \/ i \in Passive)
    BY <1>4, <1>6 DEF ExposedIds, Terms
  <2>2. ~CrossedBy(visible, orders[i])
    BY <2>1 DEF QueueInv, NoExposedCross, ExposedIds, Passive, Ids
  <2> QED BY <1>1, <1>4, <2>1, <2>2 DEF CrossedBy, Terms
<1>7. QueueInv'
  BY <1>1, <1>2, <1>3, <1>4, <1>5, <1>6, ExactStepKeeps
<1> QED BY <1>1, <1>4, <1>7 DEF NothingFilled, SameShares

LEMMA SubmitKeepsQueues ==
    ASSUME QueueInv, NEW i \in OrderIds, NEW s \in Slots, NEW p \in Prices,
           NEW q \in 1 .. MaxQuantity, Submit(i, s, p, q), UNCHANGED queueVars
    PROVE  QueueInv' /\ NothingFilled
<1> DEFINE eff == EffectiveTimestamp(lastTs, subLatency)
           new == NewOrder(s, p, q, eff)
           act == [order |-> i, kind |-> "activate", effective |-> eff, seq |-> nextSeq]
<1>1. TypeOK /\ SlotExclusive
  BY DEF QueueInv
<1>2. /\ GroupOpen /\ i \notin Ids /\ occupied[s] = NoOrder /\ eff <= MaxTime
      /\ pending' = pending \cup {act} /\ nextSeq' = nextSeq + 1
      /\ orders' = [j \in Ids \cup {i} |-> IF j = i THEN new ELSE orders[j]]
      /\ occupied' = [occupied EXCEPT ![s] = i]
      /\ UNCHANGED <<subLatency, canLatency, lastTs, completed>>
  BY DEF Submit, Schedule
<1>3. eff \in Times
  BY <1>1, <1>2, TimeAssumption DEF TypeOK, EffectiveTimestamp, Times, GroupOpen
<1>4. new \in Order /\ new.slot = s /\ Live(new) /\ ~Exposed(new)
  BY <1>3, QuantityAssumption DEF NewOrder, Order, LiveStates, Live, Exposed, ExposedStates
<1>5. act \in ScheduledAction
  BY <1>1, <1>3 DEF ScheduledAction, TypeOK
<1> HIDE DEF new, eff
<1>6. Ids' = Ids \cup {i} /\ orders'[i] = new /\ \A j \in Ids : orders'[j] = orders[j]
  BY <1>2 DEF Ids
<1>7. TypeOK'
  BY <1>1, <1>2, <1>4, <1>5, <1>6 DEF TypeOK
<1>8. SlotExclusive'
  BY <1>1, <1>2, <1>4, <1>6, OrderAssumption DEF SlotExclusive, TypeOK, Order
<1>9. ExposedIds(orders') = ExposedIds(orders) /\ ExposedIds(orders) \subseteq Ids
  BY <1>4, <1>6 DEF ExposedIds, Ids
<1>10. UNCHANGED <<visible, queues, index>>
  BY DEF queueVars
<1>11. Exact(orders', queues, visible, index)
  BY <1>6, <1>9 DEF QueueInv, Exact
<1>12. NoExposedCross'
  BY <1>6, <1>9, <1>10 DEF QueueInv, NoExposedCross
<1>13. Exact(orders, queues, visible, index)' /\ BookOK(visible, index)' /\ index' \in Nat
  BY <1>10, <1>11 DEF QueueInv
<1>14. NothingFilled
  BY <1>6 DEF NothingFilled
<1> QED BY <1>7, <1>8, <1>12, <1>13, <1>14 DEF QueueInv

LEMMA CancelRequestKeepsQueues ==
    ASSUME QueueInv, NEW i \in Ids, RequestCancel(i), UNCHANGED queueVars
    PROVE  QueueInv' /\ NothingFilled
<1> DEFINE eff == EffectiveTimestamp(lastTs, canLatency)
           new == WithCancelRequest(orders[i])
           act == [order |-> i, kind |-> "cancel", effective |-> eff, seq |-> nextSeq]
<1>1. TypeOK /\ SlotExclusive /\ orders[i] \in Order
  BY DEF QueueInv, TypeOK
<1>2. /\ GroupOpen /\ eff <= MaxTime
      /\ orders[i].state \in {"pending_submit", "active", "partially_filled"}
      /\ pending' = pending \cup {act} /\ nextSeq' = nextSeq + 1
      /\ orders' = [orders EXCEPT ![i] = new]
      /\ UNCHANGED <<subLatency, canLatency, occupied, lastTs, completed>>
  BY DEF RequestCancel, Schedule
<1>3. eff \in Times
  BY <1>1, <1>2, TimeAssumption DEF TypeOK, EffectiveTimestamp, Times, GroupOpen
<1>4. /\ new \in Order /\ new.slot = orders[i].slot /\ new.price = orders[i].price
      /\ new.remaining = orders[i].remaining
      /\ Live(new) /\ Live(orders[i]) /\ (Exposed(new) <=> Exposed(orders[i]))
  BY <1>1, <1>2 DEF WithCancelRequest, Order, LiveStates, Live, Exposed, ExposedStates
<1>5. act \in ScheduledAction
  <2>1. i \in OrderIds /\ nextSeq \in Nat
    BY <1>1 DEF TypeOK
  <2> QED BY <1>3, <2>1 DEF ScheduledAction
<1> HIDE DEF new, eff
<1>6. /\ Ids' = Ids /\ orders'[i] = new /\ \A j \in Ids \ {i} : orders'[j] = orders[j]
      /\ orders' \in [Ids -> Order]
  BY <1>1, <1>2, <1>4 DEF Ids, TypeOK
<1>7. TypeOK'
  BY <1>1, <1>2, <1>5, <1>6 DEF TypeOK
<1>8. SlotExclusive'
  BY <1>1, <1>2, <1>4, <1>6 DEF SlotExclusive
<1>9. ExposedIds(orders') = ExposedIds(orders) /\ ExposedIds(orders) \subseteq Ids
  BY <1>4, <1>6 DEF ExposedIds, Ids
<1>10. UNCHANGED <<visible, queues, index>>
  BY DEF queueVars
<1>11. \A j \in Ids : orders'[j].slot = orders[j].slot /\ orders'[j].price = orders[j].price
                         /\ orders'[j].remaining = orders[j].remaining
  BY <1>4, <1>6
<1>12. Exact(orders', queues, visible, index)
  BY <1>9, <1>11 DEF QueueInv, Exact, ExactQueue, Before
<1>13. NoExposedCross'
  BY <1>9, <1>10, <1>11 DEF QueueInv, NoExposedCross, CrossedBy
<1>14. Exact(orders, queues, visible, index)' /\ BookOK(visible, index)' /\ index' \in Nat
  BY <1>10, <1>12 DEF QueueInv
<1> QED BY <1>7, <1>8, <1>11, <1>13, <1>14 DEF QueueInv, NothingFilled

LEMMA QueuesStartExact == QueueInit => QueueInv
<1> SUFFICES ASSUME QueueInit PROVE QueueInv
  OBVIOUS
<1>1. TypeOK /\ SlotExclusive
  BY LifecycleInit DEF QueueInit, LifecycleInv
<1>2. /\ DOMAIN visible = {} /\ DOMAIN queues = {} /\ DOMAIN orders = {} /\ index = 0
      /\ visible = [x \in {} |-> visible[x]]
  BY DEF QueueInit, Init, Empty
<1> QED BY <1>1, <1>2 DEF QueueInv, BookOK, Exact, ExposedIds, NoExposedCross

LEMMA QueueStep ==
    ASSUME QueueInv, [QueueNext]_allVars
    PROVE  /\ QueueInv'
           /\ \/ NothingFilled
              \/ \E t \in Times, r \in Refs, q \in Shares, agrees \in BOOLEAN, m \in Matches :
                    Fills(t, r, q, agrees, m)
<1>1. CASE Message
  <2>1. PICK t \in Times :
           \/ Observe(t)
           \/ \E m \in Matches : BrokenTrade(t, m)
           \/ \E r \in Refs, s \in Slots, p \in Prices, q \in Shares : Add(t, r, s, p, q)
           \/ \E r \in Refs, agrees \in BOOLEAN :
                 \/ Delete(t, r, agrees)
                 \/ \E q \in Shares : Cancel(t, r, q, agrees)
                 \/ \E q \in Shares, m \in Matches : Execute(t, r, q, agrees, m)
                 \/ \E new \in Refs, p \in Prices, q \in Shares : Replace(t, r, new, p, q, agrees)
    BY <1>1 DEF Message
  <2>2. CASE PassOver(t)
    BY <2>2, PassOverKeeps DEF NothingFilled
  <2>3. CASE Abort(t)
    BY <2>3 DEF Abort, vars, NothingFilled, QueueInv, TypeOK, SlotExclusive, BookOK, Exact,
                NoExposedCross, Ids
  <2> QED BY <2>1, <2>2, <2>3, AddKeeps, DeleteKeeps, CancelKeeps, ExecuteKeeps, ReplaceKeeps
          DEF Observe, BrokenTrade
<1>2. CASE CompleteTimestamp
  BY <1>2, CompleteKeeps
<1>3. CASE StrategyStep
  BY <1>3, SubmitKeepsQueues, CancelRequestKeepsQueues DEF StrategyStep
<1>4. CASE UNCHANGED allVars
  BY <1>4 DEF allVars, vars, queueVars, NothingFilled, QueueInv, TypeOK, SlotExclusive, BookOK, Exact,
              NoExposedCross, Ids
<1> QED BY <1>1, <1>2, <1>3, <1>4 DEF QueueNext

(* Orders, slots, visible book and tracked queues stay consistent under     *)
(* every sequence of market messages and strategy calls.                    *)
THEOREM QueueInvariant == QueueSpec => []QueueInv
<1> QED BY QueuesStartExact, QueueStep, PTL DEF QueueSpec

(* The queue of an exposed order is exactly what is displayed at its level  *)
(* from before it joined (_resolve_activation, _decrement_ahead).           *)
THEOREM QueuesStayExact == QueueSpec => []AheadExact
<1>1. QueueInv => AheadExact
  BY DEF QueueInv, Exact, ExactQueue, Before, AheadExact
<1> QED BY <1>1, QueueInvariant, PTL

(* No order stays exposed against a visible opposite order that reaches its *)
(* limit (_is_marketable, _invalidate_crossed_remainders).                  *)
THEOREM CrossedOrdersEnd == QueueSpec => []NoExposedCross
<1>1. QueueInv => NoExposedCross
  BY DEF QueueInv
<1> QED BY <1>1, QueueInvariant, PTL

\* What an execution that fills an order tells of the order.
LEMMA FilledOrderEarned ==
    ASSUME QueueInv, NEW t \in Times, NEW r, NEW q \in Shares, NEW agrees \in BOOLEAN, NEW m,
           Fills(t, r, q, agrees, m), NEW i \in Ids, orders'[i].remaining < orders[i].remaining
    PROVE  /\ \A x \in Level(visible', orders[i].slot, orders[i].price) :
                 visible'[x].priority >= JoinedAt(i)
           /\ r \in Level(visible, orders[i].slot, orders[i].price)
           /\ DisplayedIn(visible, r) - DisplayedIn(visible', r)
                 >= orders[i].remaining - orders'[i].remaining
           /\ m \in DOMAIN usedMatches' \ DOMAIN usedMatches
           /\ usedMatches' = With(usedMatches, m, i)
<1> DEFINE os == OrdersBefore(t)
           qs == QueuesBefore(t)
           book == Decremented(visible, r, q)
           filled == FilledBy(t, r, q, m)
<1>1. /\ index \in Nat /\ BookOK(visible, index) /\ orders[i] \in Order
      /\ Terms(os) /\ Exact(os, qs, visible, index) /\ qs = QueuesFor(os, queues)
  BY BeforeMessage DEF QueueInv, TypeOK, QueuesBefore
<1>2. r \in DOMAIN visible /\ q <= visible[r].remaining /\ First(t, r, m) # {}
  BY DEF Fills, Consistent
<1>3. visible[r] \in HistoricalOrder(index) /\ visible[r].remaining \in Shares
  BY <1>1, <1>2 DEF BookOK, HistoricalOrder
<1>4. /\ Apply(t, filled, qs, book, visible[r].slot, visible[r].price)
      /\ visible' = book
  BY DEF Fills, Apply
<1>5. i \in First(t, r, m) /\ orders'[i].remaining = orders[i].remaining - MinOf(q, orders[i].remaining)
  <2>1. orders'[i].remaining = filled[i].remaining
    <3>1. DOMAIN filled = Ids
      BY FilledKeepsTerms DEF Terms
    <3>2. orders'[i] \in {filled[i], Ended(filled[i], "invalidated")}
      BY <1>4, <3>1 DEF Apply, Commit, Invalidated
    <3>3. filled[i] \in Order
      BY FilledKeepsTerms DEF Terms
    <3> QED BY <3>2, <3>3 DEF Ended, Order
  <2> QED BY <1>1, <2>1, FilledKeepsTerms DEF Order
<1>6. /\ i \in ExposedIds(os) /\ os[i].slot = visible[r].slot /\ os[i].price = visible[r].price
      /\ os[i].slot = orders[i].slot /\ os[i].price = orders[i].price
      /\ EarnsFill(qs[i], m)
  BY <1>1, <1>5 DEF First, Behind, Matching, Terms
<1>7. r \in Level(visible, orders[i].slot, orders[i].price)
  BY <1>2, <1>6 DEF Level
<1>8. /\ m \in DOMAIN usedMatches' \ DOMAIN usedMatches
      /\ usedMatches' = With(usedMatches, m, i)
  <2>1. ASSUME NEW j \in First(t, r, m)
        PROVE  j = i
    BY <1>1, <1>6, <2>1, OneExposedPerSlot DEF First, Behind, Matching
  <2>2. (CHOOSE j \in First(t, r, m) : TRUE) = i
    BY <1>2, <2>1
  <2>3. usedMatches' = With(usedMatches, m, i)
    BY <2>2 DEF Fills
  <2> QED BY <1>6, <2>3 DEF With, EarnsFill
<1>9. DisplayedIn(visible, r) - DisplayedIn(visible', r) >= orders[i].remaining - orders'[i].remaining
  <2>1. DisplayedIn(visible, r) - DisplayedIn(visible', r) = q
    <3>1. CASE visible[r].remaining = q
      BY <1>2, <1>3, <1>4, <3>1, QueueAssumption DEF DisplayedIn, Decremented, Without, Shares
    <3>2. CASE visible[r].remaining # q
      <4>1. book[r] = [visible[r] EXCEPT !.remaining = @ - q] /\ r \in DOMAIN book
        BY <1>2, <3>2 DEF Decremented
      <4>2. book[r].remaining = visible[r].remaining - q
        BY <1>3, <4>1 DEF HistoricalOrder
      <4> QED BY <1>2, <1>3, <1>4, <4>1, <4>2, QueueAssumption DEF DisplayedIn, Shares
    <3> QED BY <3>1, <3>2
  <2>2. orders[i].remaining \in Nat /\ q \in Nat
    BY <1>1, QueueAssumption, QuantityAssumption DEF Order, Shares
  <2> QED BY <1>5, <2>1, <2>2 DEF MinOf
<1>10. ASSUME NEW x \in Level(visible', orders[i].slot, orders[i].price)
       PROVE  visible'[x].priority >= JoinedAt(i)
  <2>1. /\ x \in Level(visible, orders[i].slot, orders[i].price)
        /\ visible'[x].priority = visible[x].priority
    <3>1. CASE visible[r].remaining = q
      BY <1>4, <1>10, <3>1 DEF Level, Decremented, Without
    <3>2. CASE visible[r].remaining # q
      <4>1. /\ DOMAIN book = DOMAIN visible
            /\ \A y \in DOMAIN visible \ {r} : book[y] = visible[y]
            /\ book[r] = [visible[r] EXCEPT !.remaining = @ - q]
        BY <1>2, <3>2 DEF Decremented
      <4>2. /\ book[r].slot = visible[r].slot /\ book[r].price = visible[r].price
            /\ book[r].priority = visible[r].priority
        BY <1>3, <4>1 DEF HistoricalOrder
      <4> QED BY <1>4, <1>10, <4>1, <4>2 DEF Level
    <3> QED BY <3>1, <3>2
  <2>2. qs[i].joined = JoinedAt(i)
    <3>1. CASE i \in DOMAIN queues
      BY <1>1, <1>6, <3>1 DEF QueuesFor, JoinedAt
    <3>2. CASE i \notin DOMAIN queues
      BY <1>1, <1>6, <3>2 DEF QueuesFor, JoinedAt, JoinQueue
    <3> QED BY <3>1, <3>2
  <2>3. ExactQueue(os[i], qs[i], visible, index)
    BY <1>1, <1>6 DEF Exact
  <2>4. DOMAIN qs[i].ahead = {}
    BY <1>6 DEF EarnsFill, Empty
  <2>5. x \notin Before(visible, os[i], qs[i].joined)
    BY <2>3, <2>4 DEF ExactQueue
  <2>6. visible[x].priority \in Nat /\ qs[i].joined \in Nat
    BY <1>1, <2>1, <2>3 DEF BookOK, HistoricalOrder, Level, ExactQueue
  <2> QED BY <1>6, <2>1, <2>2, <2>5, <2>6 DEF Before, Level
<1> QED BY <1>7, <1>8, <1>9, <1>10

(* Every fill is earned: what stood before the order has gone, a later      *)
(* order of the same level lost the shares in this very message, and a      *)
(* match number fills one order once (_apply_execution).                    *)
THEOREM EveryFillIsEarned == QueueSpec => FillsAreEarned
<1> DEFINE Earned ==
        \A i \in Ids : orders'[i].remaining < orders[i].remaining =>
          /\ \A r \in Level(visible', orders[i].slot, orders[i].price) :
                 visible'[r].priority >= JoinedAt(i)
          /\ \E r \in Level(visible, orders[i].slot, orders[i].price) :
                 DisplayedIn(visible, r) - DisplayedIn(visible', r)
                     >= orders[i].remaining - orders'[i].remaining
          /\ \E m \in DOMAIN usedMatches' \ DOMAIN usedMatches :
                 usedMatches' = With(usedMatches, m, i)
<1>1. ASSUME QueueInv, [QueueNext]_allVars
      PROVE  Earned
  <2>1. CASE NothingFilled
    <3>1. \A i \in Ids : ~(orders[i].remaining < orders[i].remaining)
      BY <1>1 DEF QueueInv, TypeOK, Order
    <3> QED BY <2>1, <3>1 DEF NothingFilled
  <2>2. ASSUME NEW t \in Times, NEW r \in Refs, NEW q \in Shares, NEW agrees \in BOOLEAN,
               NEW m \in Matches, Fills(t, r, q, agrees, m)
        PROVE  Earned
    <3> SUFFICES ASSUME NEW i \in Ids, orders'[i].remaining < orders[i].remaining
                 PROVE  /\ \A x \in Level(visible', orders[i].slot, orders[i].price) :
                               visible'[x].priority >= JoinedAt(i)
                        /\ \E x \in Level(visible, orders[i].slot, orders[i].price) :
                               DisplayedIn(visible, x) - DisplayedIn(visible', x)
                                   >= orders[i].remaining - orders'[i].remaining
                        /\ \E n \in DOMAIN usedMatches' \ DOMAIN usedMatches :
                               usedMatches' = With(usedMatches, n, i)
      OBVIOUS
    <3> QED BY <1>1, <2>2, FilledOrderEarned
  <2> QED BY <1>1, <2>1, <2>2, QueueStep
<1> QED BY <1>1, QueueInvariant, PTL DEF QueueSpec, FillsAreEarned
=============================================================================
