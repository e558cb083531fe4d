------------------------------ MODULE OrderBook ------------------------------
(***************************************************************************)
(* The replayed book of one stock, cpp/src/book/order_book.cpp: a map of   *)
(* live orders, and for each side and price a level with its aggregate     *)
(* quantity and its FIFO of references, both changed by every message.     *)
(*                                                                         *)
(* "Expected domain errors are returned without changing the book": a      *)
(* message the code rejects is no step here.  A message for another stock  *)
(* or without a side, and an allocation that fails, are such rejections.   *)
(* The message index is any index: the book itself has to refuse one that  *)
(* does not follow.  A list node is known by its reference.                *)
(***************************************************************************)
EXTENDS Naturals, FiniteSetsExt, SequencesExt, Functions

CONSTANTS
    Refs, Prices,
    MaxShares,   \* the largest quantity of an order (2^32 - 1)
    MaxTotal,    \* the largest aggregate of a level (2^64 - 1)
    MaxIndex     \* bound on message indexes

ASSUME BookAssumption ==
    /\ IsFiniteSet(Refs) /\ Prices \subseteq Nat
    /\ {MaxShares, MaxTotal, MaxIndex} \subseteq Nat

Sides == {"buy", "sell"}

VARIABLES orders,   \* orders_: live reference to its order
          levels    \* bids_ and asks_: <<side, price>> to its stored level

vars == <<orders, levels>>

Order == [side : Sides, price : Prices, remaining : 1 .. MaxShares,
          priority : 1 .. MaxIndex]

Live == DOMAIN orders
Place(ref) == <<orders[ref].side, orders[ref].price>>
Total(ls, k) == IF k \in DOMAIN ls THEN ls[k].total ELSE 0
Fifo(ls, k) == IF k \in DOMAIN ls THEN ls[k].fifo ELSE <<>>
Without(f, x) == [y \in DOMAIN f \ {x} |-> f[y]]
With(f, x, value) == [y \in DOMAIN f \cup {x} |-> IF y = x THEN value ELSE f[y]]

(* push_back on a level, made when it does not exist. *)
Queued(ls, k, ref, shares) ==
    With(ls, k, [total |-> Total(ls, k) + shares, fifo |-> Append(Fifo(ls, k), ref)])

(* list::erase at the node of an order. *)
Erased(fifo, ref) == RemoveAt(fifo, CHOOSE i \in DOMAIN fifo : fifo[i] = ref)

(* erase from a level, which goes with its last order. *)
TakenKeepingTotal(ls, k, ref, shares) ==
    IF ls[k].fifo = <<ref>> THEN Without(ls, k)
    ELSE [ls EXCEPT ![k].fifo = Erased(@, ref)]

Taken(ls, k, ref, shares) ==
    IF ls[k].fifo = <<ref>> THEN Without(ls, k)
    ELSE [ls EXCEPT ![k].fifo = Erased(@, ref), ![k].total = @ - shares]

RequeuedInPlace(k, old, target, new, shares) ==
    LET left == orders[old].remaining
    IN  IF k = target
        THEN [levels EXCEPT ![k].fifo = ReplaceAll(@, old, new),
                            ![k].total = (@ - left) + shares]
        ELSE Queued(Taken(levels, k, old, left), target, new, shares)

Requeued(k, old, target, new, shares) ==
    Queued(Taken(levels, k, old, orders[old].remaining), target, new, shares)

(* "source priority is not later than the FIFO tail". *)
FollowsTail(k, index, leaving) ==
    \A ref \in (IF Fifo(levels, k) = <<>> THEN {} ELSE {Last(Fifo(levels, k))}) \ {leaving} :
        orders[ref].priority < index

(* The level of a live order is the one its fields say, and would be empty  *)
(* exactly when its aggregate is.                                           *)
Owned(ref) ==
    LET k == Place(ref)
    IN  /\ Contains(Fifo(levels, k), ref)
        /\ Len(levels[k].fifo) = 1 <=> levels[k].total = orders[ref].remaining

-----------------------------------------------------------------------------
Init == orders = <<>> /\ levels = <<>>

Add(index, ref, side, shares, price) ==
    LET k == <<side, price>>
    IN  /\ shares \in 1 .. MaxShares
        /\ ref \notin Live
        /\ Total(levels, k) + shares <= MaxTotal
        /\ FollowsTail(k, index, ref)
        /\ orders' = With(orders, ref, [side |-> side, price |-> price, remaining |-> shares,
                                        priority |-> index])
        /\ levels' = Queued(levels, k, ref, shares)

(* Executions and cancels. *)
Reduction(index, ref, shares) ==
    /\ ref \in Live
    /\ index > orders[ref].priority
    /\ shares \in 1 .. orders[ref].remaining
    /\ Owned(ref)
    /\ IF shares < orders[ref].remaining
       THEN /\ orders' = [orders EXCEPT ![ref].remaining = @ - shares]
            /\ levels' = [levels EXCEPT ![Place(ref)].total = @ - shares]
       ELSE /\ orders' = Without(orders, ref)
            /\ levels' = Taken(levels, Place(ref), ref, shares)

Delete(index, ref) ==
    /\ ref \in Live
    /\ index > orders[ref].priority
    /\ Owned(ref)
    /\ orders' = Without(orders, ref)
    /\ levels' = Taken(levels, Place(ref), ref, orders[ref].remaining)

Replace(index, old, new, shares, price) ==
    /\ old # new
    /\ old \in Live /\ new \notin Live
    /\ index > orders[old].priority
    /\ shares \in 1 .. MaxShares
    /\ Owned(old)
    /\ LET k == Place(old)
           target == <<orders[old].side, price>>
           kept == IF k = target THEN orders[old].remaining ELSE 0
       IN  /\ (Total(levels, target) - kept) + shares <= MaxTotal
           /\ FollowsTail(target, index, old)
           /\ levels' = Requeued(k, old, target, new, shares)
    /\ orders' = With(Without(orders, old), new,
                      [side |-> orders[old].side, price |-> price,
                       remaining |-> shares, priority |-> index])

Message(index) ==
    \E ref \in Refs :
        \/ \E shares \in 0 .. MaxShares + 1 :
              \/ \E side \in Sides, price \in Prices : Add(index, ref, side, shares, price)
              \/ Reduction(index, ref, shares)
              \/ \E new \in Refs, price \in Prices : Replace(index, ref, new, shares, price)
        \/ Delete(index, ref)

Next == \E index \in 1 .. MaxIndex : Message(index)

Spec == Init /\ [][Next]_vars

(* top_levels: the best prices of a side first, at most depth of them.      *)
WorstFirst(side, p, q) == IF side = "buy" THEN p < q ELSE p > q

Better(side, p, q) == IF side = "buy" THEN p > q ELSE p < q

BestFirst(side, prices) ==
    CHOOSE q \in [1 .. Cardinality(prices) -> prices] :
        /\ ToSet(q) = prices
        /\ \A i, j \in DOMAIN q : i < j => Better(side, q[i], q[j])

TopLevels(side, depth) ==
    LET best == BestFirst(side, {k[2] : k \in {k \in DOMAIN levels : k[1] = side}})
    IN  [i \in 1 .. Min({depth, Len(best)}) |->
            [price |-> best[i], quantity |-> levels[<<side, best[i]>>].total]]

-----------------------------------------------------------------------------
(* Properties. *)

Quantity(refs) == SumFunctionOnSet([ref \in Live |-> orders[ref].remaining], refs)

(* check_invariants: the levels hold every live order once, at its own side *)
(* and price, in strictly increasing source priority; no level is empty and *)
(* every aggregate is the sum of its live orders.                           *)
BookInv ==
    /\ Live \subseteq Refs /\ orders \in [Live -> Order]
    /\ DOMAIN levels = {Place(ref) : ref \in Live}
    /\ \A k \in DOMAIN levels :
          LET fifo == levels[k].fifo
          IN  /\ ToSet(fifo) = {ref \in Live : Place(ref) = k}
              /\ \A i, j \in DOMAIN fifo :
                    i < j => orders[fifo[i]].priority < orders[fifo[j]].priority
              /\ levels[k].total = Quantity(ToSet(fifo))
              /\ levels[k].total <= MaxTotal

(* The first level of a side is at the best price any live order of the     *)
(* side has and shows the shares of all of them (top_levels).               *)
BestIsBest ==
    \A side \in Sides :
        LET mine == {ref \in Live : orders[ref].side = side}
            top == TopLevels(side, 1)
        IN  IF mine = {} THEN top = <<>>
            ELSE /\ \A ref \in mine : IF side = "buy" THEN orders[ref].price <= top[1].price
                                                  ELSE orders[ref].price >= top[1].price
                 /\ top[1].quantity
                      = Quantity({ref \in mine : orders[ref].price = top[1].price})

(* The incremental maps implement the queues of PriceTimeBook. *)
Promise == INSTANCE PriceTimeBook WITH queues <-
    [k \in Sides \X Prices |->
        [i \in DOMAIN Fifo(levels, k) |->
            [ref |-> Fifo(levels, k)[i], remaining |-> orders[Fifo(levels, k)[i]].remaining]]]

(* Price-time priority (FR-004, ADR-003): every message the book accepts is *)
(* one step of PriceTimeBook, so a reduction keeps its place and a          *)
(* replacement loses it.                                                    *)
KeepsPriceTimePriority == Promise!Spec
=============================================================================
