---------------------------- MODULE PriceTimeBook ----------------------------
(***************************************************************************)
(* What a visible level-3 book promises (FR-004): at each side and price a *)
(* queue of live orders.  A new order joins the tail, a reduction leaves   *)
(* the order where it is, an order whose last share goes leaves, and a     *)
(* replacement gives up its place for the tail of the queue of its new     *)
(* price on the same side.                                                 *)
(***************************************************************************)
EXTENDS Naturals, SequencesExt

CONSTANTS Refs, Sides, Prices, MaxShares

VARIABLE queues   \* <<side, price>> to its queue of [ref, remaining]

Places == Sides \X Prices

QueuesOK == queues \in [Places -> Seq([ref : Refs, remaining : 1 .. MaxShares])]

Live == {ref \in Refs : \E k \in Places : \E i \in DOMAIN queues[k] :
                            queues[k][i].ref = ref}

Entry(ref, n) == [ref |-> ref, remaining |-> n]

Init == queues = [k \in Places |-> <<>>]

Join(k, ref, n) ==
    /\ ref \notin Live
    /\ queues' = [queues EXCEPT ![k] = Append(@, Entry(ref, n))]

Reduce(k, i, n) ==
    /\ n < queues[k][i].remaining
    /\ queues' = [queues EXCEPT ![k][i].remaining = @ - n]

Leave(k, i) == queues' = [queues EXCEPT ![k] = RemoveAt(@, i)]

Requeue(k, i, price, ref, n) ==
    /\ ref \notin Live
    /\ queues' = [[queues EXCEPT ![k] = RemoveAt(@, i)]
                    EXCEPT ![<<k[1], price>>] = Append(@, Entry(ref, n))]

Next ==
    /\ queues' # queues
    /\ \E k \in Places :
          \/ \E ref \in Refs, n \in 1 .. MaxShares : Join(k, ref, n)
          \/ \E i \in DOMAIN queues[k] :
                \/ \E n \in 1 .. MaxShares : Reduce(k, i, n)
                \/ Leave(k, i)
                \/ \E price \in Prices, ref \in Refs, n \in 1 .. MaxShares :
                      Requeue(k, i, price, ref, n)

Spec == Init /\ [][Next]_queues
=============================================================================
