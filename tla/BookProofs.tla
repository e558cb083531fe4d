------------------------------ MODULE BookProofs ------------------------------
(***************************************************************************)
(* For any references, prices and bounds of the book: its maps agree       *)
(* (BookInv), the first level it shows is the best live price (BestIsBest),*)
(* and it implements PriceTimeBook.  A message changes the maps of orders  *)
(* and levels by Taken, Queued and a reduction in place; each of these is  *)
(* shown to keep BookOK, the invariant written for any two maps, so that a *)
(* replacement, which is two of them in one step, needs no case of its own;*)
(* and to be the step of the queues that the promise allows.               *)
(***************************************************************************)
EXTENDS OrderBook, DataLemmas

-----------------------------------------------------------------------------
(* The invariant of the book, of any maps of orders and levels.             *)

At(os, ref) == <<os[ref].side, os[ref].price>>
Members(os, k) == {ref \in DOMAIN os : At(os, ref) = k}
Shares(os) == [ref \in DOMAIN os |-> os[ref].remaining]

OrdersOK(os) == DOMAIN os \subseteq Refs /\ os \in [DOMAIN os -> Order]

LevelOK(os, level, k) ==
    /\ level \in [total : Nat, fifo : Seq(Refs)]
    /\ ToSet(level.fifo) = Members(os, k)
    /\ \A i, j \in DOMAIN level.fifo :
          i < j => os[level.fifo[i]].priority < os[level.fifo[j]].priority
    /\ level.total = SumFunctionOnSet(Shares(os), Members(os, k))
    /\ level.total <= MaxTotal

LevelsOK(os, ls) ==
    /\ DOMAIN ls = {At(os, ref) : ref \in DOMAIN os}
    /\ \A k \in DOMAIN ls : LevelOK(os, ls[k], k)

BookOK(os, ls) == OrdersOK(os) /\ LevelsOK(os, ls)

LEMMA BookOKIsBookInv == BookOK(orders, levels) => BookInv
<1> SUFFICES ASSUME BookOK(orders, levels) PROVE BookInv
  OBVIOUS
<1>1. Live \subseteq Refs /\ orders \in [Live -> Order]
  BY DEF BookOK, OrdersOK, Live
<1>2. \A ref \in Live : Place(ref) = At(orders, ref)
  BY DEF Place, At
<1>3. DOMAIN levels = {Place(ref) : ref \in Live}
  BY <1>2 DEF BookOK, LevelsOK, Live
<1>4. ASSUME NEW k \in DOMAIN levels
      PROVE  LET fifo == levels[k].fifo
             IN  /\ ToSet(fifo) = {ref \in Live : Place(ref) = k}
                 /\ \A i, j \in DOMAIN fifo :
                       i < j => orders[fifo[i]].priority < orders[fifo[j]].priority
                 /\ levels[k].total = Quantity(ToSet(fifo))
                 /\ levels[k].total <= MaxTotal
  <2>1. LevelOK(orders, levels[k], k)
    BY DEF BookOK, LevelsOK
  <2>2. Members(orders, k) = {ref \in Live : Place(ref) = k}
    BY <1>2 DEF Members, Live
  <2> QED BY <2>1, <2>2 DEF LevelOK, Quantity, Shares, Live
<1> QED BY <1>1, <1>3, <1>4 DEF BookInv

LEMMA SharesSum ==
    ASSUME NEW os, OrdersOK(os), NEW S \in SUBSET DOMAIN os
    PROVE  /\ Summable(Shares(os), S) /\ IsFiniteSet(S)
           /\ SumFunctionOnSet(Shares(os), S) \in Nat
           /\ \A ref \in S : os[ref].remaining \in 1 .. MaxShares /\ os[ref].remaining \in Nat
<1>1. IsFiniteSet(S)
  BY FS_Subset, BookAssumption DEF OrdersOK
<1>2. ASSUME NEW ref \in S
      PROVE  /\ os[ref].remaining \in 1 .. MaxShares /\ os[ref].remaining \in Nat
             /\ Shares(os)[ref] \in Nat
  BY BookAssumption DEF OrdersOK, Order, Shares
<1>3. \A ref \in S : Shares(os)[ref] \in Nat
  BY <1>2
<1>4. SumFunctionOnSet(Shares(os), S) \in Nat
  BY <1>1, <1>3, SumNat
<1> QED BY <1>1, <1>2, <1>3, <1>4 DEF Summable

\* A level whose orders do not change stays as it is.
LEMMA LevelKept ==
    ASSUME NEW os, NEW os2, OrdersOK(os), NEW k, NEW level, LevelOK(os, level, k),
           Members(os2, k) = Members(os, k), \A ref \in Members(os, k) : os2[ref] = os[ref]
    PROVE  LevelOK(os2, level, k)
<1>1. \A i \in DOMAIN level.fifo : level.fifo[i] \in Members(os, k)
  BY DEF LevelOK, ToSet
<1>2. SumFunctionOnSet(Shares(os2), Members(os2, k)) = SumFunctionOnSet(Shares(os), Members(os, k))
  <2>1. Members(os, k) \in SUBSET DOMAIN os /\ Members(os2, k) \in SUBSET DOMAIN os2
    BY DEF Members
  <2>2. \A ref \in Members(os, k) : Shares(os2)[ref] = Shares(os)[ref]
    BY <2>1 DEF Shares
  <2> QED BY <2>1, <2>2, SharesSum, SumSame
<1>3. \A i, j \in DOMAIN level.fifo :
          i < j => os2[level.fifo[i]].priority < os2[level.fifo[j]].priority
  BY <1>1 DEF LevelOK
<1> QED BY <1>2, <1>3 DEF LevelOK

\* An order stands at one position of its level.
LEMMA StandsOnce ==
    ASSUME NEW os, OrdersOK(os), NEW k, NEW level, LevelOK(os, level, k),
           NEW ref \in Members(os, k)
    PROVE  \E p \in 1 .. Len(level.fifo) :
              /\ level.fifo[p] = ref
              /\ \A i \in 1 .. Len(level.fifo) : level.fifo[i] = ref => i = p
              /\ Erased(level.fifo, ref) = RemoveAt(level.fifo, p)
<1>1. level.fifo \in Seq(Refs) /\ DOMAIN level.fifo = 1 .. Len(level.fifo)
  BY DEF LevelOK
<1>2. PICK p \in 1 .. Len(level.fifo) : level.fifo[p] = ref
  BY <1>1 DEF LevelOK, ToSet
<1>3. ASSUME NEW i \in 1 .. Len(level.fifo), level.fifo[i] = ref, i # p PROVE FALSE
  <2>1. os[ref].priority \in Nat
    BY BookAssumption DEF OrdersOK, Order, Members
  <2>2. i < p \/ p < i
    BY <1>3
  <2> QED BY <1>1, <1>2, <1>3, <2>1, <2>2 DEF LevelOK
<1>4. (CHOOSE i \in DOMAIN level.fifo : level.fifo[i] = ref) = p
  BY <1>1, <1>2, <1>3
<1> QED BY <1>2, <1>3, <1>4 DEF Erased

-----------------------------------------------------------------------------
(* Taking an order out of the book. *)

LEMMA ErasedFifo ==
    ASSUME NEW os, OrdersOK(os), NEW k, NEW level, LevelOK(os, level, k),
           NEW ref \in Members(os, k)
    PROVE  LET fifo == Erased(level.fifo, ref)
           IN  /\ fifo \in Seq(Refs) /\ Len(fifo) = Len(level.fifo) - 1
               /\ ToSet(fifo) = Members(os, k) \ {ref}
               /\ \A i, j \in DOMAIN fifo :
                     i < j => os[fifo[i]].priority < os[fifo[j]].priority
               /\ fifo = <<>> <=> level.fifo = <<ref>>
<1> DEFINE old == level.fifo
           fifo == Erased(level.fifo, ref)
<1>1. /\ old \in Seq(Refs) /\ ToSet(old) = Members(os, k) /\ Len(old) \in Nat
      /\ \A i, j \in 1 .. Len(old) : i < j => os[old[i]].priority < os[old[j]].priority
  BY DEF LevelOK
<1>2. PICK p \in 1 .. Len(old) : /\ old[p] = ref
                                 /\ \A i \in 1 .. Len(old) : old[i] = ref => i = p
                                 /\ fifo = RemoveAt(old, p)
  BY StandsOnce
<1> HIDE DEF old, fifo
<1>3. /\ fifo \in Seq(Refs) /\ Len(fifo) = Len(old) - 1 /\ DOMAIN fifo = 1 .. Len(old) - 1
      /\ \A j \in 1 .. Len(old) - 1 : fifo[j] = IF j < p THEN old[j] ELSE old[j + 1]
  <2>1. /\ RemoveAt(old, p) \in Seq(Refs) /\ Len(RemoveAt(old, p)) = Len(old) - 1
        /\ \A j \in 1 .. Len(old) - 1 :
              RemoveAt(old, p)[j] = IF j < p THEN old[j] ELSE old[j + 1]
    BY <1>1, RemovedAt
  <2> QED BY <1>2, <2>1
<1>4. ToSet(fifo) = ToSet(old) \ {ref}
  <2>1. ASSUME NEW j \in 1 .. Len(old) - 1 PROVE fifo[j] \in ToSet(old) \ {ref}
    <3>1. CASE j < p
      BY <1>1, <1>2, <1>3, <3>1 DEF ToSet
    <3>2. CASE ~(j < p)
      <4>1. j + 1 \in 1 .. Len(old) /\ j + 1 # p /\ fifo[j] = old[j + 1]
        BY <1>1, <1>3, <3>2
      <4> QED BY <1>1, <1>2, <4>1 DEF ToSet
    <3> QED BY <3>1, <3>2
  <2>2. ASSUME NEW i \in 1 .. Len(old), old[i] # ref PROVE old[i] \in ToSet(fifo)
    <3>1. CASE i < p
      <4>1. i \in 1 .. Len(old) - 1 /\ fifo[i] = old[i]
        BY <1>1, <1>3, <3>1
      <4> QED BY <1>3, <4>1 DEF ToSet
    <3>2. CASE ~(i < p)
      <4>1. i - 1 \in 1 .. Len(old) - 1 /\ fifo[i - 1] = old[i]
        BY <1>1, <1>2, <1>3, <2>2, <3>2
      <4> QED BY <1>3, <4>1 DEF ToSet
    <3> QED BY <3>1, <3>2
  <2> QED BY <1>1, <1>3, <2>1, <2>2 DEF ToSet
<1>5. ASSUME NEW i \in 1 .. Len(old) - 1, NEW j \in 1 .. Len(old) - 1, i < j
      PROVE  os[fifo[i]].priority < os[fifo[j]].priority
  <2> DEFINE from(n) == IF n < p THEN n ELSE n + 1
  <2>1. /\ from(i) \in 1 .. Len(old) /\ from(j) \in 1 .. Len(old) /\ from(i) < from(j)
        /\ fifo[i] = old[from(i)] /\ fifo[j] = old[from(j)]
    BY <1>1, <1>3, <1>5
  <2> QED BY <1>1, <2>1
<1>6. fifo = <<>> <=> old = <<ref>>
  <2>1. fifo = <<>> <=> Len(old) = 1
    BY <1>1, <1>3
  <2>2. Len(old) = 1 <=> old = <<ref>>
    <3>1. ASSUME Len(old) = 1 PROVE old = <<ref>>
      BY <1>1, <1>2, <3>1
    <3> QED BY <3>1
  <2> QED BY <2>1, <2>2
<1> QED BY <1>1, <1>3, <1>4, <1>5, <1>6 DEF old, fifo

LEMMA TakenOrders ==
    ASSUME NEW os, OrdersOK(os), NEW ref \in DOMAIN os
    PROVE  /\ OrdersOK(Without(os, ref))
           /\ DOMAIN Without(os, ref) = DOMAIN os \ {ref}
           /\ \A other \in DOMAIN os \ {ref} : Without(os, ref)[other] = os[other]
           /\ \A k : Members(Without(os, ref), k) = Members(os, k) \ {ref}
<1>1. /\ DOMAIN Without(os, ref) = DOMAIN os \ {ref}
      /\ \A other \in DOMAIN os \ {ref} : Without(os, ref)[other] = os[other]
  BY DEF Without
<1>2. OrdersOK(Without(os, ref))
  BY DEF OrdersOK, Without
<1>3. \A k : Members(Without(os, ref), k) = Members(os, k) \ {ref}
  BY <1>1 DEF Members, At
<1> QED BY <1>1, <1>2, <1>3

LEMMA TakenKeepsBook ==
    ASSUME NEW os, NEW ls, BookOK(os, ls), NEW ref \in DOMAIN os
    PROVE  BookOK(Without(os, ref), Taken(ls, At(os, ref), ref, os[ref].remaining))
<1> DEFINE k == At(os, ref)
           os2 == Without(os, ref)
           ls2 == Taken(ls, k, ref, os[ref].remaining)
           level == ls[k]
<1>1. /\ OrdersOK(os) /\ LevelsOK(os, ls) /\ k \in DOMAIN ls /\ LevelOK(os, level, k)
      /\ ref \in Members(os, k)
  BY DEF BookOK, LevelsOK, Members
<1>2. /\ OrdersOK(os2) /\ DOMAIN os2 = DOMAIN os \ {ref}
      /\ \A other \in DOMAIN os \ {ref} : os2[other] = os[other]
      /\ \A place : Members(os2, place) = Members(os, place) \ {ref}
  BY <1>1, TakenOrders
<1> DEFINE fifo == Erased(level.fifo, ref)
<1>3. /\ fifo \in Seq(Refs)
      /\ ToSet(fifo) = Members(os, k) \ {ref}
      /\ \A i, j \in DOMAIN fifo : i < j => os[fifo[i]].priority < os[fifo[j]].priority
      /\ fifo = <<>> <=> level.fifo = <<ref>>
  BY <1>1, ErasedFifo
<1> HIDE DEF k, os2, ls2, level, fifo
<1>4. ASSUME NEW place \in DOMAIN ls, place # k
      PROVE  LevelOK(os2, ls[place], place)
  <2>1. LevelOK(os, ls[place], place)
    BY <1>1 DEF LevelsOK
  <2>2. ref \notin Members(os, place)
    BY <1>4 DEF Members, k
  <2>3. \A other \in Members(os, place) : os2[other] = os[other]
    BY <1>2, <2>2 DEF Members
  <2> QED BY <1>1, <1>2, <2>1, <2>2, <2>3, LevelKept
<1>5. CASE level.fifo = <<ref>>
  <2>1. Members(os, k) = {ref}
    BY <1>1, <1>5 DEF LevelOK, ToSet
  <2>2. ls2 = Without(ls, k)
    BY <1>5 DEF ls2, Taken, level
  <2>3. DOMAIN ls2 = DOMAIN ls \ {k} /\ \A place \in DOMAIN ls2 : ls2[place] = ls[place]
    BY <2>2 DEF Without
  <2>4. DOMAIN ls2 = {At(os2, other) : other \in DOMAIN os2}
    <3>1. \A other \in DOMAIN os2 : At(os2, other) = At(os, other) /\ At(os, other) # k
      BY <1>2, <2>1 DEF At, Members
    <3>2. \A other \in DOMAIN os : At(os, other) # k => other \in DOMAIN os2
      BY <1>2 DEF k
    <3> QED BY <1>1, <1>2, <2>3, <3>1, <3>2 DEF LevelsOK
  <2> QED BY <1>2, <1>4, <2>3, <2>4 DEF BookOK, LevelsOK, k, os2, ls2
<1>6. CASE level.fifo # <<ref>>
  <2> DEFINE shares == os[ref].remaining
  <2>1. ls2 = [ls EXCEPT ![k].fifo = fifo, ![k].total = @ - shares]
    BY <1>6 DEF ls2, Taken, level, fifo
  <2>2. /\ DOMAIN ls2 = DOMAIN ls
        /\ \A place \in DOMAIN ls \ {k} : ls2[place] = ls[place]
        /\ ls2[k] = [level EXCEPT !.fifo = fifo, !.total = @ - shares]
    BY <1>1, <2>1 DEF level
  <2>3. level \in [total : Nat, fifo : Seq(Refs)]
    BY <1>1 DEF LevelOK
  <2>4. ls2[k].fifo = fifo /\ ls2[k].total = level.total - shares
    BY <2>2, <2>3
  <2>5. SumFunctionOnSet(Shares(os2), Members(os2, k)) = level.total - shares
    <3>1. Members(os, k) \in SUBSET DOMAIN os /\ Members(os2, k) \in SUBSET DOMAIN os
      BY <1>2 DEF Members
    <3>2. Summable(Shares(os), Members(os, k)) /\ Summable(Shares(os), Members(os2, k))
      BY <1>1, <3>1, SharesSum
    <3>3. SumFunctionOnSet(Shares(os), Members(os, k))
            = Shares(os)[ref] + SumFunctionOnSet(Shares(os), Members(os, k) \ {ref})
      BY <1>1, <3>2, SumRemove
    <3>4. \A other \in Members(os2, k) : Shares(os2)[other] = Shares(os)[other]
      BY <1>2 DEF Members, Shares
    <3>5. SumFunctionOnSet(Shares(os2), Members(os2, k))
            = SumFunctionOnSet(Shares(os), Members(os2, k))
      BY <3>2, <3>4, SumSame DEF Summable
    <3>6. Shares(os)[ref] = shares /\ shares \in Nat
      <4>1. {ref} \in SUBSET DOMAIN os
        OBVIOUS
      <4> QED BY <1>1, <4>1, SharesSum DEF Shares
    <3>7. level.total = SumFunctionOnSet(Shares(os), Members(os, k)) /\ level.total \in Nat
      BY <1>1 DEF LevelOK
    <3>8. SumFunctionOnSet(Shares(os), Members(os2, k)) \in Int
      BY <3>2, SumType
    <3>9. Members(os2, k) = Members(os, k) \ {ref}
      BY <1>2
    <3> HIDE DEF shares
    <3> QED BY <3>3, <3>5, <3>6, <3>7, <3>8, <3>9
  <2>6. SumFunctionOnSet(Shares(os2), Members(os2, k)) \in Nat /\ shares \in Nat
    <3>1. Members(os2, k) \in SUBSET DOMAIN os2
      BY DEF Members
    <3>2. {ref} \in SUBSET DOMAIN os
      OBVIOUS
    <3> QED BY <1>1, <1>2, <3>1, <3>2, SharesSum
  <2>7. level.total \in Nat /\ level.total <= MaxTotal
    BY <1>1 DEF LevelOK
  <2> HIDE DEF shares
  <2>8. ls2[k] \in [total : Nat, fifo : Seq(Refs)]
    <3>1. level.total - shares \in Nat
      BY <2>5, <2>6
    <3> QED BY <1>3, <2>2, <2>3, <3>1
  <2>9. \A i, j \in DOMAIN fifo : i < j => os2[fifo[i]].priority < os2[fifo[j]].priority
    <3>1. \A i \in DOMAIN fifo : fifo[i] \in ToSet(fifo)
      BY DEF ToSet
    <3>2. \A i \in DOMAIN fifo : os2[fifo[i]] = os[fifo[i]]
      BY <1>2, <1>3, <3>1 DEF Members
    <3> QED BY <1>3, <3>2
  <2>10. LevelOK(os2, ls2[k], k)
    <3>1. MaxTotal \in Nat
      BY BookAssumption
    <3>2. level.total - shares <= MaxTotal
      BY <2>6, <2>7, <3>1
    <3> QED BY <1>2, <1>3, <2>4, <2>5, <2>8, <2>9, <3>2 DEF LevelOK
  <2>11. DOMAIN ls2 = {At(os2, other) : other \in DOMAIN os2}
    <3>1. \A other \in DOMAIN os2 : At(os2, other) = At(os, other)
      BY <1>2 DEF At
    <3>2. PICK other \in DOMAIN os2 : At(os, other) = k
      <4>1. Members(os, k) \ {ref} # {}
        <5>1. fifo # <<>> /\ fifo \in Seq(Refs)
          BY <1>3, <1>6
        <5>2. 1 \in DOMAIN fifo
          BY <5>1
        <5> QED BY <1>3, <5>2 DEF ToSet
      <4> QED BY <1>2, <4>1 DEF Members
    <3>3. DOMAIN os = DOMAIN os2 \cup {ref} /\ At(os, ref) = k
      BY <1>2 DEF k
    <3> QED BY <1>1, <2>2, <3>1, <3>2, <3>3 DEF LevelsOK
  <2> QED BY <1>2, <1>4, <2>2, <2>10, <2>11 DEF BookOK, LevelsOK, k, os2, ls2
<1> QED BY <1>5, <1>6 DEF k, os2, ls2
-----------------------------------------------------------------------------
(* Queueing an order. *)

\* What stands at a place, also when there is no level.
LEMMA PlaceFacts ==
    ASSUME NEW os, NEW ls, BookOK(os, ls), NEW k
    PROVE  /\ Fifo(ls, k) \in Seq(Refs) /\ ToSet(Fifo(ls, k)) = Members(os, k)
           /\ \A i, j \in 1 .. Len(Fifo(ls, k)) :
                 i < j => os[Fifo(ls, k)[i]].priority < os[Fifo(ls, k)[j]].priority
           /\ Total(ls, k) = SumFunctionOnSet(Shares(os), Members(os, k))
           /\ Total(ls, k) \in Nat
<1>1. CASE k \in DOMAIN ls
  <2>1. LevelOK(os, ls[k], k)
    BY <1>1 DEF BookOK, LevelsOK
  <2> QED BY <1>1, <2>1 DEF LevelOK, Fifo, Total
<1>2. CASE k \notin DOMAIN ls
  <2>1. Members(os, k) = {}
    BY <1>2 DEF BookOK, LevelsOK, Members
  <2> QED BY <1>2, <2>1, SumEmpty DEF Fifo, Total, ToSet
<1> QED BY <1>1, <1>2

LEMMA QueuedOrders ==
    ASSUME NEW os, OrdersOK(os), NEW ref \in Refs \ DOMAIN os, NEW o \in Order
    PROVE  LET os2 == With(os, ref, o)
           IN  /\ OrdersOK(os2) /\ DOMAIN os2 = DOMAIN os \cup {ref} /\ os2[ref] = o
               /\ \A other \in DOMAIN os : os2[other] = os[other]
               /\ \A k : Members(os2, k) = IF k = <<o.side, o.price>>
                                           THEN Members(os, k) \cup {ref}
                                           ELSE Members(os, k)
<1> DEFINE os2 == With(os, ref, o)
<1>1. /\ DOMAIN os2 = DOMAIN os \cup {ref} /\ os2[ref] = o
      /\ \A other \in DOMAIN os : os2[other] = os[other]
      /\ os2 = [x \in DOMAIN os2 |-> os2[x]]
  BY DEF With
<1> HIDE DEF os2
<1>2. OrdersOK(os2)
  BY <1>1 DEF OrdersOK
<1>3. \A k : Members(os2, k) = IF k = <<o.side, o.price>> THEN Members(os, k) \cup {ref}
                                                         ELSE Members(os, k)
  BY <1>1 DEF Members, At
<1> QED BY <1>1, <1>2, <1>3 DEF os2

LEMMA QueuedKeepsBook ==
    ASSUME NEW os, NEW ls, BookOK(os, ls), NEW ref \in Refs \ DOMAIN os, NEW o \in Order,
           NEW k, k = <<o.side, o.price>>,
           \A other \in Members(os, k) : os[other].priority < o.priority,
           Total(ls, k) + o.remaining <= MaxTotal
    PROVE  BookOK(With(os, ref, o), Queued(ls, k, ref, o.remaining))
<1> DEFINE os2 == With(os, ref, o)
           ls2 == Queued(ls, k, ref, o.remaining)
           old == Fifo(ls, k)
           fifo == Append(old, ref)
<1>1. OrdersOK(os) /\ LevelsOK(os, ls)
  BY DEF BookOK
<1>2. /\ OrdersOK(os2) /\ DOMAIN os2 = DOMAIN os \cup {ref} /\ os2[ref] = o
      /\ \A other \in DOMAIN os : os2[other] = os[other]
      /\ \A place : Members(os2, place) = IF place = k THEN Members(os, place) \cup {ref}
                                          ELSE Members(os, place)
  BY <1>1, QueuedOrders
<1>3. /\ DOMAIN ls2 = DOMAIN ls \cup {k}
      /\ ls2[k].total = Total(ls, k) + o.remaining /\ ls2[k].fifo = fifo
      /\ ls2[k] = [total |-> ls2[k].total, fifo |-> ls2[k].fifo]
      /\ \A place \in DOMAIN ls \ {k} : ls2[place] = ls[place]
  <2>1. ls2[k] = [total |-> Total(ls, k) + o.remaining, fifo |-> fifo]
    BY DEF Queued, With
  <2>2. /\ DOMAIN ls2 = DOMAIN ls \cup {k}
        /\ \A place \in DOMAIN ls \ {k} : ls2[place] = ls[place]
    BY DEF Queued, With
  <2> HIDE DEF ls2
  <2> QED BY <2>1, <2>2
<1>4. /\ old \in Seq(Refs) /\ ToSet(old) = Members(os, k) /\ Len(old) \in Nat
      /\ \A i, j \in 1 .. Len(old) : i < j => os[old[i]].priority < os[old[j]].priority
      /\ Total(ls, k) = SumFunctionOnSet(Shares(os), Members(os, k))
      /\ Total(ls, k) \in Nat
  BY PlaceFacts
<1> HIDE DEF os2, ls2, old, fifo
<1>5. /\ fifo \in Seq(Refs) /\ Len(fifo) = Len(old) + 1 /\ fifo[Len(old) + 1] = ref
      /\ \A i \in 1 .. Len(old) : fifo[i] = old[i]
      /\ ToSet(fifo) = ToSet(old) \cup {ref}
  BY <1>4, Appended DEF fifo
<1>6. o.remaining \in Nat
  BY BookAssumption DEF Order
<1>6a. \A i \in 1 .. Len(old) : old[i] \in Members(os, k)
  <2>1. DOMAIN old = 1 .. Len(old)
    BY <1>4
  <2>2. \A i \in 1 .. Len(old) : old[i] \in ToSet(old)
    BY <2>1 DEF ToSet
  <2> QED BY <1>4, <2>2
<1>7. ASSUME NEW place \in DOMAIN ls, place # k
      PROVE  LevelOK(os2, ls2[place], place)
  <2>1. LevelOK(os, ls[place], place) /\ ls2[place] = ls[place]
    BY <1>1, <1>3, <1>7 DEF LevelsOK
  <2>2. Members(os2, place) = Members(os, place)
    BY <1>2, <1>7
  <2>3. \A other \in Members(os, place) : os2[other] = os[other]
    BY <1>2 DEF Members
  <2> QED BY <1>1, <2>1, <2>2, <2>3, LevelKept
<1>8. LevelOK(os2, ls2[k], k)
  <2>1. Members(os2, k) = Members(os, k) \cup {ref} /\ ref \notin Members(os, k)
    BY <1>2 DEF Members
  <2>2. SumFunctionOnSet(Shares(os2), Members(os2, k)) = Total(ls, k) + o.remaining
    <3>1. Members(os2, k) \in SUBSET DOMAIN os2 /\ Members(os, k) \in SUBSET DOMAIN os
      BY DEF Members
    <3>2. /\ Summable(Shares(os2), Members(os2, k)) /\ Summable(Shares(os), Members(os, k))
      BY <1>1, <1>2, <3>1, SharesSum
    <3>3. Members(os2, k) \ {ref} = Members(os, k) /\ ref \in Members(os2, k)
      BY <2>1
    <3>4. SumFunctionOnSet(Shares(os2), Members(os2, k))
            = Shares(os2)[ref] + SumFunctionOnSet(Shares(os2), Members(os, k))
      BY <3>2, <3>3, SumRemove
    <3>5. \A other \in Members(os, k) : Shares(os2)[other] = Shares(os)[other]
      BY <1>2, <3>1 DEF Shares
    <3>6. SumFunctionOnSet(Shares(os2), Members(os, k))
            = SumFunctionOnSet(Shares(os), Members(os, k))
      BY <3>2, <3>5, SumSame DEF Summable
    <3>7. Shares(os2)[ref] = o.remaining
      BY <1>2 DEF Shares
    <3> QED BY <1>4, <1>6, <3>4, <3>6, <3>7
  <2>3. ASSUME NEW i \in 1 .. Len(old) + 1, NEW j \in 1 .. Len(old) + 1, i < j
        PROVE  os2[fifo[i]].priority < os2[fifo[j]].priority
    <3>1. i \in 1 .. Len(old) /\ fifo[i] = old[i] /\ old[i] \in Members(os, k)
      <4>1. i \in 1 .. Len(old)
        BY <1>4, <2>3
      <4> QED BY <1>5, <1>6a, <4>1
    <3>2. os2[fifo[i]] = os[old[i]]
      BY <1>2, <3>1 DEF Members
    <3>3. CASE j = Len(old) + 1
      BY <1>2, <1>5, <3>1, <3>2, <3>3
    <3>4. CASE j # Len(old) + 1
      <4>1. j \in 1 .. Len(old) /\ fifo[j] = old[j] /\ old[j] \in Members(os, k)
        <5>1. j \in 1 .. Len(old)
          BY <1>4, <3>4
        <5> QED BY <1>5, <1>6a, <5>1
      <4>2. os2[fifo[j]] = os[old[j]]
        BY <1>2, <4>1 DEF Members
      <4> QED BY <1>4, <2>3, <3>1, <3>2, <4>1, <4>2
    <3> QED BY <3>3, <3>4
  <2>4. ls2[k] \in [total : Nat, fifo : Seq(Refs)]
    <3>1. Total(ls, k) + o.remaining \in Nat
      BY <1>4, <1>6
    <3> QED BY <1>3, <1>5, <3>1
  <2>5. DOMAIN fifo = 1 .. Len(old) + 1
    BY <1>5
  <2> QED BY <1>3, <1>4, <1>5, <2>1, <2>2, <2>3, <2>4, <2>5 DEF LevelOK
<1>9. DOMAIN ls2 = {At(os2, other) : other \in DOMAIN os2}
  <2>1. At(os2, ref) = k /\ \A other \in DOMAIN os : At(os2, other) = At(os, other)
    BY <1>2 DEF At
  <2> QED BY <1>1, <1>2, <1>3, <2>1 DEF LevelsOK
<1> QED BY <1>2, <1>3, <1>7, <1>8, <1>9 DEF BookOK, LevelsOK, os2, ls2

-----------------------------------------------------------------------------
(* Reducing an order where it stands. *)

LEMMA ReducedKeepsBook ==
    ASSUME NEW os, NEW ls, BookOK(os, ls), NEW ref \in DOMAIN os,
           NEW shares \in Nat \ {0}, shares < os[ref].remaining
    PROVE  BookOK([os EXCEPT ![ref].remaining = @ - shares],
                  [ls EXCEPT ![At(os, ref)].total = @ - shares])
<1> DEFINE k == At(os, ref)
           os2 == [os EXCEPT ![ref].remaining = @ - shares]
           ls2 == [ls EXCEPT ![k].total = @ - shares]
<1>1. /\ OrdersOK(os) /\ LevelsOK(os, ls) /\ k \in DOMAIN ls /\ LevelOK(os, ls[k], k)
      /\ ref \in Members(os, k) /\ os[ref] \in Order
  BY DEF BookOK, LevelsOK, OrdersOK, Members
<1>2. /\ DOMAIN os2 = DOMAIN os /\ os2[ref] = [os[ref] EXCEPT !.remaining = @ - shares]
      /\ \A other \in DOMAIN os \ {ref} : os2[other] = os[other]
      /\ os2 = [x \in DOMAIN os2 |-> os2[x]]
  OBVIOUS
<1>3. /\ os2[ref] \in Order /\ os2[ref].remaining = os[ref].remaining - shares
      /\ os2[ref].side = os[ref].side /\ os2[ref].price = os[ref].price
      /\ os2[ref].priority = os[ref].priority
      /\ os[ref].remaining \in Nat /\ os2[ref].remaining \in Nat
  <2>1. os[ref].remaining \in Nat /\ os[ref].remaining <= MaxShares /\ MaxShares \in Nat
    BY <1>1, BookAssumption DEF Order
  <2>2. os[ref].remaining - shares \in 1 .. MaxShares
    BY <2>1
  <2> QED BY <1>1, <1>2, <2>1, <2>2 DEF Order
<1>4. /\ DOMAIN ls2 = DOMAIN ls /\ ls2[k] = [ls[k] EXCEPT !.total = @ - shares]
      /\ \A place \in DOMAIN ls \ {k} : ls2[place] = ls[place]
  BY <1>1
<1> HIDE DEF k, os2, ls2
<1>5. OrdersOK(os2)
  BY <1>1, <1>2, <1>3 DEF OrdersOK
<1>6. /\ \A other \in DOMAIN os : At(os2, other) = At(os, other)
      /\ \A place : Members(os2, place) = Members(os, place)
      /\ \A other \in DOMAIN os : os2[other].priority = os[other].priority
  <2>1. \A other \in DOMAIN os : /\ At(os2, other) = At(os, other)
                                 /\ os2[other].priority = os[other].priority
    BY <1>2, <1>3 DEF At
  <2> QED BY <1>2, <2>1 DEF Members
<1>7. ASSUME NEW place \in DOMAIN ls, place # k
      PROVE  LevelOK(os2, ls2[place], place)
  <2>1. LevelOK(os, ls[place], place) /\ ls2[place] = ls[place]
    BY <1>1, <1>4, <1>7 DEF LevelsOK
  <2>2. \A other \in Members(os, place) : os2[other] = os[other]
    BY <1>2, <1>7 DEF Members, k
  <2>3. Members(os2, place) = Members(os, place)
    BY <1>6
  <2> QED BY <1>1, <2>1, <2>2, <2>3, LevelKept
<1>8. LevelOK(os2, ls2[k], k)
  <2>1. /\ ls[k] \in [total : Nat, fifo : Seq(Refs)] /\ ToSet(ls[k].fifo) = Members(os, k)
        /\ ls[k].total = SumFunctionOnSet(Shares(os), Members(os, k))
        /\ ls[k].total <= MaxTotal /\ ls[k].total \in Nat
    BY <1>1 DEF LevelOK
  <2>2. ls2[k].fifo = ls[k].fifo /\ ls2[k].total = ls[k].total - shares
    BY <1>4, <2>1
  <2>3. SumFunctionOnSet(Shares(os2), Members(os, k)) = ls[k].total - shares
    <3>1. Members(os, k) \in SUBSET DOMAIN os /\ Members(os, k) \in SUBSET DOMAIN os2
      BY <1>2 DEF Members
    <3>2. Summable(Shares(os), Members(os, k)) /\ Summable(Shares(os2), Members(os, k))
      BY <1>1, <1>5, <3>1, SharesSum
    <3>3. \A other \in Members(os, k) \ {ref} : Shares(os2)[other] = Shares(os)[other]
      BY <1>2, <3>1 DEF Shares
    <3>4. SumFunctionOnSet(Shares(os2), Members(os, k))
            = SumFunctionOnSet(Shares(os), Members(os, k))
                + (Shares(os2)[ref] - Shares(os)[ref])
      BY <1>1, <3>2, <3>3, SumChange
    <3>5. Shares(os2)[ref] = os[ref].remaining - shares /\ Shares(os)[ref] = os[ref].remaining
      BY <1>2, <1>3 DEF Shares
    <3> QED BY <1>3, <2>1, <3>4, <3>5
  <2>4. SumFunctionOnSet(Shares(os2), Members(os, k)) \in Nat
    <3>1. Members(os, k) \in SUBSET DOMAIN os2
      BY <1>2 DEF Members
    <3> QED BY <1>5, <3>1, SharesSum
  <2>5. ls2[k] \in [total : Nat, fifo : Seq(Refs)]
    BY <1>4, <2>1, <2>3, <2>4
  <2>6. ls[k].total - shares <= MaxTotal
    BY <2>1, BookAssumption
  <2>7. \A i, j \in DOMAIN ls[k].fifo :
            i < j => os2[ls[k].fifo[i]].priority < os2[ls[k].fifo[j]].priority
    <3>1. \A i \in DOMAIN ls[k].fifo : ls[k].fifo[i] \in DOMAIN os
      BY <2>1 DEF ToSet, Members
    <3> QED BY <1>1, <1>6, <3>1 DEF LevelOK
  <2>8. Members(os2, k) = Members(os, k)
    BY <1>6
  <2> QED BY <2>1, <2>2, <2>3, <2>5, <2>6, <2>7, <2>8 DEF LevelOK
<1>9. DOMAIN ls2 = {At(os2, other) : other \in DOMAIN os2}
  BY <1>1, <1>2, <1>4, <1>6 DEF LevelsOK
<1> QED BY <1>4, <1>5, <1>7, <1>8, <1>9 DEF BookOK, LevelsOK, k, os2, ls2
-----------------------------------------------------------------------------
(* The steps of the book. *)

\* A message that follows the tail of a level follows every order of it.
LEMMA FollowsAll ==
    ASSUME BookOK(orders, levels), NEW k, NEW index \in Nat, NEW leaving,
           FollowsTail(k, index, leaving),
           leaving \in Members(orders, k) => orders[leaving].priority < index
    PROVE  \A ref \in Members(orders, k) : orders[ref].priority < index
<1> DEFINE fifo == Fifo(levels, k)
<1>1. /\ fifo \in Seq(Refs) /\ ToSet(fifo) = Members(orders, k)
      /\ \A i, j \in 1 .. Len(fifo) :
            i < j => orders[fifo[i]].priority < orders[fifo[j]].priority
      /\ Len(fifo) \in Nat /\ DOMAIN fifo = 1 .. Len(fifo)
  BY PlaceFacts
<1>2. FollowsTail(k, index, leaving)
        <=> \A ref \in (IF fifo = <<>> THEN {} ELSE {Last(fifo)}) \ {leaving} :
                orders[ref].priority < index
  BY DEF FollowsTail
<1> HIDE DEF fifo
<1>3. ASSUME NEW ref \in Members(orders, k) PROVE orders[ref].priority < index
  <2>1. PICK i \in 1 .. Len(fifo) : fifo[i] = ref
    BY <1>1 DEF ToSet
  <2>2. Len(fifo) \in 1 .. Len(fifo) /\ fifo # <<>> /\ Last(fifo) = fifo[Len(fifo)]
    BY <1>1, <2>1 DEF Last
  <2>3. Last(fifo) \in Members(orders, k)
    BY <1>1, <2>2 DEF ToSet
  <2>4. orders[Last(fifo)].priority < index
    BY <1>2, <2>2, <2>3
  <2>5. orders[ref].priority \in Nat /\ orders[Last(fifo)].priority \in Nat
    BY <2>3, BookAssumption DEF BookOK, OrdersOK, Order, Members
  <2>6. i = Len(fifo) \/ i < Len(fifo)
    <3>1. Len(fifo) \in Nat
      BY <1>1
    <3> QED BY <3>1
  <2>7. CASE i = Len(fifo)
    BY <2>1, <2>2, <2>4, <2>7
  <2>8. CASE i < Len(fifo)
    <3>1. orders[ref].priority < orders[Last(fifo)].priority
      BY <1>1, <2>1, <2>2, <2>8
    <3> QED BY <2>4, <2>5, <3>1
  <2> QED BY <2>6, <2>7, <2>8
<1> QED BY <1>3

\* An order joins a place of a book behind all the orders there.
JoinsBehind(os, ls, k, ref, o) ==
    /\ k = <<o.side, o.price>>
    /\ ref \in Refs \ DOMAIN os
    /\ \A other \in Members(os, k) : os[other].priority < o.priority
    /\ Total(ls, k) + o.remaining <= MaxTotal
    /\ orders' = With(os, ref, o)
    /\ levels' = Queued(ls, k, ref, o.remaining)

LEMMA JoinsBehindKeeps ==
    ASSUME NEW os, NEW ls, BookOK(os, ls), NEW k, NEW ref, NEW o \in Order,
           JoinsBehind(os, ls, k, ref, o)
    PROVE  BookOK(orders, levels)'
<1>1. BookOK(With(os, ref, o), Queued(ls, k, ref, o.remaining))
  BY QueuedKeepsBook DEF JoinsBehind
<1> QED BY <1>1 DEF JoinsBehind

LEMMA AddJoins ==
    ASSUME BookOK(orders, levels), NEW index \in 1 .. MaxIndex, NEW ref \in Refs,
           NEW side \in Sides, NEW shares, NEW price \in Prices,
           Add(index, ref, side, shares, price)
    PROVE  \E o \in Order : JoinsBehind(orders, levels, <<side, price>>, ref, o)
<1> DEFINE o == [side |-> side, price |-> price, remaining |-> shares, priority |-> index]
           k == <<side, price>>
<1>1. /\ o \in Order /\ o.remaining = shares /\ o.priority = index /\ index \in Nat
      /\ k = <<o.side, o.price>>
  BY BookAssumption DEF Add, Order
<1>2. ref \notin Members(orders, k) /\ ref \in Refs \ DOMAIN orders
  BY DEF Add, Live, Members
<1>3. FollowsTail(k, index, ref)
  BY DEF Add
<1>4. \A other \in Members(orders, k) : orders[other].priority < index
  <2> HIDE DEF k
  <2> QED BY <1>1, <1>2, <1>3, FollowsAll
<1>5. /\ Total(levels, k) + shares <= MaxTotal
      /\ orders' = With(orders, ref, o) /\ levels' = Queued(levels, k, ref, shares)
  BY DEF Add
<1> HIDE DEF o, k
<1>6. JoinsBehind(orders, levels, k, ref, o)
  BY <1>1, <1>2, <1>4, <1>5 DEF JoinsBehind
<1> QED BY <1>1, <1>6 DEF k

LEMMA AddKeeps ==
    ASSUME BookOK(orders, levels), NEW index \in 1 .. MaxIndex, NEW ref \in Refs,
           NEW side \in Sides, NEW shares, NEW price \in Prices,
           Add(index, ref, side, shares, price)
    PROVE  BookOK(orders, levels)'
<1>1. PICK o \in Order : JoinsBehind(orders, levels, <<side, price>>, ref, o)
  BY AddJoins
<1> QED BY <1>1, JoinsBehindKeeps

LEMMA ReductionKeeps ==
    ASSUME BookOK(orders, levels), NEW index, NEW ref, NEW shares,
           Reduction(index, ref, shares)
    PROVE  BookOK(orders, levels)'
<1>1. /\ ref \in DOMAIN orders /\ shares \in 1 .. orders[ref].remaining
      /\ Place(ref) = At(orders, ref) /\ orders[ref].remaining \in Nat
  BY BookAssumption DEF Reduction, Live, Place, At, BookOK, OrdersOK, Order
<1>2. CASE shares < orders[ref].remaining
  <2>1. BookOK([orders EXCEPT ![ref].remaining = @ - shares],
               [levels EXCEPT ![At(orders, ref)].total = @ - shares])
    BY <1>1, <1>2, ReducedKeepsBook
  <2> QED BY <1>1, <1>2, <2>1 DEF Reduction
<1>3. CASE ~(shares < orders[ref].remaining)
  <2>1. shares = orders[ref].remaining
    BY <1>1, <1>3
  <2>2. BookOK(Without(orders, ref), Taken(levels, At(orders, ref), ref, shares))
    BY <1>1, <2>1, TakenKeepsBook
  <2> QED BY <1>1, <1>3, <2>2 DEF Reduction
<1> QED BY <1>2, <1>3

LEMMA DeleteKeeps ==
    ASSUME BookOK(orders, levels), NEW index, NEW ref, Delete(index, ref)
    PROVE  BookOK(orders, levels)'
<1>1. ref \in DOMAIN orders /\ Place(ref) = At(orders, ref)
  BY DEF Delete, Live, Place, At
<1>2. BookOK(Without(orders, ref), Taken(levels, At(orders, ref), ref, orders[ref].remaining))
  BY <1>1, TakenKeepsBook
<1> QED BY <1>1, <1>2 DEF Delete

\* The aggregate a place has left when an order is taken out.
LEMMA TakenTotal ==
    ASSUME NEW os, NEW ls, BookOK(os, ls), NEW ref \in DOMAIN os, NEW k
    PROVE  Total(Taken(ls, At(os, ref), ref, os[ref].remaining), k)
             = Total(ls, k) - (IF k = At(os, ref) THEN os[ref].remaining ELSE 0)
<1> DEFINE os2 == Without(os, ref)
           ls2 == Taken(ls, At(os, ref), ref, os[ref].remaining)
           rest == Members(os2, k)
<1>1. BookOK(os2, ls2) /\ OrdersOK(os)
  BY TakenKeepsBook DEF BookOK
<1>2. /\ DOMAIN os2 = DOMAIN os \ {ref} /\ Members(os2, k) = Members(os, k) \ {ref}
      /\ \A other \in DOMAIN os \ {ref} : os2[other] = os[other]
  BY <1>1, TakenOrders
<1> HIDE DEF os2, ls2
<1>3. /\ Total(ls2, k) = SumFunctionOnSet(Shares(os2), rest)
      /\ Total(ls, k) = SumFunctionOnSet(Shares(os), Members(os, k))
      /\ Total(ls2, k) \in Nat /\ Total(ls, k) \in Nat
  BY <1>1, PlaceFacts
<1>4. /\ rest \in SUBSET DOMAIN os /\ Members(os, k) \in SUBSET DOMAIN os
      /\ {ref} \in SUBSET DOMAIN os
  BY <1>2 DEF Members
<1>5. /\ Summable(Shares(os), rest) /\ Summable(Shares(os), Members(os, k))
      /\ os[ref].remaining \in Nat
  BY <1>1, <1>4, SharesSum
<1>6. SumFunctionOnSet(Shares(os2), rest) = SumFunctionOnSet(Shares(os), rest)
  <2>1. \A other \in rest : Shares(os2)[other] = Shares(os)[other]
    BY <1>2 DEF Members, Shares
  <2> QED BY <1>5, <2>1, SumSame DEF Summable
<1>7. CASE k = At(os, ref)
  <2>1. ref \in Members(os, k)
    BY <1>7 DEF Members
  <2>2. SumFunctionOnSet(Shares(os), Members(os, k))
          = Shares(os)[ref] + SumFunctionOnSet(Shares(os), Members(os, k) \ {ref})
    BY <1>5, <2>1, SumRemove
  <2>3. Shares(os)[ref] = os[ref].remaining
    BY DEF Shares
  <2>4. Total(ls, k) = os[ref].remaining + Total(ls2, k)
    BY <1>2, <1>3, <1>6, <2>2, <2>3
  <2>5. Total(ls2, k) = Total(ls, k) - os[ref].remaining
    BY <1>3, <1>5, <2>4
  <2> QED BY <1>7, <2>5 DEF ls2
<1>8. CASE k # At(os, ref)
  <2>1. ref \notin Members(os, k)
    BY <1>8 DEF Members
  <2>2. rest = Members(os, k)
    BY <1>2, <2>1
  <2>3. Total(ls2, k) = Total(ls, k) /\ Total(ls, k) - 0 = Total(ls, k)
    BY <1>3, <1>6, <2>2
  <2> QED BY <1>8, <2>3 DEF ls2
<1> QED BY <1>7, <1>8

\* The book without an order.
RestOrders(ref) == Without(orders, ref)
RestLevels(ref) == Taken(levels, At(orders, ref), ref, orders[ref].remaining)

\* A replacement is a take and then a queueing behind all that is left.
LEMMA ReplaceJoins ==
    ASSUME BookOK(orders, levels), NEW index \in 1 .. MaxIndex, NEW old, NEW new \in Refs,
           NEW shares, NEW price \in Prices, Replace(index, old, new, shares, price)
    PROVE  /\ old \in DOMAIN orders /\ new \notin DOMAIN orders
           /\ BookOK(RestOrders(old), RestLevels(old))
           /\ \E o \in Order : JoinsBehind(RestOrders(old), RestLevels(old),
                                           <<orders[old].side, price>>, new, o)
<1> DEFINE k == At(orders, old)
           target == <<orders[old].side, price>>
           os == Without(orders, old)
           ls == Taken(levels, k, old, orders[old].remaining)
           o == [side |-> orders[old].side, price |-> price, remaining |-> shares,
                 priority |-> index]
           kept == IF k = target THEN orders[old].remaining ELSE 0
<1>1. /\ old \in DOMAIN orders /\ new \notin DOMAIN orders
      /\ index > orders[old].priority /\ shares \in 1 .. MaxShares
      /\ OrdersOK(orders) /\ orders[old] \in Order
  BY DEF Replace, Live, BookOK, OrdersOK
<1>2. /\ (Total(levels, target) - kept) + shares <= MaxTotal
      /\ FollowsTail(target, index, old)
      /\ levels' = Queued(ls, target, new, shares)
      /\ orders' = With(os, new, o)
  BY DEF Replace, Requeued, Place, At
<1>3. /\ BookOK(os, ls) /\ DOMAIN os = DOMAIN orders \ {old}
      /\ \A other \in DOMAIN orders \ {old} : os[other] = orders[other]
      /\ Members(os, target) = Members(orders, target) \ {old}
  BY <1>1, TakenKeepsBook, TakenOrders
<1>4. /\ o \in Order /\ o.remaining = shares /\ o.priority = index
      /\ target = <<o.side, o.price>>
  BY <1>1 DEF Order
<1>5. Total(ls, target) = Total(levels, target) - kept
  <2> HIDE DEF target
  <2>1. Total(ls, target)
          = Total(levels, target)
              - (IF target = At(orders, old) THEN orders[old].remaining ELSE 0)
    BY <1>1, TakenTotal
  <2> QED BY <2>1
<1>6. \A other \in Members(orders, target) : orders[other].priority < index
  <2> HIDE DEF target
  <2>1. index \in Nat /\ orders[old].priority \in Nat
    BY <1>1, BookAssumption DEF Order
  <2>2. orders[old].priority < index
    BY <1>1, <2>1
  <2> QED BY <1>2, <2>1, <2>2, FollowsAll
<1>7. \A other \in Members(os, target) : os[other].priority < index
  BY <1>3, <1>6 DEF Members
<1>8. os = RestOrders(old) /\ ls = RestLevels(old)
  BY DEF RestOrders, RestLevels
<1> HIDE DEF k, os, ls, kept, target, o
<1>9. JoinsBehind(os, ls, target, new, o)
  BY <1>1, <1>2, <1>3, <1>4, <1>5, <1>7 DEF JoinsBehind
<1> QED BY <1>1, <1>3, <1>4, <1>8, <1>9 DEF target

LEMMA ReplaceKeeps ==
    ASSUME BookOK(orders, levels), NEW index \in 1 .. MaxIndex, NEW old, NEW new \in Refs,
           NEW shares, NEW price \in Prices, Replace(index, old, new, shares, price)
    PROVE  BookOK(orders, levels)'
<1>1. PICK o \in Order : JoinsBehind(RestOrders(old), RestLevels(old),
                                    <<orders[old].side, price>>, new, o)
  BY ReplaceJoins
<1>2. BookOK(RestOrders(old), RestLevels(old))
  BY ReplaceJoins
<1> QED BY <1>1, <1>2, JoinsBehindKeeps

LEMMA BookStarts == Init => BookOK(orders, levels)
<1> SUFFICES ASSUME Init PROVE BookOK(orders, levels)
  OBVIOUS
<1>1. DOMAIN orders = {} /\ DOMAIN levels = {} /\ orders = [x \in {} |-> orders[x]]
  BY DEF Init
<1> QED BY <1>1 DEF BookOK, OrdersOK, LevelsOK

LEMMA BookKept == ASSUME BookOK(orders, levels), [Next]_vars PROVE BookOK(orders, levels)'
<1>1. CASE UNCHANGED vars
  BY <1>1 DEF vars, BookOK
<1>2. ASSUME NEW index \in 1 .. MaxIndex, Message(index) PROVE BookOK(orders, levels)'
  BY <1>2, AddKeeps, ReductionKeeps, DeleteKeeps, ReplaceKeeps DEF Message
<1> QED BY <1>1, <1>2 DEF Next

(* What check_invariants recomputes holds after every message, for any      *)
(* references, prices and limits: the levels hold each live order once, at  *)
(* its side and price and in source priority, with exact aggregates.        *)
THEOREM BookInvariant == Spec => []BookInv
<1> QED BY BookStarts, BookKept, BookOKIsBookInv, PTL DEF Spec
-----------------------------------------------------------------------------
(* The best prices. *)

BestOrder(side, prices, q) ==
    /\ q \in [1 .. Cardinality(prices) -> prices]
    /\ ToSet(q) = prices
    /\ \A i, j \in DOMAIN q : i < j => Better(side, q[i], q[j])

LEMMA BestOrderExists ==
    ASSUME NEW side \in Sides, NEW prices, prices \subseteq Int, IsFiniteSet(prices)
    PROVE  BestOrder(side, prices, BestFirst(side, prices))
<1>1. PICK n \in Nat : n = Cardinality(prices)
  BY FS_CardinalityType
<1>2. PICK p : Ascends(p, prices)
  BY AscendingExists
<1>3. /\ p \in [1 .. n -> prices] /\ DOMAIN p = 1 .. n
      /\ \A x \in prices : \E i \in 1 .. n : p[i] = x
      /\ \A i, j \in 1 .. n : i < j => p[i] < p[j]
  BY <1>1, <1>2 DEF Ascends
<1>4. CASE side # "buy"
  <2>1. BestOrder(side, prices, p)
    BY <1>1, <1>3, <1>4 DEF BestOrder, ToSet, Better
  <2> QED BY <2>1 DEF BestOrder, BestFirst
<1>5. CASE side = "buy"
  <2> DEFINE q == [i \in 1 .. n |-> p[n + 1 - i]]
  <2>1. ASSUME NEW i \in 1 .. n PROVE n + 1 - i \in 1 .. n /\ n + 1 - (n + 1 - i) = i
    OBVIOUS
  <2>2. q \in [1 .. n -> prices]
    BY <1>3, <2>1
  <2>3. ToSet(q) = prices
    <3>1. ASSUME NEW x \in prices PROVE \E i \in 1 .. n : q[i] = x
      <4>1. PICK j \in 1 .. n : p[j] = x
        BY <1>3
      <4>2. n + 1 - j \in 1 .. n /\ q[n + 1 - j] = x
        BY <2>1, <4>1
      <4> QED BY <4>2
    <3> HIDE DEF q
    <3> QED BY <2>2, <3>1 DEF ToSet
  <2>4. ASSUME NEW i \in 1 .. n, NEW j \in 1 .. n, i < j PROVE q[i] > q[j]
    <3>1. /\ n + 1 - i \in 1 .. n /\ n + 1 - j \in 1 .. n /\ n + 1 - j < n + 1 - i
          /\ q[i] = p[n + 1 - i] /\ q[j] = p[n + 1 - j]
      BY <2>1, <2>4
    <3>2. p[n + 1 - j] < p[n + 1 - i] /\ q[i] \in prices /\ q[j] \in prices
      BY <1>3, <3>1
    <3>3. \A x \in prices : x \in Int
      OBVIOUS
    <3> HIDE DEF q
    <3> QED BY <3>1, <3>2, <3>3
  <2> HIDE DEF q
  <2>5. BestOrder(side, prices, q)
    BY <1>1, <1>5, <2>2, <2>3, <2>4 DEF BestOrder, Better
  <2> QED BY <2>5 DEF BestOrder, BestFirst
<1> QED BY <1>4, <1>5

LEMMA BookShowsBest == BookOK(orders, levels) => BestIsBest
<1> SUFFICES ASSUME BookOK(orders, levels), NEW side \in Sides
             PROVE  LET mine == {ref \in Live : orders[ref].side = side}
                        top == TopLevels(side, 1)
                    IN  IF mine = {} THEN top = <<>>
                        ELSE /\ \A ref \in mine :
                                   IF side = "buy" THEN orders[ref].price <= top[1].price
                                   ELSE orders[ref].price >= top[1].price
                             /\ top[1].quantity
                                  = Quantity({ref \in mine : orders[ref].price = top[1].price})
  BY DEF BestIsBest
<1> DEFINE mine == {ref \in Live : orders[ref].side = side}
           prices == {k[2] : k \in {k \in DOMAIN levels : k[1] = side}}
           best == BestFirst(side, prices)
           top == TopLevels(side, 1)
<1>1. /\ OrdersOK(orders) /\ LevelsOK(orders, levels)
      /\ \A ref \in Live : /\ ref \in Refs /\ orders[ref].price \in Prices
                           /\ orders[ref].price \in Int
  BY BookAssumption DEF BookOK, OrdersOK, Order, Live
<1>2. prices = {orders[ref].price : ref \in mine}
  <2>1. \A k \in DOMAIN levels : \E ref \in Live : k = <<orders[ref].side, orders[ref].price>>
    BY <1>1 DEF LevelsOK, At, Live
  <2>2. \A ref \in Live : <<orders[ref].side, orders[ref].price>> \in DOMAIN levels
    BY <1>1 DEF LevelsOK, At, Live
  <2>3. ASSUME NEW x \in prices PROVE \E ref \in mine : x = orders[ref].price
    <3>1. PICK k \in DOMAIN levels : k[1] = side /\ k[2] = x
      OBVIOUS
    <3>2. PICK ref \in Live : k = <<orders[ref].side, orders[ref].price>>
      BY <2>1
    <3> QED BY <3>1, <3>2
  <2>4. ASSUME NEW ref \in mine PROVE orders[ref].price \in prices
    <3> DEFINE k == <<orders[ref].side, orders[ref].price>>
    <3>1. k \in DOMAIN levels /\ k[1] = side /\ k[2] = orders[ref].price
      BY <2>2
    <3> HIDE DEF k
    <3> QED BY <3>1
  <2> HIDE DEF prices, mine
  <2> QED BY <2>3, <2>4
<1>3. IsFiniteSet(prices) /\ prices \subseteq Int
  <2> DEFINE onto == [ref \in mine |-> orders[ref].price]
  <2>1. IsFiniteSet(mine)
    BY <1>1, FS_Subset, BookAssumption DEF OrdersOK, Live
  <2>2. onto \in Surjection(mine, prices)
    <3>1. onto \in [mine -> prices] /\ \A x \in prices : \E ref \in mine : onto[ref] = x
      BY <1>2
    <3> HIDE DEF onto, mine, prices
    <3> QED BY <3>1 DEF Surjection
  <2>3. prices \subseteq Int
    BY <1>1, <1>2
  <2> HIDE DEF onto, mine, prices
  <2> QED BY <2>1, <2>2, <2>3, FS_Surjection
<1>4. BestOrder(side, prices, best)
  <2> HIDE DEF prices
  <2> QED BY <1>3, BestOrderExists
<1>5. top = [i \in 1 .. Min({1, Len(best)}) |->
                [price |-> best[i], quantity |-> levels[<<side, best[i]>>].total]]
  BY DEF TopLevels
<1> HIDE DEF prices, best, top
<1>6. PICK n \in Nat : n = Cardinality(prices)
  BY <1>3, FS_CardinalityType
<1>7. /\ best \in [1 .. n -> prices] /\ Len(best) = n
      /\ \A x \in prices : \E i \in 1 .. n : best[i] = x
      /\ \A i, j \in 1 .. n : i < j => Better(side, best[i], best[j])
  BY <1>4, <1>6 DEF BestOrder, ToSet
<1>8. CASE mine = {}
  <2>1. prices = {} /\ n = 0
    BY <1>2, <1>6, <1>8, FS_EmptySet
  <2>2. Min({1, Len(best)}) = 0
    BY <1>7, <2>1 DEF Min
  <2>3. top = <<>>
    <3>1. DOMAIN top = 1 .. 0 /\ top = [i \in DOMAIN top |-> top[i]]
      BY <1>5, <2>2
    <3>2. \A i \in 1 .. 0 : top[i] \in {}
      OBVIOUS
    <3>3. top \in Seq({}) /\ Len(top) = 0
      BY <3>1, <3>2
    <3> QED BY <3>3, EmptySeq
  <2> QED BY <1>8, <2>3 DEF top
<1>9. CASE mine # {}
  <2>1. prices # {} /\ n >= 1
    <3>1. prices # {}
      BY <1>2, <1>9
    <3> QED BY <1>3, <1>6, <3>1, FS_EmptySet
  <2>2. Min({1, Len(best)}) = 1
    <3>1. Len(best) \in Nat /\ Len(best) >= 1
      BY <1>7, <2>1
    <3> QED BY <3>1 DEF Min
  <2>3. top[1] = [price |-> best[1], quantity |-> levels[<<side, best[1]>>].total]
    BY <1>5, <2>2
  <2>4. best[1] \in prices /\ best[1] \in Int
    <3>1. 1 \in 1 .. n /\ \A x \in prices : x \in Int
      BY <1>3, <2>1
    <3> QED BY <1>7, <3>1
  <2>5. ASSUME NEW ref \in mine
        PROVE  IF side = "buy" THEN orders[ref].price <= best[1]
               ELSE orders[ref].price >= best[1]
    <3>1. orders[ref].price \in prices /\ orders[ref].price \in Int
      BY <1>1, <1>2
    <3>2. PICK i \in 1 .. n : best[i] = orders[ref].price
      BY <1>7, <3>1
    <3>3. i = 1 \/ Better(side, best[1], best[i])
      BY <1>7, <2>1
    <3> QED BY <2>4, <3>1, <3>2, <3>3 DEF Better
  <2> DEFINE k == <<side, best[1]>>
             shown == {ref \in mine : orders[ref].price = best[1]}
  <2>6. k \in DOMAIN levels
    <3>1. PICK ref \in mine : best[1] = orders[ref].price
      BY <1>2, <2>4
    <3> QED BY <1>1, <3>1 DEF LevelsOK, At, Live
  <2>7. levels[k].total = Quantity(shown)
    <3>1. LevelOK(orders, levels[k], k)
      BY <1>1, <2>6 DEF LevelsOK
    <3>2. Members(orders, k) = shown
      BY DEF Members, At, Live
    <3> HIDE DEF k, shown
    <3> QED BY <3>1, <3>2 DEF LevelOK, Quantity, Shares, Live
  <2>8. top[1].price = best[1] /\ top[1].quantity = levels[k].total
    BY <2>3
  <2> QED BY <1>9, <2>5, <2>7, <2>8 DEF top
<1> QED BY <1>8, <1>9

(* The first level top_levels reports is at the best price of any live      *)
(* order of the side and shows all their shares, in every reachable book.   *)
THEOREM BookBestIsBest == Spec => []BestIsBest
<1> QED BY BookStarts, BookKept, BookShowsBest, PTL DEF Spec

-----------------------------------------------------------------------------
(* Price-time priority: what each change of the maps does to the queues.    *)

View(os, ls) ==
    [k \in Sides \X Prices |->
        [i \in DOMAIN Fifo(ls, k) |->
            [ref |-> Fifo(ls, k)[i], remaining |-> os[Fifo(ls, k)[i]].remaining]]]

Entries == [ref : Refs, remaining : 1 .. MaxShares]

LEMMA ViewFacts ==
    ASSUME NEW os, NEW ls, BookOK(os, ls), NEW k \in Sides \X Prices
    PROVE  /\ View(os, ls)[k] \in Seq(Entries) /\ Len(View(os, ls)[k]) = Len(Fifo(ls, k))
           /\ DOMAIN View(os, ls)[k] = 1 .. Len(Fifo(ls, k))
           /\ \A i \in 1 .. Len(Fifo(ls, k)) :
                 /\ View(os, ls)[k][i] = [ref |-> Fifo(ls, k)[i],
                                          remaining |-> os[Fifo(ls, k)[i]].remaining]
                 /\ Fifo(ls, k)[i] \in Members(os, k)
<1> DEFINE fifo == Fifo(ls, k)
<1>1. /\ fifo \in Seq(Refs) /\ ToSet(fifo) = Members(os, k) /\ Len(fifo) \in Nat
      /\ DOMAIN fifo = 1 .. Len(fifo)
  BY PlaceFacts
<1>2. View(os, ls)[k] = [i \in DOMAIN fifo |-> [ref |-> fifo[i], remaining |-> os[fifo[i]].remaining]]
  BY DEF View
<1> HIDE DEF fifo
<1>3. ASSUME NEW i \in 1 .. Len(fifo)
      PROVE  /\ fifo[i] \in Members(os, k)
             /\ [ref |-> fifo[i], remaining |-> os[fifo[i]].remaining] \in Entries
  <2>1. fifo[i] \in Members(os, k) /\ fifo[i] \in Refs
    BY <1>1 DEF ToSet
  <2>2. os[fifo[i]].remaining \in 1 .. MaxShares
    BY <2>1 DEF Members, BookOK, OrdersOK, Order
  <2> QED BY <2>1, <2>2 DEF Entries
<1>4. View(os, ls)[k] \in [1 .. Len(fifo) -> Entries]
  BY <1>1, <1>2, <1>3
<1> QED BY <1>1, <1>2, <1>3, <1>4 DEF fifo

LEMMA PlacesAre ==
    ASSUME NEW os, NEW ls, BookOK(os, ls), NEW ref \in DOMAIN os
    PROVE  /\ At(os, ref) \in Sides \X Prices /\ At(os, ref) \in DOMAIN ls
           /\ Fifo(ls, At(os, ref)) = ls[At(os, ref)].fifo
           /\ LevelOK(os, ls[At(os, ref)], At(os, ref)) /\ ref \in Members(os, At(os, ref))
<1>1. At(os, ref) \in Sides \X Prices
  BY DEF BookOK, OrdersOK, Order, At
<1> QED BY <1>1 DEF BookOK, LevelsOK, Members, Fifo

LEMMA TakenView ==
    ASSUME NEW os, NEW ls, BookOK(os, ls), NEW ref \in DOMAIN os
    PROVE  \E p \in DOMAIN View(os, ls)[At(os, ref)] :
              View(Without(os, ref), Taken(ls, At(os, ref), ref, os[ref].remaining))
                = [View(os, ls) EXCEPT ![At(os, ref)] = RemoveAt(@, p)]
<1> DEFINE k == At(os, ref)
           os2 == Without(os, ref)
           ls2 == Taken(ls, k, ref, os[ref].remaining)
           fifo == Fifo(ls, k)
           old == View(os, ls)
           new == View(os2, ls2)
<1>1. /\ k \in Sides \X Prices /\ k \in DOMAIN ls /\ fifo = ls[k].fifo
      /\ LevelOK(os, ls[k], k) /\ ref \in Members(os, k) /\ OrdersOK(os)
  BY PlacesAre DEF BookOK
<1>2. PICK p \in 1 .. Len(fifo) :
           /\ fifo[p] = ref
           /\ \A i \in 1 .. Len(fifo) : fifo[i] = ref => i = p
           /\ Erased(fifo, ref) = RemoveAt(fifo, p)
  <2> HIDE DEF k, fifo
  <2> QED BY <1>1, StandsOnce
<1>3. BookOK(os2, ls2)
  BY TakenKeepsBook
<1>4. \A other \in DOMAIN os \ {ref} : os2[other] = os[other]
  BY DEF Without
<1>5. Fifo(ls2, k) = RemoveAt(fifo, p) /\ \A place : place # k => Fifo(ls2, place) = Fifo(ls, place)
  <2>1. CASE fifo = <<ref>>
    <3>1. ls2 = Without(ls, k)
      BY <1>1, <2>1 DEF Taken
    <3>2. /\ Fifo(ls2, k) = <<>>
          /\ \A place : place # k => Fifo(ls2, place) = Fifo(ls, place)
      BY <3>1 DEF Without, Fifo
    <3>3. RemoveAt(fifo, p) = <<>>
      <4> DEFINE level == ls[k]
      <4>1. LevelOK(os, level, k) /\ level.fifo = fifo /\ OrdersOK(os)
        BY <1>1
      <4> HIDE DEF k, fifo, level
      <4>2. Erased(level.fifo, ref) = <<>> <=> level.fifo = <<ref>>
        BY <1>1, <4>1, ErasedFifo
      <4> QED BY <1>2, <2>1, <4>1, <4>2
    <3> QED BY <3>2, <3>3
  <2>2. CASE fifo # <<ref>>
    <3>1. ls2 = [ls EXCEPT ![k].fifo = Erased(@, ref), ![k].total = @ - os[ref].remaining]
      BY <1>1, <2>2 DEF Taken
    <3>2. ls[k] \in [total : Nat, fifo : Seq(Refs)]
      BY <1>1 DEF LevelOK
    <3>3. DOMAIN ls2 = DOMAIN ls /\ ls2[k].fifo = Erased(ls[k].fifo, ref)
      BY <1>1, <3>1, <3>2
    <3>4. \A place \in DOMAIN ls : place # k => ls2[place] = ls[place]
      BY <3>1
    <3> HIDE DEF ls2
    <3> QED BY <1>1, <1>2, <3>3, <3>4 DEF Fifo
  <2> QED BY <2>1, <2>2
<1> HIDE DEF k, os2, ls2, fifo, old, new
<1>6. /\ old[k] \in Seq(Entries) /\ Len(old[k]) = Len(fifo) /\ DOMAIN old[k] = 1 .. Len(fifo)
      /\ \A i \in 1 .. Len(fifo) :
            /\ old[k][i] = [ref |-> fifo[i], remaining |-> os[fifo[i]].remaining]
            /\ fifo[i] \in Members(os, k)
  BY <1>1, ViewFacts DEF fifo, old
<1>7. /\ fifo \in Seq(Refs) /\ Len(fifo) \in Nat
  BY <1>1 DEF LevelOK
<1>8. /\ RemoveAt(fifo, p) \in Seq(Refs) /\ Len(RemoveAt(fifo, p)) = Len(fifo) - 1
      /\ \A j \in 1 .. Len(fifo) - 1 :
            RemoveAt(fifo, p)[j] = IF j < p THEN fifo[j] ELSE fifo[j + 1]
  BY <1>7, RemovedAt
<1>9. /\ RemoveAt(old[k], p) \in Seq(Entries) /\ Len(RemoveAt(old[k], p)) = Len(fifo) - 1
      /\ \A j \in 1 .. Len(fifo) - 1 :
            RemoveAt(old[k], p)[j] = IF j < p THEN old[k][j] ELSE old[k][j + 1]
  <2>1. p \in 1 .. Len(old[k])
    BY <1>6
  <2> QED BY <1>6, <2>1, RemovedAt
<1>10. /\ new[k] \in Seq(Entries) /\ Len(new[k]) = Len(fifo) - 1
       /\ \A j \in 1 .. Len(fifo) - 1 :
             new[k][j] = [ref |-> RemoveAt(fifo, p)[j],
                          remaining |-> os2[RemoveAt(fifo, p)[j]].remaining]
  <2>1. Len(Fifo(ls2, k)) = Len(fifo) - 1
    BY <1>5, <1>8
  <2> QED BY <1>1, <1>3, <1>5, <2>1, ViewFacts DEF new
<1>11. new[k] = RemoveAt(old[k], p)
  <2>1. ASSUME NEW j \in 1 .. Len(fifo) - 1 PROVE new[k][j] = RemoveAt(old[k], p)[j]
    <3> DEFINE i == IF j < p THEN j ELSE j + 1
    <3>1. i \in 1 .. Len(fifo) /\ i # p
      BY <1>7
    <3>2. RemoveAt(fifo, p)[j] = fifo[i] /\ RemoveAt(old[k], p)[j] = old[k][i]
      BY <1>8, <1>9
    <3> HIDE DEF i
    <3>3. fifo[i] \in DOMAIN os \ {ref}
      BY <1>2, <1>6, <3>1 DEF Members
    <3>4. os2[fifo[i]] = os[fifo[i]]
      BY <1>4, <3>3
    <3>5. new[k][j] = [ref |-> fifo[i], remaining |-> os2[fifo[i]].remaining]
      BY <1>10, <3>2
    <3>6. old[k][i] = [ref |-> fifo[i], remaining |-> os[fifo[i]].remaining]
      BY <1>6, <3>1
    <3> QED BY <3>2, <3>4, <3>5, <3>6
  <2> QED BY <1>9, <1>10, <2>1, SequencesEqual
<1>12. \A place \in Sides \X Prices : place # k => new[place] = old[place]
  <2> SUFFICES ASSUME NEW place \in Sides \X Prices, place # k PROVE new[place] = old[place]
    OBVIOUS
  <2>1. Fifo(ls2, place) = Fifo(ls, place)
    BY <1>5
  <2>2. ASSUME NEW i \in DOMAIN Fifo(ls, place)
        PROVE  os2[Fifo(ls, place)[i]] = os[Fifo(ls, place)[i]]
    <3>1. Fifo(ls, place)[i] \in Members(os, place)
      BY PlaceFacts DEF ToSet
    <3> QED BY <1>4, <3>1 DEF Members, k
  <2> QED BY <2>1, <2>2 DEF new, old, View
<1>13. new = [old EXCEPT ![k] = RemoveAt(@, p)]
  <2>1. /\ old = [place \in Sides \X Prices |-> old[place]]
        /\ new = [place \in Sides \X Prices |-> new[place]]
    BY DEF old, new, View
  <2> QED BY <1>1, <1>11, <1>12, <2>1
<1> QED BY <1>6, <1>13 DEF k, os2, ls2, old, new
LEMMA QueuedView ==
    ASSUME NEW os, NEW ls, BookOK(os, ls), NEW ref \in Refs \ DOMAIN os, NEW o \in Order,
           NEW k, k \in Sides \X Prices,
           BookOK(With(os, ref, o), Queued(ls, k, ref, o.remaining))
    PROVE  View(With(os, ref, o), Queued(ls, k, ref, o.remaining))
             = [View(os, ls) EXCEPT ![k] =
                   Append(@, [ref |-> ref, remaining |-> o.remaining])]
<1> DEFINE os2 == With(os, ref, o)
           ls2 == Queued(ls, k, ref, o.remaining)
           fifo == Fifo(ls, k)
           old == View(os, ls)
           new == View(os2, ls2)
           entry == [ref |-> ref, remaining |-> o.remaining]
<1>1. k \in Sides \X Prices /\ o.remaining \in 1 .. MaxShares
  BY DEF Order
<1>2. /\ os2[ref] = o /\ \A other \in DOMAIN os : os2[other] = os[other]
  BY DEF With
<1>3. /\ Fifo(ls2, k) = Append(fifo, ref)
      /\ \A place : place # k => Fifo(ls2, place) = Fifo(ls, place)
  BY DEF Queued, With, Fifo
<1>4. entry \in Entries /\ entry.ref = ref
  BY <1>1 DEF Entries
<1>5. fifo \in Seq(Refs) /\ Len(fifo) \in Nat
  BY PlaceFacts
<1>6. BookOK(os2, ls2)
  OBVIOUS
<1> HIDE DEF os2, ls2, fifo, old, new, entry
<1>7. /\ old[k] \in Seq(Entries) /\ Len(old[k]) = Len(fifo)
      /\ \A i \in 1 .. Len(fifo) :
            /\ old[k][i] = [ref |-> fifo[i], remaining |-> os[fifo[i]].remaining]
            /\ fifo[i] \in Members(os, k)
  BY <1>1, ViewFacts DEF fifo, old
<1>8. /\ Append(fifo, ref) \in Seq(Refs) /\ Len(Append(fifo, ref)) = Len(fifo) + 1
      /\ Append(fifo, ref)[Len(fifo) + 1] = ref
      /\ \A i \in 1 .. Len(fifo) : Append(fifo, ref)[i] = fifo[i]
  BY <1>5, Appended
<1>9. /\ Append(old[k], entry) \in Seq(Entries)
      /\ Len(Append(old[k], entry)) = Len(fifo) + 1
      /\ Append(old[k], entry)[Len(fifo) + 1] = entry
      /\ \A i \in 1 .. Len(fifo) : Append(old[k], entry)[i] = old[k][i]
  BY <1>4, <1>7, Appended
<1>10. /\ new[k] \in Seq(Entries) /\ Len(new[k]) = Len(fifo) + 1
       /\ \A j \in 1 .. Len(fifo) + 1 :
             new[k][j] = [ref |-> Append(fifo, ref)[j],
                          remaining |-> os2[Append(fifo, ref)[j]].remaining]
  <2> DEFINE joined == Append(fifo, ref)
  <2>1. Fifo(ls2, k) = joined /\ Len(joined) = Len(fifo) + 1
    BY <1>3, <1>8
  <2>2. new = View(os2, ls2)
    BY DEF new
  <2> HIDE DEF joined
  <2>3. /\ new[k] \in Seq(Entries) /\ Len(new[k]) = Len(Fifo(ls2, k))
        /\ \A j \in 1 .. Len(Fifo(ls2, k)) :
              new[k][j] = [ref |-> Fifo(ls2, k)[j],
                           remaining |-> os2[Fifo(ls2, k)[j]].remaining]
    BY ONLY <1>1, <1>6, <2>2, ViewFacts
  <2>4. /\ new[k] \in Seq(Entries) /\ Len(new[k]) = Len(joined)
        /\ \A j \in 1 .. Len(joined) :
              new[k][j] = [ref |-> joined[j], remaining |-> os2[joined[j]].remaining]
    BY ONLY <2>1, <2>3
  <2> QED BY ONLY <2>1, <2>4 DEF joined
<1>11. new[k] = Append(old[k], entry)
  <2>1. ASSUME NEW j \in 1 .. Len(fifo) + 1 PROVE new[k][j] = Append(old[k], entry)[j]
    <3>1. CASE j = Len(fifo) + 1
      <4>1. new[k][j] = [ref |-> ref, remaining |-> os2[ref].remaining]
        BY <1>8, <1>10, <3>1
      <4> QED BY <1>2, <1>9, <3>1, <4>1 DEF entry
    <3>2. CASE j # Len(fifo) + 1
      <4>1. j \in 1 .. Len(fifo)
        BY <1>5, <3>2
      <4>2. new[k][j] = [ref |-> fifo[j], remaining |-> os2[fifo[j]].remaining]
        BY <1>8, <1>10, <4>1
      <4>3. os2[fifo[j]] = os[fifo[j]]
        BY <1>2, <1>7, <4>1 DEF Members
      <4>4. old[k][j] = [ref |-> fifo[j], remaining |-> os[fifo[j]].remaining]
        BY <1>7, <4>1
      <4> QED BY <1>9, <4>1, <4>2, <4>3, <4>4
    <3> QED BY <3>1, <3>2
  <2> QED BY <1>9, <1>10, <2>1, SequencesEqual
<1>12. \A place \in Sides \X Prices : place # k => new[place] = old[place]
  <2> SUFFICES ASSUME NEW place \in Sides \X Prices, place # k PROVE new[place] = old[place]
    OBVIOUS
  <2>1. Fifo(ls2, place) = Fifo(ls, place)
    BY <1>3
  <2>2. ASSUME NEW i \in DOMAIN Fifo(ls, place)
        PROVE  os2[Fifo(ls, place)[i]] = os[Fifo(ls, place)[i]]
    <3>1. Fifo(ls, place)[i] \in Members(os, place)
      BY PlaceFacts DEF ToSet
    <3> QED BY <1>2, <3>1 DEF Members
  <2> QED BY <2>1, <2>2 DEF new, old, View
<1>13. /\ old = [place \in Sides \X Prices |-> old[place]]
       /\ new = [place \in Sides \X Prices |-> new[place]]
  BY DEF old, new, View
<1>14. new = [old EXCEPT ![k] = Append(@, entry)]
  BY <1>1, <1>11, <1>12, <1>13
<1> QED BY <1>14 DEF os2, ls2, old, new, entry

ReducedOrders(os, ref, shares) == [os EXCEPT ![ref].remaining = @ - shares]
ReducedLevels(os, ls, ref, shares) == [ls EXCEPT ![At(os, ref)].total = @ - shares]
ReducedQueues(queues, k, p, shares) == [queues EXCEPT ![k][p].remaining = @ - shares]

LEMMA ReducedView ==
    ASSUME NEW os, NEW ls, BookOK(os, ls), NEW ref \in DOMAIN os, NEW shares \in Nat
    PROVE  \E p \in DOMAIN View(os, ls)[At(os, ref)] :
              /\ View(os, ls)[At(os, ref)][p].remaining = os[ref].remaining
              /\ View(ReducedOrders(os, ref, shares), ReducedLevels(os, ls, ref, shares))
                   = ReducedQueues(View(os, ls), At(os, ref), p, shares)
<1> DEFINE k == At(os, ref)
           os2 == [os EXCEPT ![ref].remaining = @ - shares]
           ls2 == [ls EXCEPT ![k].total = @ - shares]
           fifo == Fifo(ls, k)
           old == View(os, ls)
           new == View(os2, ls2)
<1>1. /\ k \in Sides \X Prices /\ k \in DOMAIN ls /\ fifo = ls[k].fifo
      /\ LevelOK(os, ls[k], k) /\ ref \in Members(os, k) /\ OrdersOK(os)
      /\ os[ref] \in Order
  BY PlacesAre DEF BookOK, OrdersOK
<1>2. PICK p \in 1 .. Len(fifo) :
           fifo[p] = ref /\ \A i \in 1 .. Len(fifo) : fifo[i] = ref => i = p
  <2> DEFINE level == ls[k]
  <2>1. LevelOK(os, level, k) /\ level.fifo = fifo
    BY <1>1
  <2> HIDE DEF k, fifo, level
  <2> QED BY <1>1, <2>1, StandsOnce
<1>3. /\ \A other \in DOMAIN os \ {ref} : os2[other] = os[other]
      /\ os2[ref].remaining = os[ref].remaining - shares
  BY <1>1 DEF Order
<1>4. \A place : Fifo(ls2, place) = Fifo(ls, place)
  <2>1. ls[k] \in [total : Nat, fifo : Seq(Refs)]
    BY <1>1 DEF LevelOK
  <2>2. DOMAIN ls2 = DOMAIN ls /\ ls2[k].fifo = ls[k].fifo
    BY <1>1, <2>1
  <2>3. \A place \in DOMAIN ls : place # k => ls2[place] = ls[place]
    OBVIOUS
  <2> HIDE DEF ls2
  <2> QED BY <2>2, <2>3 DEF Fifo
<1> HIDE DEF k, os2, ls2, fifo, old, new
<1>5. /\ DOMAIN old[k] = 1 .. Len(fifo)
      /\ old[k] = [i \in DOMAIN old[k] |-> old[k][i]]
      /\ \A i \in 1 .. Len(fifo) :
            /\ old[k][i] = [ref |-> fifo[i], remaining |-> os[fifo[i]].remaining]
            /\ fifo[i] \in Members(os, k)
  <2>1. fifo \in Seq(Refs)
    BY <1>1 DEF LevelOK
  <2>2. old[k] = [i \in DOMAIN fifo |-> [ref |-> fifo[i], remaining |-> os[fifo[i]].remaining]]
    BY <1>1 DEF old, View, fifo
  <2> QED BY <1>1, <2>1, <2>2, ViewFacts DEF fifo, old
<1>6. new[k] = [i \in 1 .. Len(fifo) |->
                   [ref |-> fifo[i], remaining |-> os2[fifo[i]].remaining]]
  <2>1. DOMAIN fifo = 1 .. Len(fifo)
    BY <1>1 DEF LevelOK
  <2>2. Fifo(ls2, k) = fifo
    BY <1>4 DEF fifo
  <2> QED BY <1>1, <2>1, <2>2 DEF new, View
<1>7. new[k] = [old[k] EXCEPT ![p].remaining = @ - shares]
  <2> DEFINE changed == [old[k] EXCEPT ![p].remaining = @ - shares]
  <2>1. /\ DOMAIN changed = 1 .. Len(fifo) /\ changed = [i \in 1 .. Len(fifo) |-> changed[i]]
    BY <1>5
  <2>2. ASSUME NEW i \in 1 .. Len(fifo) PROVE new[k][i] = changed[i]
    <3>1. CASE i = p
      <4>1. new[k][i] = [ref |-> ref, remaining |-> os[ref].remaining - shares]
        BY <1>2, <1>3, <1>6, <3>1
      <4>2. old[k][i] = [ref |-> ref, remaining |-> os[ref].remaining]
        BY <1>2, <1>5, <3>1
      <4>3. changed[i] = [old[k][i] EXCEPT !.remaining = @ - shares]
        BY <1>5, <3>1
      <4> QED BY <4>1, <4>2, <4>3
    <3>2. CASE i # p
      <4>1. fifo[i] \in DOMAIN os \ {ref}
        BY <1>2, <1>5, <3>2 DEF Members
      <4>2. changed[i] = old[k][i]
        BY <1>5, <3>2
      <4> QED BY <1>3, <1>5, <1>6, <4>1, <4>2
    <3> QED BY <3>1, <3>2
  <2> HIDE DEF changed
  <2>3. new[k] = [i \in 1 .. Len(fifo) |-> new[k][i]]
    BY <1>6
  <2>4. new[k] = changed
    BY <2>1, <2>2, <2>3
  <2> QED BY <2>4 DEF changed
<1>8. \A place \in Sides \X Prices : place # k => new[place] = old[place]
  <2> SUFFICES ASSUME NEW place \in Sides \X Prices, place # k PROVE new[place] = old[place]
    OBVIOUS
  <2>1. Fifo(ls2, place) = Fifo(ls, place)
    BY <1>4
  <2>2. ASSUME NEW i \in DOMAIN Fifo(ls, place)
        PROVE  os2[Fifo(ls, place)[i]] = os[Fifo(ls, place)[i]]
    <3>1. Fifo(ls, place)[i] \in Members(os, place)
      BY PlaceFacts DEF ToSet
    <3> QED BY <1>3, <3>1 DEF Members, k
  <2> QED BY <2>1, <2>2 DEF new, old, View
<1>9. /\ old = [place \in Sides \X Prices |-> old[place]]
      /\ new = [place \in Sides \X Prices |-> new[place]]
  BY DEF old, new, View
<1>10. new = ReducedQueues(old, k, p, shares)
  <2> DEFINE queue == [old[k] EXCEPT ![p].remaining = @ - shares]
  <2>1. ReducedQueues(old, k, p, shares) = [old EXCEPT ![k] = queue]
    BY <1>1, <1>9 DEF ReducedQueues
  <2> HIDE DEF queue
  <2>2. new[k] = queue
    BY <1>7 DEF queue
  <2> QED BY <1>1, <1>8, <1>9, <2>1, <2>2
<1>11. p \in DOMAIN old[k] /\ old[k][p].remaining = os[ref].remaining
  <2>1. old[k][p] = [ref |-> fifo[p], remaining |-> os[fifo[p]].remaining]
    BY <1>5
  <2> QED BY <1>2, <1>5, <2>1
<1>12. os2 = ReducedOrders(os, ref, shares) /\ ls2 = ReducedLevels(os, ls, ref, shares)
  BY DEF os2, ls2, k, ReducedOrders, ReducedLevels
<1> QED BY <1>10, <1>11, <1>12 DEF k, old, new

Left(queues, k, i) == [queues EXCEPT ![k] = RemoveAt(@, i)]
Joined(queues, k, ref, n) ==
    [queues EXCEPT ![k] = Append(@, [ref |-> ref, remaining |-> n])]

\* The steps of PriceTimeBook, said of the view of the maps.
LEMMA PromiseSteps ==
    ASSUME NEW k, NEW i, NEW n, NEW ref
    PROVE  /\ Promise!Places = Sides \X Prices
           /\ ref \notin Promise!Live
                /\ View(orders, levels)' = [View(orders, levels) EXCEPT ![k] =
                                             Append(@, [ref |-> ref, remaining |-> n])]
              => Promise!Join(k, ref, n)
           /\ View(orders, levels)' = [View(orders, levels) EXCEPT ![k] = RemoveAt(@, i)]
              => Promise!Leave(k, i)
           /\ n < View(orders, levels)[k][i].remaining
                /\ View(orders, levels)' = ReducedQueues(View(orders, levels), k, i, n)
              => Promise!Reduce(k, i, n)
           /\ \A price :
                /\ ref \notin Promise!Live
                /\ View(orders, levels)'
                     = Joined(Left(View(orders, levels), k, i), <<k[1], price>>, ref, n)
                => Promise!Requeue(k, i, price, ref, n)
<1>1. Promise!Places = Sides \X Prices
  BY DEF Promise!Places
<1>2. ASSUME ref \notin Promise!Live,
             View(orders, levels)' = [View(orders, levels) EXCEPT ![k] =
                                        Append(@, [ref |-> ref, remaining |-> n])]
      PROVE  Promise!Join(k, ref, n)
  BY <1>2, Zenon DEF Promise!Join, Promise!Entry, View
<1>3. ASSUME View(orders, levels)' = [View(orders, levels) EXCEPT ![k] = RemoveAt(@, i)]
      PROVE  Promise!Leave(k, i)
  BY <1>3, Zenon DEF Promise!Leave, View, RemoveAt, Promise!RemoveAt
<1>4. ASSUME n < View(orders, levels)[k][i].remaining,
             View(orders, levels)' = ReducedQueues(View(orders, levels), k, i, n)
      PROVE  Promise!Reduce(k, i, n)
  BY <1>4, Zenon DEF Promise!Reduce, ReducedQueues, View
<1>5. ASSUME NEW price, ref \notin Promise!Live,
             View(orders, levels)'
               = Joined(Left(View(orders, levels), k, i), <<k[1], price>>, ref, n)
      PROVE  Promise!Requeue(k, i, price, ref, n)
  BY <1>5, Zenon DEF Promise!Requeue, Promise!Entry, View, Left, Joined, RemoveAt, Promise!RemoveAt
<1> QED BY <1>1, <1>2, <1>3, <1>4, <1>5

\* The queues of PriceTimeBook are the view of the maps.
LEMMA PromiseLive ==
    BookOK(orders, levels) => \A ref \in Promise!Live : ref \in DOMAIN orders
<1> SUFFICES ASSUME BookOK(orders, levels), NEW ref \in Promise!Live
             PROVE  ref \in DOMAIN orders
  OBVIOUS
<1>1. PICK k \in Sides \X Prices : \E i \in DOMAIN View(orders, levels)[k] :
                                      View(orders, levels)[k][i].ref = ref
  BY DEF Promise!Live, Promise!Places, View
<1>2. PICK i \in DOMAIN View(orders, levels)[k] : View(orders, levels)[k][i].ref = ref
  BY <1>1
<1>3. ref \in Members(orders, k)
  <2> DEFINE queue == View(orders, levels)[k]
             fifo == Fifo(levels, k)
  <2>1. /\ DOMAIN queue = 1 .. Len(fifo)
        /\ \A j \in 1 .. Len(fifo) :
              /\ queue[j] = [ref |-> fifo[j], remaining |-> orders[fifo[j]].remaining]
              /\ fifo[j] \in Members(orders, k)
    <3>1. BookOK(orders, levels) /\ k \in Sides \X Prices
      OBVIOUS
    <3> QED BY ONLY <3>1, ViewFacts
  <2>2. i \in DOMAIN queue /\ queue[i].ref = ref
    BY <1>2
  <2> HIDE DEF queue, fifo
  <2>3. queue[i] = [ref |-> fifo[i], remaining |-> orders[fifo[i]].remaining]
    BY <2>1, <2>2
  <2> QED BY <2>1, <2>2, <2>3
<1> QED BY <1>3 DEF Members

LEMMA JoinIsStep ==
    ASSUME BookOK(orders, levels), NEW k, NEW ref, NEW o \in Order,
           JoinsBehind(orders, levels, k, ref, o)
    PROVE  \E n \in 1 .. MaxShares : k \in Promise!Places /\ Promise!Join(k, ref, n)
<1>1. View(orders, levels)'
        = [View(orders, levels) EXCEPT ![k] =
              Append(@, [ref |-> ref, remaining |-> o.remaining])]
  <2> DEFINE os2 == With(orders, ref, o)
             ls2 == Queued(levels, k, ref, o.remaining)
  <2>1. BookOK(os2, ls2)
    BY QueuedKeepsBook DEF JoinsBehind
  <2>2. ref \in Refs \ DOMAIN orders /\ k \in Sides \X Prices
    BY DEF JoinsBehind, Order
  <2>3. View(os2, ls2) = [View(orders, levels) EXCEPT ![k] =
                             Append(@, [ref |-> ref, remaining |-> o.remaining])]
    BY <2>1, <2>2, QueuedView
  <2>4. orders' = os2 /\ levels' = ls2
    BY DEF JoinsBehind
  <2> HIDE DEF os2, ls2
  <2>5. View(orders, levels)' = View(os2, ls2)
    BY <2>4 DEF View
  <2> QED BY <2>3, <2>5
<1>2. ref \notin Promise!Live
  BY PromiseLive DEF JoinsBehind
<1>3. Promise!Join(k, ref, o.remaining)
  BY <1>1, <1>2, PromiseSteps
<1>4. o.remaining \in 1 .. MaxShares /\ k \in Promise!Places
  BY DEF Order, JoinsBehind, Promise!Places
<1> QED BY <1>3, <1>4

LEMMA TakeIsStep ==
    ASSUME BookOK(orders, levels), NEW ref \in DOMAIN orders,
           orders' = RestOrders(ref), levels' = RestLevels(ref)
    PROVE  \E k \in Promise!Places : \E i \in DOMAIN View(orders, levels)[k] :
              Promise!Leave(k, i)
<1> DEFINE k == At(orders, ref)
           queues == View(orders, levels)
<1>1. k \in Promise!Places
  BY PlacesAre DEF Promise!Places
<1>2. PICK p \in DOMAIN queues[k] :
           View(RestOrders(ref), RestLevels(ref)) = [queues EXCEPT ![k] = RemoveAt(@, p)]
  BY TakenView DEF RestOrders, RestLevels
<1>3. View(orders, levels)' = View(RestOrders(ref), RestLevels(ref))
  BY DEF View
<1>4. View(orders, levels)' = [queues EXCEPT ![k] = RemoveAt(@, p)]
  BY <1>2, <1>3
<1> HIDE DEF k
<1>5. Promise!Leave(k, p)
  BY <1>4, PromiseSteps
<1> QED BY <1>1, <1>2, <1>5

LEMMA ReduceIsStep ==
    ASSUME BookOK(orders, levels), NEW ref \in DOMAIN orders,
           NEW shares \in 1 .. MaxShares, shares < orders[ref].remaining,
           orders' = ReducedOrders(orders, ref, shares),
           levels' = ReducedLevels(orders, levels, ref, shares)
    PROVE  \E k \in Promise!Places : \E i \in DOMAIN View(orders, levels)[k] :
              Promise!Reduce(k, i, shares)
<1> DEFINE k == At(orders, ref)
           queues == View(orders, levels)
<1>1. k \in Promise!Places /\ shares \in Nat
  BY PlacesAre, BookAssumption DEF Promise!Places
<1>2. PICK p \in DOMAIN queues[k] :
           /\ queues[k][p].remaining = orders[ref].remaining
           /\ View(ReducedOrders(orders, ref, shares), ReducedLevels(orders, levels, ref, shares))
                = ReducedQueues(queues, k, p, shares)
  BY <1>1, ReducedView
<1>3. View(orders, levels)'
        = View(ReducedOrders(orders, ref, shares), ReducedLevels(orders, levels, ref, shares))
  BY DEF View
<1>4. View(orders, levels)' = ReducedQueues(queues, k, p, shares)
  BY <1>2, <1>3
<1> HIDE DEF k
<1>5. Promise!Reduce(k, p, shares)
  BY <1>2, <1>4, PromiseSteps
<1> QED BY <1>1, <1>2, <1>5
LEMMA ReplaceIsStep ==
    ASSUME BookOK(orders, levels), NEW index \in 1 .. MaxIndex, NEW old, NEW new \in Refs,
           NEW shares, NEW price \in Prices, Replace(index, old, new, shares, price)
    PROVE  \E k \in Promise!Places : \E i \in DOMAIN View(orders, levels)[k] :
              \E n \in 1 .. MaxShares : Promise!Requeue(k, i, price, new, n)
<1> DEFINE k == At(orders, old)
           target == <<orders[old].side, price>>
           os == RestOrders(old)
           ls == RestLevels(old)
           queues == View(orders, levels)
<1>1. old \in DOMAIN orders /\ new \notin DOMAIN orders /\ BookOK(os, ls)
  BY ReplaceJoins
<1>2. PICK o \in Order : JoinsBehind(os, ls, target, new, o)
  BY ReplaceJoins
<1>3. k \in Promise!Places /\ target = <<k[1], price>>
  BY <1>1, PlacesAre DEF Promise!Places, At
<1>4. PICK p \in DOMAIN queues[k] : View(os, ls) = Left(queues, k, p)
  BY <1>1, TakenView DEF RestOrders, RestLevels, Left
<1>5. View(orders, levels)' = Joined(View(os, ls), target, new, o.remaining)
  <2> DEFINE os2 == With(os, new, o)
             ls2 == Queued(ls, target, new, o.remaining)
  <2> HIDE DEF os, ls, target
  <2>1. BookOK(os2, ls2)
    BY <1>1, <1>2, QueuedKeepsBook DEF JoinsBehind
  <2>2. new \in Refs \ DOMAIN os /\ target \in Sides \X Prices
    BY <1>2 DEF JoinsBehind, Order
  <2>3. View(os2, ls2) = Joined(View(os, ls), target, new, o.remaining)
    BY <1>1, <2>1, <2>2, QueuedView DEF Joined
  <2>4. orders' = os2 /\ levels' = ls2
    BY <1>2 DEF JoinsBehind
  <2> HIDE DEF os2, ls2
  <2>5. View(orders, levels)' = View(os2, ls2)
    BY <2>4 DEF View
  <2> QED BY <2>3, <2>5
<1>6. new \notin Promise!Live
  BY <1>1, PromiseLive
<1>7. View(orders, levels)' = Joined(Left(queues, k, p), <<k[1], price>>, new, o.remaining)
  BY <1>3, <1>4, <1>5
<1> HIDE DEF k, target, os, ls
<1>8. Promise!Requeue(k, p, price, new, o.remaining)
  BY <1>6, <1>7, PromiseSteps
<1>9. o.remaining \in 1 .. MaxShares
  BY DEF Order
<1> QED BY <1>3, <1>8, <1>9

\* One change of the queues of PriceTimeBook.
PromiseStep ==
    \E k \in Promise!Places :
       \/ \E ref \in Refs, n \in 1 .. MaxShares : Promise!Join(k, ref, n)
       \/ \E i \in DOMAIN View(orders, levels)[k] :
             \/ \E n \in 1 .. MaxShares : Promise!Reduce(k, i, n)
             \/ Promise!Leave(k, i)
             \/ \E price \in Prices, ref \in Refs, n \in 1 .. MaxShares :
                   Promise!Requeue(k, i, price, ref, n)

LEMMA PromiseNextIs ==
    PromiseStep /\ View(orders, levels)' # View(orders, levels) => Promise!Next
<1> QED BY Zenon DEF PromiseStep, Promise!Next, View

LEMMA MessageIsStep ==
    ASSUME BookOK(orders, levels), NEW index \in 1 .. MaxIndex, Message(index)
    PROVE  PromiseStep
<1>1. PICK ref \in Refs :
         \/ \E shares \in 0 .. MaxShares + 1 :
               \/ \E side \in Sides, price \in Prices : Add(index, ref, side, shares, price)
               \/ Reduction(index, ref, shares)
               \/ \E new \in Refs, price \in Prices : Replace(index, ref, new, shares, price)
         \/ Delete(index, ref)
  BY DEF Message
<1>2. ASSUME NEW shares, NEW side \in Sides, NEW price \in Prices,
             Add(index, ref, side, shares, price)
      PROVE  PromiseStep
  <2>1. PICK o \in Order : JoinsBehind(orders, levels, <<side, price>>, ref, o)
    BY <1>2, AddJoins
  <2> DEFINE k == <<side, price>>
  <2> HIDE DEF k
  <2>2. JoinsBehind(orders, levels, k, ref, o)
    BY <2>1 DEF k
  <2>3. \E n \in 1 .. MaxShares : k \in Promise!Places /\ Promise!Join(k, ref, n)
    BY <2>2, JoinIsStep
  <2> QED BY <2>3 DEF PromiseStep
<1>3. ASSUME NEW shares, Reduction(index, ref, shares) PROVE PromiseStep
  <2>1. /\ ref \in DOMAIN orders /\ shares \in 1 .. orders[ref].remaining
        /\ Place(ref) = At(orders, ref) /\ orders[ref].remaining \in 1 .. MaxShares
        /\ MaxShares \in Nat
    BY <1>3, BookAssumption DEF Reduction, Live, Place, At, BookOK, OrdersOK, Order
  <2>2. CASE shares < orders[ref].remaining
    <3>1. /\ orders' = ReducedOrders(orders, ref, shares)
          /\ levels' = ReducedLevels(orders, levels, ref, shares)
      BY <1>3, <2>1, <2>2 DEF Reduction, ReducedOrders, ReducedLevels
    <3>2. shares \in 1 .. MaxShares
      BY <2>1
    <3>3. \E k \in Promise!Places : \E i \in DOMAIN View(orders, levels)[k] :
             Promise!Reduce(k, i, shares)
      BY <2>1, <2>2, <3>1, <3>2, ReduceIsStep
    <3> QED BY <3>2, <3>3 DEF PromiseStep
  <2>3. CASE ~(shares < orders[ref].remaining)
    <3>1. shares = orders[ref].remaining
      BY <2>1, <2>3
    <3>2. orders' = RestOrders(ref) /\ levels' = RestLevels(ref)
      BY <1>3, <2>1, <2>3, <3>1 DEF Reduction, RestOrders, RestLevels
    <3>3. \E k \in Promise!Places : \E i \in DOMAIN View(orders, levels)[k] :
             Promise!Leave(k, i)
      BY <2>1, <3>2, TakeIsStep
    <3> QED BY <3>3 DEF PromiseStep
  <2> QED BY <2>2, <2>3
<1>4. ASSUME NEW shares, NEW new \in Refs, NEW price \in Prices,
             Replace(index, ref, new, shares, price)
      PROVE  PromiseStep
  <2>1. \E k \in Promise!Places : \E i \in DOMAIN View(orders, levels)[k] :
           \E n \in 1 .. MaxShares : Promise!Requeue(k, i, price, new, n)
    BY <1>4, ReplaceIsStep
  <2> QED BY <2>1 DEF PromiseStep
<1>5. ASSUME Delete(index, ref) PROVE PromiseStep
  <2>1. ref \in DOMAIN orders /\ orders' = RestOrders(ref) /\ levels' = RestLevels(ref)
    BY <1>5 DEF Delete, Live, Place, At, RestOrders, RestLevels
  <2>2. \E k \in Promise!Places : \E i \in DOMAIN View(orders, levels)[k] :
           Promise!Leave(k, i)
    BY <2>1, TakeIsStep
  <2> QED BY <2>2 DEF PromiseStep
<1> QED BY <1>1, <1>2, <1>3, <1>4, <1>5

LEMMA PromiseStarts == Init => Promise!Init
<1> SUFFICES ASSUME Init PROVE Promise!Init
  OBVIOUS
<1>1. \A k : Fifo(levels, k) = <<>>
  BY DEF Init, Fifo
<1>2. ASSUME NEW k \in Sides \X Prices
      PROVE  [i \in DOMAIN Fifo(levels, k) |->
                 [ref |-> Fifo(levels, k)[i],
                  remaining |-> orders[Fifo(levels, k)[i]].remaining]] = <<>>
  BY <1>1
<1> QED BY <1>2 DEF Promise!Init, Promise!Places

LEMMA PromiseKept ==
    ASSUME BookOK(orders, levels), [Next]_vars
    PROVE  Promise!Next \/ View(orders, levels)' = View(orders, levels)
<1>1. CASE UNCHANGED vars
  BY <1>1 DEF vars, View
<1>2. ASSUME NEW index \in 1 .. MaxIndex, Message(index)
      PROVE  Promise!Next \/ View(orders, levels)' = View(orders, levels)
  BY <1>2, MessageIsStep, PromiseNextIs
<1> QED BY <1>1, <1>2 DEF Next

(* Price-time priority: the book implements PriceTimeBook, for any          *)
(* references, prices and limits.  Every accepted message changes the       *)
(* queues by one join at a tail, one reduction in place, one leaving, or    *)
(* one leaving that joins the tail of its new price.                        *)
THEOREM BookKeepsPriority == Spec => KeepsPriceTimePriority
<1>1. BookOK(orders, levels) /\ [Next]_vars
        => [Promise!Next]_[k \in Sides \X Prices |->
              [i \in DOMAIN Fifo(levels, k) |->
                 [ref |-> Fifo(levels, k)[i], remaining |-> orders[Fifo(levels, k)[i]].remaining]]]
  BY PromiseKept DEF View
<1> QED BY <1>1, BookStarts, BookKept, PromiseStarts, PTL
        DEF Spec, KeepsPriceTimePriority, Promise!Spec
===============================================================================
