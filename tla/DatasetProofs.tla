---------------------------- MODULE DatasetProofs ----------------------------
(***************************************************************************)
(* For any days, windows and horizons: a feature row has exactly what is   *)
(* in its windows (FeaturesStayCausal), and a complete dataset has exactly *)
(* the rows that the filters leave (DatasetStaysWhole).                    *)
(*                                                                         *)
(* The flow, incremental and mutable in the code, is shown to be a function*)
(* of two things: the set E of the events it has read and the messages B   *)
(* of the qualifying rows so far.  FlowIs says it field by field: buckets  *)
(* are the executions between two of these messages, a match holds its     *)
(* executions that are still in a window, a total is the shares of those   *)
(* that count, and a queue has the times that are in its window.  The first*)
(* half shows that an event (FlowConsumes) and a row (FlowTakesRow) keep   *)
(* it; then that catching up with a snapshot reads exactly the events of   *)
(* no later message (CaughtUpReads), so the row made is the one the day    *)
(* asks for.  The last part counts: what a partition counts and keeps is a *)
(* function of how many rows have been joined (BuildInv).                  *)
(***************************************************************************)
EXTENDS DatasetRows, DataLemmas

-----------------------------------------------------------------------------
(* Sums and shares. *)

(* A sum over two disjoint sets. *)
LEMMA SumUnion ==
    ASSUME NEW f, NEW S, NEW T, Summable(f, S), Summable(f, T), S \cap T = {}
    PROVE  SumFunctionOnSet(f, S \cup T) = SumFunctionOnSet(f, S) + SumFunctionOnSet(f, T)
<1> DEFINE U == S \cup T
           g == [x \in U |-> IF x \in S THEN f[x] ELSE 0]
           h == [x \in U |-> IF x \in T THEN f[x] ELSE 0]
<1>1. Summable(f, U) /\ Summable(g, U) /\ Summable(h, U) /\ S \in SUBSET U /\ T \in SUBSET U
  <2>1. IsFiniteSet(U)
    BY FS_Union DEF Summable
  <2>2. \A x \in U : f[x] \in Int /\ g[x] \in Int /\ h[x] \in Int
    BY DEF Summable
  <2> HIDE DEF g, h
  <2> QED BY <2>1, <2>2 DEF Summable
<1>2. /\ \A x \in U : f[x] = g[x] + h[x]
      /\ \A x \in U \ S : g[x] = 0
      /\ \A x \in U \ T : h[x] = 0
      /\ \A x \in S : g[x] = f[x]
      /\ \A x \in T : h[x] = f[x]
  BY DEF Summable
<1>3. IsFiniteSet(S) /\ IsFiniteSet(T)
  BY DEF Summable
<1> HIDE DEF U, g, h
<1>4. SumFunctionOnSet(f, U) = SumFunctionOnSet(g, U) + SumFunctionOnSet(h, U)
  BY <1>1, <1>2, SumLinear
<1>5. SumFunctionOnSet(g, U) = SumFunctionOnSet(g, S) /\ SumFunctionOnSet(h, U) = SumFunctionOnSet(h, T)
  BY <1>1, <1>2, SumOfPart
<1>6. SumFunctionOnSet(g, S) = SumFunctionOnSet(f, S) /\ SumFunctionOnSet(h, T) = SumFunctionOnSet(f, T)
  BY <1>2, <1>3, SumSame
<1> QED BY <1>4, <1>5, <1>6 DEF U

(* Messages the shares of which can be added. *)
Counting(A) == IsFiniteSet(A) /\ A \subseteq DOMAIN SharesOf

\* The shares of two disjoint sets of executions add up.
LEMMA SharesAdd ==
    ASSUME NEW A, NEW C, Counting(A), Counting(C), A \cap C = {}
    PROVE  /\ Shares(A) \in Int /\ Shares(C) \in Int
           /\ Shares(A \cup C) = Shares(A) + Shares(C)
<1>1. \A x \in DOMAIN SharesOf : SharesOf[x] \in Int
  BY RowsAssumption
<1>2. Summable(SharesOf, A) /\ Summable(SharesOf, C)
  BY <1>1 DEF Summable, Counting
<1> QED BY <1>2, SumUnion, SumType DEF Shares

-----------------------------------------------------------------------------
(* The last w of m values of a sequence G. *)

Trailing(seq, w, m, G) ==
    /\ Len(seq) = IF m <= w THEN m ELSE w
    /\ \A l \in 1 .. Len(seq) : seq[l] = G[m - Len(seq) + l]

\* Rolling a sequence of the last w of m values keeps it one, of m + 1.
LEMMA RolledTrails ==
    ASSUME NEW S, NEW seq \in Seq(S), NEW w \in Nat \ {0}, NEW m \in Nat, NEW G,
           Trailing(seq, w, m, G), G[m + 1] \in S
    PROVE  /\ Rolled(seq, G[m + 1], w) \in Seq(S)
           /\ Trailing(Rolled(seq, G[m + 1], w), w, m + 1, G)
<1> DEFINE x == G[m + 1]
<1> x \in S
  OBVIOUS
<1>1. CASE Len(seq) = w
  <2> DEFINE t == Tail(seq)
             r == Append(t, x)
  <2>1. /\ t \in Seq(S) /\ Len(t) = w - 1
        /\ \A l \in 1 .. w - 1 : t[l] = seq[l + 1]
    BY <1>1
  <2>2. /\ r \in Seq(S) /\ Len(r) = w /\ r[w] = x
        /\ \A l \in 1 .. w - 1 : r[l] = t[l]
    <3> HIDE DEF t, x
    <3> QED BY <2>1
  <2>3. Rolled(seq, x, w) = r
    BY <1>1 DEF Rolled
  <2> HIDE DEF r, t
  <2>4. w <= m
    BY <1>1 DEF Trailing
  <2>5. ASSUME NEW l \in 1 .. w PROVE r[l] = G[m + 1 - w + l]
    <3>1. CASE l = w
      BY <2>2, <3>1
    <3>2. CASE l # w
      <4>1. l \in 1 .. w - 1 /\ l + 1 \in 1 .. Len(seq) /\ m - w + (l + 1) = m + 1 - w + l
        BY <1>1, <3>2
      <4> QED BY <1>1, <2>1, <2>2, <4>1 DEF Trailing
    <3> QED BY <3>1, <3>2
  <2> HIDE DEF x
  <2>6. Trailing(r, w, m + 1, G)
    BY <2>2, <2>4, <2>5 DEF Trailing
  <2> QED BY <2>2, <2>3, <2>6 DEF x
<1>2. CASE Len(seq) # w
  <2> DEFINE r == Append(seq, x)
  <2>1. Len(seq) = m /\ m < w
    BY <1>2 DEF Trailing
  <2>2. /\ r \in Seq(S) /\ Len(r) = m + 1 /\ r[m + 1] = x
        /\ \A l \in 1 .. m : r[l] = seq[l]
    <3> HIDE DEF x
    <3> QED BY <2>1
  <2>3. Rolled(seq, x, w) = r
    BY <1>2 DEF Rolled
  <2> HIDE DEF r
  <2>4. ASSUME NEW l \in 1 .. m + 1 PROVE r[l] = G[l]
    <3>1. CASE l = m + 1
      BY <2>2, <3>1
    <3>2. CASE l # m + 1
      <4>1. l \in 1 .. m /\ m - Len(seq) + l = l
        BY <2>1, <3>2
      <4> QED BY <2>1, <2>2, <4>1 DEF Trailing
    <3> QED BY <3>1, <3>2
  <2>5. Trailing(r, w, m + 1, G)
    <3>1. ASSUME NEW l \in 1 .. Len(r) PROVE r[l] = G[m + 1 - Len(r) + l]
      <4>1. l \in 1 .. m + 1 /\ m + 1 - Len(r) + l = l
        BY <2>2
      <4> QED BY <2>4, <4>1
    <3>2. Len(r) = IF m + 1 <= w THEN m + 1 ELSE w
      BY <2>1, <2>2
    <3> QED BY <3>1, <3>2 DEF Trailing
  <2> HIDE DEF x
  <2> QED BY <2>2, <2>3, <2>5 DEF x
<1> QED BY <1>1, <1>2

\* It only looks at the first m values.
LEMMA TrailsSame ==
    ASSUME NEW seq, NEW w \in Nat, NEW m \in Nat, NEW G, NEW H, Trailing(seq, w, m, G),
           \A j \in 1 .. m : G[j] = H[j]
    PROVE  Trailing(seq, w, m, H)
<1>1. Len(seq) \in Nat /\ Len(seq) <= m
  BY DEF Trailing
<1>2. \A l \in 1 .. Len(seq) : m - Len(seq) + l \in 1 .. m
  BY <1>1
<1> QED BY <1>2 DEF Trailing

-----------------------------------------------------------------------------
(* The qualifying snapshots. *)

IsRowsTo(g, d) ==
    g = [n \in 0 .. Len(d.snapshots) |->
            IF n = 0 THEN <<>>
            ELSE IF d.snapshots[n].qualifies THEN Append(g[n - 1], d.snapshots[n]) ELSE g[n - 1]]

NextRows(d) ==
    [n \in Nat |-> [q \in Seq(Snapshot) |->
        IF n \in 1 .. Len(d.snapshots) /\ d.snapshots[n].qualifies THEN Append(q, d.snapshots[n]) ELSE q]]

\* The recursion behind RowsTo.
LEMMA NextRowsType ==
    ASSUME NEW d, d.snapshots \in Seq(Snapshot) PROVE Steps(Seq(Snapshot), NextRows(d))
<1> SUFFICES ASSUME NEW i \in Nat PROVE NextRows(d)[i] \in [Seq(Snapshot) -> Seq(Snapshot)]
  BY DEF Steps
<1> DEFINE Next(q) == IF i \in 1 .. Len(d.snapshots) /\ d.snapshots[i].qualifies
                      THEN Append(q, d.snapshots[i]) ELSE q
<1>1. ASSUME NEW q \in Seq(Snapshot) PROVE Next(q) \in Seq(Snapshot)
  <2> DEFINE snaps == d.snapshots
  <2> snaps \in Seq(Snapshot)
    OBVIOUS
  <2>1. i \in 1 .. Len(snaps) => snaps[i] \in Snapshot
    OBVIOUS
  <2> DEFINE x == snaps[i]
  <2>2. x \in Snapshot => Append(q, x) \in Seq(Snapshot)
    <3> HIDE DEF x
    <3> QED OBVIOUS
  <2> QED BY <2>1, <2>2
<1>2. NextRows(d)[i] = [q \in Seq(Snapshot) |-> Next(q)]
  BY DEF NextRows
<1> HIDE DEF Next
<1> QED BY <1>1, <1>2

\* RowsTo satisfies its own recursion.
LEMMA RowsToIs ==
    ASSUME NEW d, d.snapshots \in Seq(Snapshot)
    PROVE  IsRowsTo(RowsTo(d), d) /\ RowsTo(d) \in [0 .. Len(d.snapshots) -> Seq(Snapshot)]
<1> DEFINE G == NextRows(d)
           N == Len(d.snapshots)
<1>1. N \in Nat
  OBVIOUS
<1>2. \E g : Recursive(g, Seq(Snapshot), <<>>, G, N)
  <2>1. <<>> \in Seq(Snapshot) /\ Steps(Seq(Snapshot), G)
    BY NextRowsType
  <2> HIDE DEF G, N
  <2> QED BY <1>1, <2>1, RecursionExists
<1>3. ASSUME NEW g, Recursive(g, Seq(Snapshot), <<>>, G, N) PROVE IsRowsTo(g, d)
  <2>1. ASSUME NEW n \in 0 .. N
        PROVE  g[n] = IF n = 0 THEN <<>>
                      ELSE IF d.snapshots[n].qualifies THEN Append(g[n - 1], d.snapshots[n])
                      ELSE g[n - 1]
    <3>1. CASE n = 0
      BY <1>3, <3>1 DEF Recursive
    <3>2. CASE n # 0
      <4>1. n \in 1 .. N /\ n - 1 \in 0 .. N /\ n \in Nat
        BY <3>2
      <4>2. g[n] = G[n][g[n - 1]] /\ g[n - 1] \in Seq(Snapshot)
        BY <1>3, <4>1 DEF Recursive
      <4>3. G[n] = [q \in Seq(Snapshot) |->
                IF n \in 1 .. N /\ d.snapshots[n].qualifies THEN Append(q, d.snapshots[n]) ELSE q]
        BY <4>1 DEF NextRows
      <4> QED BY <3>2, <4>1, <4>2, <4>3
    <3> QED BY <3>1, <3>2
  <2>2. g = [n \in 0 .. N |-> g[n]]
    BY <1>3 DEF Recursive
  <2> QED BY <2>1, <2>2 DEF IsRowsTo
<1>4. RowsTo(d) = CHOOSE g : IsRowsTo(g, d)
  BY DEF RowsTo, IsRowsTo
<1>5. IsRowsTo(RowsTo(d), d)
  BY <1>2, <1>3, <1>4
<1> DEFINE g == RowsTo(d)
<1>6. ASSUME NEW n \in 0 .. N
      PROVE  g[n] = IF n = 0 THEN <<>>
                    ELSE IF d.snapshots[n].qualifies THEN Append(g[n - 1], d.snapshots[n])
                    ELSE g[n - 1]
  <2> DEFINE val(i) == IF i = 0 THEN <<>>
                       ELSE IF d.snapshots[i].qualifies THEN Append(g[i - 1], d.snapshots[i])
                       ELSE g[i - 1]
  <2>1. g = [i \in 0 .. N |-> val(i)]
    BY <1>5 DEF IsRowsTo
  <2> HIDE DEF val, g, N
  <2>2. g[n] = val(n)
    BY <2>1
  <2> QED BY <2>2 DEF val
<1> DEFINE T == {n \in Nat : n <= N /\ g[n] \notin Seq(Snapshot)}
<1>7. T = {}
  <2>1. SUFFICES ASSUME T # {} PROVE FALSE
    OBVIOUS
  <2>2. PICK n \in T : \A i \in T : n <= i
    <3>1. T \in SUBSET Nat
      OBVIOUS
    <3> HIDE DEF T
    <3> QED BY <2>1, <3>1, Least
  <2>3. n \in 0 .. N /\ n \in Nat
    OBVIOUS
  <2>4. n # 0
    <3>1. g[0] = <<>> /\ <<>> \in Seq(Snapshot) /\ g[n] \notin Seq(Snapshot)
      BY <1>1, <1>6
    <3> HIDE DEF g, T
    <3> QED BY <3>1
  <2>5. n - 1 \in Nat /\ n - 1 \notin T /\ n - 1 <= N
    BY <2>2, <2>3, <2>4
  <2>6. g[n - 1] \in Seq(Snapshot) /\ d.snapshots[n] \in Snapshot
    BY <2>3, <2>4, <2>5
  <2> DEFINE x == d.snapshots[n]
             q == g[n - 1]
  <2>7. x \in Snapshot /\ q \in Seq(Snapshot)
    BY <2>6
  <2>8. Append(q, x) \in Seq(Snapshot)
    <3> HIDE DEF x, q
    <3> QED BY <2>7
  <2> QED BY <1>6, <2>3, <2>4, <2>6, <2>8
<1>8. g = [n \in 0 .. N |-> g[n]]
  <2> DEFINE val(i) == IF i = 0 THEN <<>>
                       ELSE IF d.snapshots[i].qualifies THEN Append(g[i - 1], d.snapshots[i])
                       ELSE g[i - 1]
  <2>1. g = [i \in 0 .. N |-> val(i)]
    BY <1>5 DEF IsRowsTo
  <2> HIDE DEF val, g, N
  <2> QED BY <2>1
<1>9. \A n \in 0 .. N : g[n] \in Seq(Snapshot)
  BY <1>1, <1>7
<1> HIDE DEF T, g, N
<1>10. g \in [0 .. N -> Seq(Snapshot)]
  BY <1>8, <1>9
<1> QED BY <1>5, <1>10 DEF g, N

\* Before the first snapshot there is no row.
LEMMA NoRowsTo ==
    ASSUME NEW d, d.snapshots \in Seq(Snapshot) PROVE RowsTo(d)[0] = <<>>
<1> DEFINE g == RowsTo(d)
           N == Len(d.snapshots)
           val(i) == IF i = 0 THEN <<>>
                     ELSE IF d.snapshots[i].qualifies THEN Append(g[i - 1], d.snapshots[i])
                     ELSE g[i - 1]
<1>1. g = [i \in 0 .. N |-> val(i)] /\ 0 \in 0 .. N
  BY RowsToIs DEF IsRowsTo
<1> HIDE DEF val, g, N
<1>2. g[0] = val(0)
  BY <1>1
<1> QED BY <1>2 DEF val, g

(* Row by row. *)
\* A snapshot adds itself to the rows when it qualifies.
LEMMA NextRowOf ==
    ASSUME NEW d, d.snapshots \in Seq(Snapshot), NEW n \in 1 .. Len(d.snapshots)
    PROVE  /\ RowsTo(d)[n] \in Seq(Snapshot) /\ RowsTo(d)[n - 1] \in Seq(Snapshot)
           /\ RowsTo(d)[n] = IF d.snapshots[n].qualifies THEN Append(RowsTo(d)[n - 1], d.snapshots[n])
                             ELSE RowsTo(d)[n - 1]
<1> DEFINE g == RowsTo(d)
           N == Len(d.snapshots)
           val(i) == IF i = 0 THEN <<>>
                     ELSE IF d.snapshots[i].qualifies THEN Append(g[i - 1], d.snapshots[i])
                     ELSE g[i - 1]
<1>1. g = [i \in 0 .. N |-> val(i)] /\ g \in [0 .. N -> Seq(Snapshot)]
  BY RowsToIs DEF IsRowsTo
<1>2. N \in Nat /\ n \in 0 .. N /\ n - 1 \in 0 .. N /\ 0 \in 0 .. N /\ n # 0
  OBVIOUS
<1> HIDE DEF val, g, N
<1>3. g[0] = val(0) /\ g[n] = val(n) /\ g[n] \in Seq(Snapshot) /\ g[n - 1] \in Seq(Snapshot)
  BY <1>1, <1>2
<1> QED BY <1>2, <1>3 DEF val, g

-----------------------------------------------------------------------------
(* Rows in message order. *)

Follows(x, y) == x.index < y.index /\ x.time <= y.time

OrderedTo(s, m) == \A i, j \in 1 .. m : i < j => Follows(s[i], s[j])

Row(x) == x.index \in Nat /\ x.time \in Nat

\* Rows that are in order up to m stay so with one that follows the m-th.
LEMMA OrderedNext ==
    ASSUME NEW s, NEW m \in Nat, \A i \in 1 .. m + 1 : Row(s[i]), OrderedTo(s, m),
           m > 0 => Follows(s[m], s[m + 1])
    PROVE  OrderedTo(s, m + 1)
<1> SUFFICES ASSUME NEW i \in 1 .. m + 1, NEW j \in 1 .. m + 1, i < j
             PROVE  Follows(s[i], s[j])
  BY DEF OrderedTo
<1>1. CASE j <= m
  BY <1>1 DEF OrderedTo
<1>2. CASE j = m + 1 /\ i = m
  BY <1>2
<1>3. CASE j = m + 1 /\ i < m
  <2>1. i \in 1 .. m /\ m \in 1 .. m /\ m > 0
    BY <1>3
  <2>2. Follows(s[i], s[m]) /\ Follows(s[m], s[m + 1])
    BY <1>3, <2>1 DEF OrderedTo
  <2>3. Row(s[i]) /\ Row(s[m]) /\ Row(s[m + 1])
    BY <2>1
  <2> QED BY <1>3, <2>2, <2>3 DEF Follows, Row
<1> QED BY <1>1, <1>2, <1>3

\* Neighbours in order put any two rows in order.
LEMMA OrderedAll ==
    ASSUME NEW S, NEW s \in Seq(S), \A i \in 1 .. Len(s) : Row(s[i]), OrderedRows(s)
    PROVE  OrderedTo(s, Len(s))
<1> DEFINE T == {m \in Nat : m <= Len(s) /\ ~OrderedTo(s, m)}
<1>1. Len(s) \in Nat
  OBVIOUS
<1>2. T = {}
  <2>1. SUFFICES ASSUME T # {} PROVE FALSE
    OBVIOUS
  <2>2. PICK m \in T : \A k \in T : m <= k
    <3>1. T \in SUBSET Nat
      OBVIOUS
    <3> HIDE DEF T
    <3> QED BY <2>1, <3>1, Least
  <2>3. m # 0
    BY DEF OrderedTo
  <2>4. m - 1 \in Nat /\ m - 1 \notin T /\ m \in 1 .. Len(s)
    BY <1>1, <2>2, <2>3
  <2>5. OrderedTo(s, m - 1)
    BY <2>4
  <2>6. m - 1 > 0 => Follows(s[m - 1], s[m])
    <3>1. SUFFICES ASSUME m - 1 > 0 PROVE Follows(s[m - 1], s[m])
      OBVIOUS
    <3>2. m - 1 \in 1 .. Len(s) - 1 /\ (m - 1) + 1 = m
      BY <1>1, <2>4, <3>1
    <3> QED BY <3>2 DEF OrderedRows, Follows
  <2>7. \A i \in 1 .. m : Row(s[i])
    BY <1>1, <2>4
  <2> DEFINE k == m - 1
  <2>8. k \in Nat /\ m = k + 1 /\ OrderedTo(s, k) /\ (k > 0 => Follows(s[k], s[k + 1]))
        /\ \A i \in 1 .. k + 1 : Row(s[i])
    BY <2>4, <2>5, <2>6, <2>7
  <2> HIDE DEF k
  <2>9. OrderedTo(s, k + 1)
    BY <2>8, OrderedNext
  <2> QED BY <2>8, <2>9
<1> QED BY <1>1, <1>2

\* OrderedRows, in terms of any two rows.
LEMMA OrderedRowsOf ==
    ASSUME NEW S, NEW s \in Seq(S), OrderedTo(s, Len(s))
    PROVE  OrderedRows(s)
<1> SUFFICES ASSUME NEW i \in 1 .. Len(s) - 1 PROVE Follows(s[i], s[i + 1])
  BY DEF OrderedRows, Follows
<1>1. i \in 1 .. Len(s) /\ i + 1 \in 1 .. Len(s) /\ i < i + 1
  OBVIOUS
<1> QED BY <1>1 DEF OrderedTo

(* The rows of a longer prefix begin with those of a shorter one.           *)
Begins(q, r) == Len(q) <= Len(r) /\ \A k \in 1 .. Len(q) : r[k] = q[k]

\* Rows of more snapshots begin with those of fewer.
LEMMA RowsExtend ==
    ASSUME NEW d, d.snapshots \in Seq(Snapshot), NEW n \in Nat, NEW m \in Nat,
           n <= m, m <= Len(d.snapshots)
    PROVE  Begins(RowsTo(d)[n], RowsTo(d)[m])
<1> DEFINE R == RowsTo(d)
           N == Len(d.snapshots)
           T == {k \in Nat : n <= k /\ k <= N /\ ~Begins(R[n], R[k])}
<1>1. N \in Nat /\ \A k \in 0 .. N : R[k] \in Seq(Snapshot)
  BY RowsToIs
<1>2. T = {}
  <2>1. SUFFICES ASSUME T # {} PROVE FALSE
    OBVIOUS
  <2>2. PICK k \in T : \A j \in T : k <= j
    <3>1. T \in SUBSET Nat
      OBVIOUS
    <3> HIDE DEF T
    <3> QED BY <2>1, <3>1, Least
  <2>3. k \in Nat /\ n <= k /\ k <= N /\ ~Begins(R[n], R[k])
    OBVIOUS
  <2>4. k # n
    <3>1. R[n] \in Seq(Snapshot)
      BY <1>1, <2>3
    <3>2. Begins(R[n], R[n])
      BY <3>1 DEF Begins
    <3> QED BY <2>3, <3>2
  <2>5. k - 1 \in Nat /\ n <= k - 1 /\ k - 1 <= N /\ k - 1 \notin T /\ k \in 1 .. N
    BY <1>1, <2>2, <2>3, <2>4
  <2>6. Begins(R[n], R[k - 1])
    BY <2>5
  <2>7. /\ R[k] \in Seq(Snapshot) /\ R[k - 1] \in Seq(Snapshot) /\ d.snapshots[k] \in Snapshot
        /\ R[k] = IF d.snapshots[k].qualifies THEN Append(R[k - 1], d.snapshots[k]) ELSE R[k - 1]
    BY <2>5, NextRowOf
  <2> DEFINE q == R[k - 1]
             x == d.snapshots[k]
  <2>8. Begins(q, R[k])
    <3>1. CASE x.qualifies
      <4>1. R[k] = Append(q, x) /\ q \in Seq(Snapshot) /\ x \in Snapshot
        BY <2>7, <3>1
      <4> HIDE DEF q, x, R
      <4> QED BY <4>1 DEF Begins
    <3>2. CASE ~x.qualifies
      BY <2>7, <3>2 DEF Begins
    <3> QED BY <3>1, <3>2
  <2>9. R[n] \in Seq(Snapshot)
    BY <1>1, <2>3
  <2> HIDE DEF T, R, N
  <2>10. Begins(R[n], R[k])
    <3>1. Len(R[n]) \in Nat /\ Len(q) \in Nat /\ Len(R[k]) \in Nat
      BY <2>7, <2>9
    <3> QED BY <2>6, <2>8, <3>1 DEF Begins
  <2> QED BY <2>3, <2>10
<1>3. m \notin T
  BY <1>2
<1> HIDE DEF R
<1> QED BY <1>3 DEF R

\* A snapshot of a day is a row.
LEMMA SnapshotIs ==
    ASSUME NEW x \in Snapshot
    PROVE  Row(x) /\ x.mid \in Nat /\ x.qualifies \in BOOLEAN /\ x.kind \in EventKinds
<1> QED BY DEF Snapshot, Row

\* An event of a day is a row.
LEMMA EventIs ==
    ASSUME NEW x \in Event
    PROVE  Row(x) /\ x.index \in DOMAIN SharesOf /\ x.match \in Nat /\ x.kind \in EventKinds
<1> QED BY RowsAssumption DEF Event, Row

Sorted(r, s, m) ==
    /\ OrderedTo(r, Len(r))
    /\ \A k \in 1 .. Len(r) : \E p \in 1 .. m : r[k] = s[p] /\ s[p].qualifies

\* Qualifying rows are snapshots, in the order of these.
LEMMA RowsSorted ==
    ASSUME NEW d, d.snapshots \in Seq(Snapshot), NEW m \in Nat, m <= Len(d.snapshots),
           OrderedTo(d.snapshots, m)
    PROVE  Sorted(RowsTo(d)[m], d.snapshots, m)
<1> DEFINE R == RowsTo(d)
           s == d.snapshots
           N == Len(s)
           T == {k \in Nat : k <= m /\ ~Sorted(R[k], s, k)}
<1>1. N \in Nat /\ \A k \in 0 .. N : R[k] \in Seq(Snapshot)
  BY RowsToIs
<1>2. T = {}
  <2>1. SUFFICES ASSUME T # {} PROVE FALSE
    OBVIOUS
  <2>2. PICK k \in T : \A j \in T : k <= j
    <3>1. T \in SUBSET Nat
      OBVIOUS
    <3> HIDE DEF T
    <3> QED BY <2>1, <3>1, Least
  <2>3. k \in Nat /\ k <= m /\ k <= N /\ ~Sorted(R[k], s, k)
    OBVIOUS
  <2>4. k # 0
    <3>1. R[0] = <<>>
      BY NoRowsTo
    <3>2. ASSUME k = 0 PROVE FALSE
      <4>1. R[k] = <<>>
        BY <3>1, <3>2
      <4> HIDE DEF R
      <4>2. Sorted(R[k], s, k)
        BY <4>1 DEF Sorted, OrderedTo
      <4> QED BY <2>3, <4>2
    <3> QED BY <3>2
  <2>5. k - 1 \in Nat /\ k - 1 <= m /\ k - 1 \notin T /\ k \in 1 .. N
    BY <1>1, <2>2, <2>3, <2>4
  <2>6. Sorted(R[k - 1], s, k - 1)
    BY <2>5
  <2>7. /\ R[k] \in Seq(Snapshot) /\ R[k - 1] \in Seq(Snapshot) /\ s[k] \in Snapshot
        /\ R[k] = IF s[k].qualifies THEN Append(R[k - 1], s[k]) ELSE R[k - 1]
    BY <2>5, NextRowOf
  <2> DEFINE q == R[k - 1]
             x == s[k]
  <2>10. Sorted(q, s, k - 1)
    BY <2>6
  <2>8. CASE ~x.qualifies
    <3>1. R[k] = q
      BY <2>7, <2>8
    <3>2. \A j \in 1 .. Len(q) : \E p \in 1 .. k : q[j] = s[p] /\ s[p].qualifies
      BY <2>5, <2>6 DEF Sorted
    <3> HIDE DEF q, R
    <3>3. Sorted(q, s, k)
      BY <2>10, <3>2 DEF Sorted
    <3> HIDE DEF T
    <3> QED BY <2>3, <3>1, <3>3
  <2>9. CASE x.qualifies
    <3>1. R[k] = Append(q, x) /\ q \in Seq(Snapshot) /\ x \in Snapshot
      BY <2>7, <2>9
    <3> DEFINE r == R[k]
    <3>2. /\ r \in Seq(Snapshot) /\ Len(r) = Len(q) + 1 /\ r[Len(q) + 1] = x /\ Len(q) \in Nat
          /\ \A j \in 1 .. Len(q) : r[j] = q[j]
      <4> HIDE DEF q, x, R
      <4> QED BY <3>1
    <3>3. \A j \in 1 .. Len(q) : \E p \in 1 .. k - 1 : q[j] = s[p] /\ s[p].qualifies
      BY <2>6 DEF Sorted
    <3>4. \A j \in 1 .. Len(r) : \E p \in 1 .. k : r[j] = s[p] /\ s[p].qualifies
      <4> SUFFICES ASSUME NEW j \in 1 .. Len(r)
                   PROVE  \E p \in 1 .. k : r[j] = s[p] /\ s[p].qualifies
        OBVIOUS
      <4> HIDE DEF r, q
      <4>1. CASE j <= Len(q)
        BY <3>2, <3>3, <4>1, <2>5
      <4>2. CASE j > Len(q)
        <5>1. r[j] = s[k] /\ k \in 1 .. k
          BY <3>2, <4>2, <2>5
        <5> QED BY <2>9, <5>1
      <4> QED BY <3>2, <4>1, <4>2
    <3>5. \A j \in 1 .. Len(q) : Follows(r[j], x)
      <4> SUFFICES ASSUME NEW j \in 1 .. Len(q) PROVE Follows(r[j], x)
        OBVIOUS
      <4>1. PICK p \in 1 .. k - 1 : q[j] = s[p]
        BY <3>3
      <4>2. p \in 1 .. m /\ k \in 1 .. m /\ p < k
        BY <2>3, <2>5
      <4>3. Follows(s[p], s[k])
        BY <4>2 DEF OrderedTo
      <4> QED BY <3>2, <4>1, <4>3
    <3>6. OrderedTo(r, Len(r))
      <4> SUFFICES ASSUME NEW i \in 1 .. Len(r), NEW j \in 1 .. Len(r), i < j
                   PROVE  Follows(r[i], r[j])
        BY DEF OrderedTo
      <4> HIDE DEF r, q, x
      <4>1. i \in 1 .. Len(q)
        BY <3>2
      <4>2. CASE j \in 1 .. Len(q)
        <5>1. Follows(q[i], q[j])
          BY <2>10, <4>1, <4>2 DEF Sorted, OrderedTo
        <5>2. r[i] = q[i] /\ r[j] = q[j]
          BY <3>2, <4>1, <4>2
        <5> QED BY <5>1, <5>2
      <4>3. CASE j \notin 1 .. Len(q)
        <5>1. r[j] = x
          BY <3>2, <4>3
        <5> QED BY <3>5, <4>1, <5>1
      <4> QED BY <4>2, <4>3
    <3> HIDE DEF R, q, x
    <3> QED BY <2>3, <3>4, <3>6 DEF Sorted
  <2> QED BY <2>8, <2>9
<1>3. m \notin T
  BY <1>2
<1> HIDE DEF R
<1> QED BY <1>3 DEF R

-----------------------------------------------------------------------------
(* What consuming an event does to each part of the flow. *)

IsFlow(f) ==
    DOMAIN f = {"events", "snapshots", "lastEvent", "lastSnapshot", "failed", "ordinal", "pending",
                "matches", "active", "transitions", "buckets", "total", "recent"}

Disordered(f, e) ==
    f.lastEvent # NoRow /\ (e.index <= f.lastEvent.index \/ e.time < f.lastEvent.time)

IsTrade(e) == e.kind = "execute" /\ InSession(e)
IsBreak(e) == e.kind = "broken_trade" /\ InSession(e)

Breaks(f, e) == e.match \in DOMAIN f.matches /\ ~f.matches[e.match].broken

MatchOf(f, e) ==
    IF e.match \in DOMAIN f.matches THEN f.matches[e.match] ELSE [held |-> {}, broken |-> FALSE]

Gone(f, e) == f.matches[e.match].held \cap f.active

SameRows(f, g) ==
    /\ g.snapshots = f.snapshots /\ g.lastSnapshot = f.lastSnapshot /\ g.ordinal = f.ordinal
    /\ g.transitions = f.transitions /\ g.buckets = f.buckets

SameTrades(f, g) ==
    /\ g.pending = f.pending /\ g.matches = f.matches /\ g.active = f.active
    /\ g.total = f.total /\ g.recent = f.recent

TradeTaken(f, g, e) ==
    /\ g.pending = f.pending \cup {e.index} /\ g.total = f.total
    /\ g.matches = Entered(f.matches, e.match, [held |-> MatchOf(f, e).held \cup {e.index},
                                                broken |-> MatchOf(f, e).broken])
    /\ g.active = IF MatchOf(f, e).broken THEN f.active ELSE f.active \cup {e.index}
    /\ g.recent = [w \in ClockWindows |-> Unexpired(Append(f.recent[w], e.time), e.time, w)]

MatchBroken(f, g, e) ==
    /\ g.pending = f.pending /\ g.recent = f.recent
    /\ g.matches = [f.matches EXCEPT ![e.match].broken = TRUE]
    /\ g.active = f.active \ Gone(f, e)
    /\ g.total = [w \in EventWindows |-> f.total[w] - Shares(Gone(f, e) \cap Held(f, w))]

\* The effect of one event, by its kind.
LEMMA ConsumedIs ==
    ASSUME NEW f, IsFlow(f), NEW e
    PROVE  /\ IsFlow(Consumed(f, e)) /\ SameRows(f, Consumed(f, e))
           /\ Consumed(f, e).events = f.events + 1 /\ Consumed(f, e).lastEvent = e
           /\ Consumed(f, e).failed = IF Disordered(f, e) THEN TRUE ELSE f.failed
           /\ ~Disordered(f, e) /\ IsTrade(e) => TradeTaken(f, Consumed(f, e), e)
           /\ ~Disordered(f, e) /\ IsBreak(e) /\ Breaks(f, e) => MatchBroken(f, Consumed(f, e), e)
           /\ ~Disordered(f, e) /\ ~IsTrade(e) /\ ~(IsBreak(e) /\ Breaks(f, e)) =>
                 SameTrades(f, Consumed(f, e))
<1> DEFINE g == [f EXCEPT !.events = @ + 1, !.lastEvent = e]
<1>1. /\ IsFlow(g) /\ SameRows(f, g) /\ SameTrades(f, g) /\ g.failed = f.failed
      /\ g.events = f.events + 1 /\ g.lastEvent = e
  BY DEF IsFlow, SameRows, SameTrades
<1>2. CASE Disordered(f, e)
  <2> DEFINE h == [g EXCEPT !.failed = TRUE]
  <2>1. Consumed(f, e) = h
    BY <1>2 DEF Consumed, Disordered
  <2> HIDE DEF g
  <2>2. /\ IsFlow(h) /\ SameRows(f, h) /\ h.failed = TRUE
        /\ h.events = f.events + 1 /\ h.lastEvent = e
    BY <1>1 DEF IsFlow, SameRows
  <2> HIDE DEF h
  <2> QED BY <1>2, <2>1, <2>2
<1>3. CASE ~Disordered(f, e) /\ IsTrade(e)
  <2> DEFINE r == Rated(g, e)
             h == Executed(r, e)
  <2>1. Consumed(f, e) = h
    BY <1>3 DEF Consumed, Disordered, IsTrade
  <2>2. IsTrade(e) /\ ~IsBreak(e)
    BY <1>3 DEF IsTrade, IsBreak
  <2> HIDE DEF g
  <2>3. /\ IsFlow(r) /\ SameRows(f, r) /\ r.failed = f.failed
        /\ r.events = f.events + 1 /\ r.lastEvent = e
        /\ r.pending = f.pending /\ r.matches = f.matches /\ r.active = f.active
        /\ r.total = f.total
        /\ r.recent = [w \in ClockWindows |-> Unexpired(Append(f.recent[w], e.time), e.time, w)]
    BY <1>1 DEF IsFlow, SameRows, SameTrades, Rated
  <2> HIDE DEF r
  <2>4. MatchOf(r, e) = MatchOf(f, e)
    BY <2>3 DEF MatchOf
  <2>5. h = [r EXCEPT !.pending = @ \cup {e.index},
                      !.matches = Entered(@, e.match, [held |-> MatchOf(r, e).held \cup {e.index},
                                                       broken |-> MatchOf(r, e).broken]),
                      !.active = IF MatchOf(r, e).broken THEN @ ELSE @ \cup {e.index}]
    BY DEF Executed, MatchOf
  <2>6. /\ IsFlow(h) /\ SameRows(f, h) /\ h.failed = f.failed
        /\ h.events = f.events + 1 /\ h.lastEvent = e /\ TradeTaken(f, h, e)
    <3> HIDE DEF h
    <3> QED BY <2>3, <2>4, <2>5 DEF IsFlow, SameRows, TradeTaken
  <2> HIDE DEF h
  <2> QED BY <1>3, <2>1, <2>2, <2>6
<1>4. CASE ~Disordered(f, e) /\ IsBreak(e) /\ Breaks(f, e)
  <2> DEFINE h == Broken(g, e)
  <2>0. g.matches = f.matches
    BY <1>1 DEF SameTrades
  <2>1. Consumed(f, e) = h
    BY <1>4, <2>0 DEF Consumed, Disordered, IsBreak, Breaks
  <2>2. IsBreak(e) /\ ~IsTrade(e)
    BY <1>4 DEF IsTrade, IsBreak
  <2> HIDE DEF g
  <2>3. \A w : Held(g, w) = Held(f, w)
    BY <1>1 DEF SameRows, Held
  <2>4. Gone(g, e) = Gone(f, e)
    BY <1>1 DEF SameTrades, Gone
  <2>5. h = [g EXCEPT !.total = [w \in EventWindows |-> g.total[w] - Shares(Gone(g, e) \cap Held(g, w))],
                      !.active = @ \ Gone(g, e),
                      !.matches[e.match].broken = TRUE]
    BY DEF Broken, Gone
  <2>6. [w \in EventWindows |-> g.total[w] - Shares(Gone(g, e) \cap Held(g, w))]
          = [w \in EventWindows |-> f.total[w] - Shares(Gone(f, e) \cap Held(f, w))]
    BY <1>1, <2>3, <2>4 DEF SameTrades
  <2>7. /\ IsFlow(h) /\ SameRows(f, h) /\ h.failed = f.failed
        /\ h.events = f.events + 1 /\ h.lastEvent = e /\ MatchBroken(f, h, e)
    <3> HIDE DEF h
    <3> QED BY <1>1, <2>4, <2>5, <2>6 DEF IsFlow, SameRows, SameTrades, MatchBroken
  <2> HIDE DEF h
  <2> QED BY <1>4, <2>1, <2>2, <2>7
<1>5. CASE ~Disordered(f, e) /\ ~IsTrade(e) /\ ~(IsBreak(e) /\ Breaks(f, e))
  <2>0. g.matches = f.matches
    BY <1>1 DEF SameTrades
  <2>1. Consumed(f, e) = g
    BY <1>5, <2>0 DEF Consumed, Disordered, IsBreak, IsTrade, Breaks
  <2> HIDE DEF g
  <2> QED BY <1>1, <1>5, <2>1
<1> QED BY <1>2, <1>3, <1>4, <1>5

-----------------------------------------------------------------------------
(* The windows of executions.  E is the set of events consumed, B[j] the    *)
(* message of the j-th qualifying row, and n how many rows there were.      *)

Trades(E) == {e \in E : IsTrade(e)}
Traded(E) == Indexes(Trades(E))

Rising(B, n) ==
    /\ \A j \in 0 .. n : B[j] \in Int
    /\ \A i, j \in 0 .. n : i < j => B[i] < B[j]

Span(E, low, high) == {i \in Traded(E) : low < i /\ i <= high}

Between(E, B) == [j \in Nat |-> Span(E, B[j - 1], B[j])]

First(n, w) == IF n <= w THEN 0 ELSE n - w

WindowsOk(f, E, B, n) ==
    /\ f.pending = {i \in Traded(E) : B[n] < i}
    /\ DOMAIN f.buckets = EventWindows
    /\ \A w \in EventWindows : /\ f.buckets[w] \in Seq(SUBSET Nat)
                               /\ Trailing(f.buckets[w], w, n, Between(E, B))

EventSet(E) ==
    /\ IsFiniteSet(E) /\ E \subseteq Event
    /\ \A x, y \in E : x.index = y.index => x = y

\* Executions as message indexes, with one event more.
LEMMA TradedIs ==
    ASSUME NEW E, EventSet(E)
    PROVE  Counting(Traded(E)) /\ Traded(E) \subseteq Nat
<1>1. Trades(E) \subseteq E
  BY DEF Trades
<1>2. IsFiniteSet(Trades(E))
  BY <1>1, FS_Subset DEF EventSet
<1> DEFINE ix == [t \in Trades(E) |-> t.index]
<1>3. ix \in Surjection(Trades(E), Traded(E))
  BY DEF Surjection, Traded, Indexes
<1>4. IsFiniteSet(Traded(E))
  BY <1>2, <1>3, FS_Surjection
<1>5. \A t \in Trades(E) : t.index \in DOMAIN SharesOf /\ t.index \in Nat
  BY <1>1, EventIs DEF EventSet, Row
<1>6. Traded(E) \subseteq DOMAIN SharesOf /\ Traded(E) \subseteq Nat
  BY <1>5 DEF Traded, Indexes
<1> QED BY <1>4, <1>6 DEF Counting

\* A window of buckets holds the executions since its first bucket.
LEMMA HeldIs ==
    ASSUME NEW f, NEW E, NEW B, NEW n \in Nat, EventSet(E), Rising(B, n),
           WindowsOk(f, E, B, n), NEW w \in EventWindows
    PROVE  Held(f, w) = Span(E, B[First(n, w)], B[n])
<1> DEFINE q == f.buckets[w]
           a == First(n, w)
           G == Between(E, B)
<1>1. w \in Nat /\ w > 0
  BY RowsAssumption
<1>2. q \in Seq(SUBSET Nat) /\ Trailing(q, w, n, G)
  BY DEF WindowsOk
<1>3. a \in Nat /\ a <= n /\ Len(q) = n - a /\ Len(q) \in Nat
  BY <1>1, <1>2 DEF First, Trailing
<1>4. \A l \in 1 .. Len(q) : a + l \in 1 .. n /\ q[l] = Span(E, B[a + l - 1], B[a + l])
  <2>1. SUFFICES ASSUME NEW l \in 1 .. Len(q)
                 PROVE  a + l \in 1 .. n /\ q[l] = Span(E, B[a + l - 1], B[a + l])
    OBVIOUS
  <2>2. q[l] = G[n - Len(q) + l]
    BY <1>2 DEF Trailing
  <2>3. n - Len(q) + l = a + l /\ a + l \in 1 .. n /\ a + l \in Nat
    BY <1>3
  <2>4. G[a + l] = Span(E, B[a + l - 1], B[a + l])
    <3> DEFINE k == a + l
    <3>1. k \in Nat
      BY <2>3
    <3> HIDE DEF k
    <3>2. G[k] = Span(E, B[k - 1], B[k])
      BY <3>1 DEF Between
    <3>3. k = a + l /\ k - 1 = a + l - 1
      <4>1. a \in Int /\ l \in Int
        BY <1>3
      <4> HIDE DEF a
      <4> QED BY <4>1 DEF k
    <3> HIDE DEF a, G
    <3> QED BY <3>2, <3>3
  <2>5. G[n - Len(q) + l] = G[a + l]
    BY <2>3
  <2> HIDE DEF q, a, G
  <2> QED BY <2>2, <2>3, <2>4, <2>5
<1>5. Traded(E) \subseteq Nat
  BY TradedIs
<1>6. Held(f, w) = UNION {q[l] : l \in 1 .. Len(q)}
  BY <1>2 DEF Held, ToSet
<1> HIDE DEF q, a, G
<1>7. ASSUME NEW l \in 1 .. Len(q), NEW i \in q[l] PROVE i \in Span(E, B[a], B[n])
  <2>1. a + l - 1 \in 0 .. n /\ a + l \in 0 .. n /\ a \in 0 .. n /\ n \in 0 .. n
    BY <1>3, <1>4
  <2>2. B[a] <= B[a + l - 1] /\ B[a + l] <= B[n]
    <3>1. B[a] \in Int /\ B[a + l - 1] \in Int /\ B[a + l] \in Int /\ B[n] \in Int
      BY <2>1 DEF Rising
    <3>2. a = a + l - 1 \/ a < a + l - 1
      BY <1>3
    <3>3. a + l = n \/ a + l < n
      BY <1>3, <2>1
    <3> QED BY <2>1, <3>1, <3>2, <3>3 DEF Rising
  <2>3. i \in Traded(E) /\ B[a + l - 1] < i /\ i <= B[a + l]
    BY <1>4, <1>7 DEF Span
  <2>4. i \in Int /\ B[a] \in Int /\ B[a + l - 1] \in Int /\ B[a + l] \in Int /\ B[n] \in Int
    BY <1>5, <2>1, <2>3 DEF Rising
  <2> QED BY <2>2, <2>3, <2>4 DEF Span
<1>8. ASSUME NEW i \in Span(E, B[a], B[n]) PROVE \E l \in 1 .. Len(q) : i \in q[l]
  <2> DEFINE T == {j \in Nat : j <= n /\ i <= B[j]}
  <2>1. i \in Traded(E) /\ i \in Nat /\ B[a] < i /\ i <= B[n]
    BY <1>5, <1>8 DEF Span
  <2>2. PICK j \in T : \A k \in T : j <= k
    <3>1. n \in T
      BY <2>1
    <3>2. T \in SUBSET Nat /\ T # {}
      BY <3>1
    <3> HIDE DEF T
    <3> QED BY <3>2, Least
  <2>3. j \in Nat /\ j <= n /\ i <= B[j]
    OBVIOUS
  <2>4. j > a
    <3>1. a \in 0 .. n /\ j \in 0 .. n
      BY <1>3, <2>3
    <3>2. B[a] \in Int /\ B[j] \in Int
      BY <3>1 DEF Rising
    <3>3. ASSUME j <= a PROVE FALSE
      <4>1. j = a \/ j < a
        BY <3>1, <3>3
      <4>2. B[j] <= B[a]
        BY <3>1, <3>2, <4>1 DEF Rising
      <4> QED BY <2>1, <2>3, <3>2, <4>2
    <3> QED BY <3>1, <3>3
  <2>5. j - 1 \in Nat /\ j - 1 \notin T /\ j - 1 <= n
    BY <1>3, <2>2, <2>3, <2>4
  <2>6. B[j - 1] < i
    <3>1. B[j - 1] \in Int /\ ~(i <= B[j - 1])
      BY <2>5 DEF Rising
    <3> QED BY <2>1, <3>1
  <2> DEFINE l == j - a
  <2>7. l \in 1 .. Len(q) /\ a + l = j
    BY <1>3, <2>3, <2>4
  <2>8. i \in Span(E, B[j - 1], B[j])
    BY <2>1, <2>3, <2>6 DEF Span
  <2>9. q[l] = Span(E, B[a + l - 1], B[a + l])
    BY <1>4, <2>7
  <2>10. a + l - 1 = j - 1
    BY <1>3, <2>3
  <2> HIDE DEF l, T
  <2> QED BY <2>7, <2>8, <2>9, <2>10
<1> QED BY <1>6, <1>7, <1>8 DEF a

(* An event later than every row changes no bucket.                         *)
LEMMA TradedNext ==
    ASSUME NEW E, NEW e
    PROVE  Traded(E \cup {e}) = IF IsTrade(e) THEN Traded(E) \cup {e.index} ELSE Traded(E)
<1> QED BY DEF Traded, Trades, Indexes

\* A later event changes no closed bucket and may join the open one.
LEMMA WindowsConsume ==
    ASSUME NEW f, NEW g, NEW E, NEW B, NEW n \in Nat, EventSet(E), Rising(B, n),
           WindowsOk(f, E, B, n), NEW e \in Event, B[n] < e.index,
           g.buckets = f.buckets,
           g.pending = IF IsTrade(e) THEN f.pending \cup {e.index} ELSE f.pending
    PROVE  WindowsOk(g, E \cup {e}, B, n)
<1> DEFINE D == E \cup {e}
<1>1. Traded(D) = IF IsTrade(e) THEN Traded(E) \cup {e.index} ELSE Traded(E)
  BY TradedNext
<1>2. g.pending = {i \in Traded(D) : B[n] < i}
  BY <1>1 DEF WindowsOk
<1>3. e.index \in Nat
  BY EventIs DEF Row
<1>4. ASSUME NEW j \in 1 .. n PROVE Between(E, B)[j] = Between(D, B)[j]
  <2>1. j \in 0 .. n /\ n \in 0 .. n /\ (j = n \/ j < n) /\ j \in Nat
    OBVIOUS
  <2>2. B[j] <= B[n] /\ B[j] \in Int /\ B[n] \in Int
    BY <2>1 DEF Rising
  <2>3. ~(e.index <= B[j])
    BY <1>3, <2>2
  <2>4. Span(E, B[j - 1], B[j]) = Span(D, B[j - 1], B[j])
    BY <1>1, <2>3 DEF Span
  <2> HIDE DEF D
  <2> QED BY <2>1, <2>4 DEF Between
<1> HIDE DEF D
<1>5. ASSUME NEW w \in EventWindows
      PROVE  g.buckets[w] \in Seq(SUBSET Nat) /\ Trailing(g.buckets[w], w, n, Between(D, B))
  <2>1. w \in Nat
    BY RowsAssumption
  <2>2. f.buckets[w] \in Seq(SUBSET Nat) /\ Trailing(f.buckets[w], w, n, Between(E, B))
    BY DEF WindowsOk
  <2>3. Trailing(f.buckets[w], w, n, Between(D, B))
    BY <1>4, <2>1, <2>2, TrailsSame
  <2> QED BY <2>2, <2>3
<1> QED BY <1>2, <1>5 DEF WindowsOk, D

-----------------------------------------------------------------------------
(* The executions of a match that are still in a window, and which of them  *)
(* count.                                                                   *)

Present(f) == f.pending \cup UNION {Held(f, w) : w \in EventWindows}

AreKnown(f, E) ==
    \A t \in Trades(E) : t.index \in Present(f) =>
        t.match \in DOMAIN f.matches /\ t.index \in f.matches[t.match].held

AreUnbroken(f, E) ==
    \A t \in Trades(E) : t.index \in Present(f) /\ t.index \in f.active =>
        \A b \in E : IsBreak(b) /\ b.match = t.match => b.index < t.index

AreActive(f, E) ==
    \A t \in Trades(E) : (\A b \in E : IsBreak(b) => b.match # t.match) => t.index \in f.active

MatchIs(f, E, m) ==
    /\ DOMAIN f.matches[m] = {"held", "broken"}
    /\ f.matches[m].broken => /\ f.matches[m].held \cap f.active = {}
                              /\ \E b \in E : IsBreak(b) /\ b.match = m
    /\ \A i \in f.matches[m].held : \E t \in Trades(E) : t.index = i /\ t.match = m

MatchesOk(f, E) ==
    /\ f.active \subseteq Traded(E)
    /\ AreKnown(f, E) /\ AreUnbroken(f, E) /\ AreActive(f, E)
    /\ \A m \in DOMAIN f.matches : MatchIs(f, E, m)

Later(E, e) == e \in Event /\ \A x \in E : Follows(x, e)

\* A later event is a new one.
LEMMA LaterEventSet ==
    ASSUME NEW E, EventSet(E), NEW e, Later(E, e)
    PROVE  EventSet(E \cup {e}) /\ e.index \notin Traded(E) /\ e \notin E
<1>1. \A x \in E : Row(x) /\ x.index < e.index
  BY EventIs DEF EventSet, Later, Follows
<1>2. Row(e) /\ e \in Event
  BY EventIs DEF Later
<1>3. \A x \in E : x.index # e.index
  BY <1>1, <1>2 DEF Row
<1>4. IsFiniteSet(E \cup {e}) /\ E \cup {e} \subseteq Event
  BY <1>2, FS_AddElement DEF EventSet
<1> QED BY <1>3, <1>4 DEF EventSet, Traded, Trades, Indexes

\* Its executions.
LEMMA TradesNext ==
    ASSUME NEW E, NEW e
    PROVE  Trades(E \cup {e}) = IF IsTrade(e) THEN Trades(E) \cup {e} ELSE Trades(E)
<1> QED BY DEF Trades

(* A trade. *)
LEMMA TradeMatches ==
    ASSUME NEW f, NEW g, NEW E, EventSet(E), NEW e, Later(E, e), IsTrade(e),
           MatchesOk(f, E), TradeTaken(f, g, e), g.buckets = f.buckets
    PROVE  MatchesOk(g, E \cup {e})
<1> DEFINE D == E \cup {e}
           i == e.index
<1>1. /\ Trades(D) = Trades(E) \cup {e} /\ i \notin Traded(E)
      /\ Traded(D) = Traded(E) \cup {i} /\ ~IsBreak(e)
  BY TradesNext, TradedNext, LaterEventSet DEF IsTrade, IsBreak
<1>2. Present(g) = Present(f) \cup {i}
  BY DEF Present, Held, TradeTaken
<1>3. /\ DOMAIN g.matches = DOMAIN f.matches \cup {e.match}
      /\ g.matches[e.match] = [held |-> MatchOf(f, e).held \cup {i}, broken |-> MatchOf(f, e).broken]
      /\ \A m \in DOMAIN f.matches \ {e.match} : g.matches[m] = f.matches[m]
  BY DEF TradeTaken, Entered
<1>4. /\ f.active \subseteq g.active /\ g.active \subseteq f.active \cup {i}
      /\ MatchOf(f, e).broken => g.active = f.active
      /\ ~MatchOf(f, e).broken => i \in g.active
  BY DEF TradeTaken
<1>5. \A b \in D : IsBreak(b) <=> b \in E /\ IsBreak(b)
  BY <1>1
<1>6. g.active \subseteq Traded(D)
  BY <1>1, <1>4 DEF MatchesOk
<1>7. \A t \in Trades(E) : t \in E /\ t.index \in Traded(E) /\ t.index # i
  BY <1>1 DEF Trades, Traded, Indexes
<1>8. AreKnown(g, D)
  <2> SUFFICES ASSUME NEW t \in Trades(D), t.index \in Present(g)
               PROVE  t.match \in DOMAIN g.matches /\ t.index \in g.matches[t.match].held
    BY DEF AreKnown
  <2>1. CASE t = e
    BY <1>3, <2>1
  <2>2. CASE t # e
    <3>1. t \in Trades(E) /\ t.index \in Present(f)
      BY <1>1, <1>2, <1>7, <2>2
    <3>2. t.match \in DOMAIN f.matches /\ t.index \in f.matches[t.match].held
      BY <3>1 DEF MatchesOk, AreKnown
    <3> QED BY <1>3, <3>2 DEF MatchOf
  <2> QED BY <2>1, <2>2
<1>9. AreUnbroken(g, D)
  <2> SUFFICES ASSUME NEW t \in Trades(D), t.index \in Present(g), t.index \in g.active,
                      NEW b \in E, IsBreak(b), b.match = t.match
               PROVE  b.index < t.index
    BY <1>5 DEF AreUnbroken
  <2>1. CASE t = e
    BY <2>1 DEF Later, Follows
  <2>2. CASE t # e
    <3>1. t \in Trades(E) /\ t.index \in Present(f) /\ t.index \in f.active
      BY <1>1, <1>2, <1>4, <1>7, <2>2
    <3> QED BY <3>1 DEF MatchesOk, AreUnbroken
  <2> QED BY <2>1, <2>2
<1>10. AreActive(g, D)
  <2> SUFFICES ASSUME NEW t \in Trades(D), \A b \in E : IsBreak(b) => b.match # t.match
               PROVE  t.index \in g.active
    BY DEF AreActive
  <2>1. CASE t = e
    <3>1. ~MatchOf(f, e).broken
      BY <2>1 DEF MatchOf, MatchesOk, MatchIs
    <3> QED BY <1>4, <2>1, <3>1
  <2>2. CASE t # e
    BY <1>1, <1>4, <2>2 DEF MatchesOk, AreActive
  <2> QED BY <2>1, <2>2
<1>11. ASSUME NEW m \in DOMAIN g.matches PROVE MatchIs(g, D, m)
  <2>1. CASE m # e.match
    <3>1. m \in DOMAIN f.matches /\ g.matches[m] = f.matches[m] /\ MatchIs(f, E, m)
      BY <1>3, <2>1 DEF MatchesOk
    <3>2. i \notin f.matches[m].held
      BY <1>7, <3>1 DEF MatchIs
    <3>3. f.matches[m].held \cap g.active = f.matches[m].held \cap f.active
      BY <1>4, <3>2
    <3>4. Trades(E) \subseteq Trades(D)
      BY <1>1
    <3> HIDE DEF i
    <3> QED BY <3>1, <3>3, <3>4 DEF MatchIs
  <2>2. CASE m = e.match
    <3>1. /\ DOMAIN g.matches[m] = {"held", "broken"}
          /\ g.matches[m].held = MatchOf(f, e).held \cup {i}
          /\ g.matches[m].broken = MatchOf(f, e).broken
      BY <1>3, <2>2
    <3>2. \A x \in MatchOf(f, e).held : \E t \in Trades(E) : t.index = x /\ t.match = m
      BY <2>2 DEF MatchOf, MatchesOk, MatchIs
    <3>3. \A x \in g.matches[m].held : \E t \in Trades(D) : t.index = x /\ t.match = m
      <4>1. e \in Trades(D) /\ e.match = m /\ e.index = i
        BY <1>1, <2>2
      <4> QED BY <1>1, <3>1, <3>2, <4>1
    <3>4. ASSUME g.matches[m].broken
          PROVE  g.matches[m].held \cap g.active = {} /\ \E b \in D : IsBreak(b) /\ b.match = m
      <4>1. MatchOf(f, e).broken
        BY <3>1, <3>4
      <4>2. m \in DOMAIN f.matches /\ MatchOf(f, e) = f.matches[m] /\ MatchIs(f, E, m)
        BY <2>2, <4>1 DEF MatchOf, MatchesOk
      <4>3. g.active = f.active /\ i \notin f.active
        BY <1>1, <1>4, <4>1 DEF MatchesOk
      <4> QED BY <3>1, <4>1, <4>2, <4>3 DEF MatchIs
    <3> QED BY <3>1, <3>3, <3>4 DEF MatchIs
  <2> QED BY <2>1, <2>2
<1> QED BY <1>6, <1>8, <1>9, <1>10, <1>11 DEF MatchesOk
(* A break of a match that is known and not broken. *)
LEMMA BreakMatches ==
    ASSUME NEW f, NEW g, NEW E, EventSet(E), NEW e, Later(E, e), IsBreak(e), Breaks(f, e),
           MatchesOk(f, E), MatchBroken(f, g, e), g.buckets = f.buckets
    PROVE  MatchesOk(g, E \cup {e})
<1> DEFINE D == E \cup {e}
           k == e.match
<1>1. Trades(D) = Trades(E) /\ Traded(D) = Traded(E) /\ ~IsTrade(e)
  BY TradesNext, TradedNext DEF IsTrade, IsBreak
<1>2. Present(g) = Present(f)
  BY DEF Present, Held, MatchBroken
<1>3. /\ k \in DOMAIN f.matches /\ DOMAIN g.matches = DOMAIN f.matches
      /\ \A m \in DOMAIN f.matches \ {k} : g.matches[m] = f.matches[m]
      /\ DOMAIN g.matches[k] = {"held", "broken"}
      /\ g.matches[k].held = f.matches[k].held
  <2>1. k \in DOMAIN f.matches /\ DOMAIN f.matches[k] = {"held", "broken"}
    BY DEF Breaks, MatchesOk, MatchIs
  <2>2. g.matches = [f.matches EXCEPT ![k] = [f.matches[k] EXCEPT !.broken = TRUE]]
    BY DEF MatchBroken
  <2> QED BY <2>1, <2>2
<1>4. g.active = f.active \ (f.matches[k].held \cap f.active)
  BY DEF MatchBroken, Gone
<1>5. g.active \subseteq Traded(D)
  BY <1>1, <1>4 DEF MatchesOk
<1>6. \A t \in Trades(E) : t.index \in f.matches[k].held => t.match = k
  <2> SUFFICES ASSUME NEW t \in Trades(E), t.index \in f.matches[k].held PROVE t.match = k
    OBVIOUS
  <2>1. PICK x \in Trades(E) : x.index = t.index /\ x.match = k
    BY <1>3 DEF MatchesOk, MatchIs
  <2> QED BY <2>1 DEF Trades, EventSet
<1>7. AreKnown(g, D)
  <2> SUFFICES ASSUME NEW t \in Trades(E), t.index \in Present(f)
               PROVE  t.match \in DOMAIN g.matches /\ t.index \in g.matches[t.match].held
    BY <1>1, <1>2 DEF AreKnown
  <2>1. t.match \in DOMAIN f.matches /\ t.index \in f.matches[t.match].held
    BY DEF MatchesOk, AreKnown
  <2> QED BY <1>3, <2>1
<1>8. AreUnbroken(g, D)
  <2> SUFFICES ASSUME NEW t \in Trades(E), t.index \in Present(f), t.index \in g.active,
                      NEW b \in D, IsBreak(b), b.match = t.match
               PROVE  b.index < t.index
    BY <1>1, <1>2 DEF AreUnbroken
  <2>1. t.index \in f.active /\ t.index \notin f.matches[k].held
    BY <1>4
  <2>2. t.index \in f.matches[t.match].held
    BY DEF MatchesOk, AreKnown
  <2>3. b # e
    BY <2>1, <2>2
  <2> QED BY <2>1, <2>3 DEF MatchesOk, AreUnbroken
<1>9. AreActive(g, D)
  <2> SUFFICES ASSUME NEW t \in Trades(E), \A b \in D : IsBreak(b) => b.match # t.match
               PROVE  t.index \in g.active
    BY <1>1 DEF AreActive
  <2>1. t.index \in f.active /\ t.match # k
    BY DEF MatchesOk, AreActive
  <2> QED BY <1>4, <1>6, <2>1
<1>10. ASSUME NEW m \in DOMAIN g.matches PROVE MatchIs(g, D, m)
  <2>1. MatchIs(f, E, m) /\ m \in DOMAIN f.matches
    BY <1>3 DEF MatchesOk
  <2>2. CASE m # k
    <3>1. g.matches[m] = f.matches[m] /\ f.matches[m].held \cap g.active \subseteq f.matches[m].held \cap f.active
      BY <1>3, <1>4, <2>1, <2>2
    <3> QED BY <1>1, <2>1, <3>1 DEF MatchIs
  <2>3. CASE m = k
    <3>1. f.matches[m].held \cap g.active = {}
      BY <1>4, <2>3
    <3>2. \E b \in D : IsBreak(b) /\ b.match = m
      BY <2>3
    <3> QED BY <1>1, <1>3, <2>1, <2>3, <3>1, <3>2 DEF MatchIs
  <2> QED BY <2>2, <2>3
<1> QED BY <1>5, <1>7, <1>8, <1>9, <1>10 DEF MatchesOk

(* Any other event; a break of a match that is unknown or broken finds no   *)
(* execution of it to take out.                                             *)
LEMMA OtherMatches ==
    ASSUME NEW f, NEW g, NEW E, EventSet(E), NEW e, ~IsTrade(e), ~(IsBreak(e) /\ Breaks(f, e)),
           MatchesOk(f, E), SameTrades(f, g), g.buckets = f.buckets
    PROVE  MatchesOk(g, E \cup {e})
<1> DEFINE D == E \cup {e}
<1>1. Trades(D) = Trades(E) /\ Traded(D) = Traded(E)
  BY TradesNext, TradedNext
<1>2. Present(g) = Present(f) /\ g.active = f.active /\ g.matches = f.matches
  BY DEF Present, Held, SameTrades
<1>3. AreUnbroken(g, D)
  <2> SUFFICES ASSUME NEW t \in Trades(E), t.index \in Present(f), t.index \in f.active,
                      NEW b \in D, IsBreak(b), b.match = t.match
               PROVE  b.index < t.index
    BY <1>1, <1>2 DEF AreUnbroken
  <2>1. t.match \in DOMAIN f.matches /\ t.index \in f.matches[t.match].held
    BY DEF MatchesOk, AreKnown
  <2>2. ~f.matches[t.match].broken
    BY <2>1 DEF MatchesOk, MatchIs
  <2>3. b # e
    BY <2>1, <2>2 DEF Breaks
  <2> QED BY <2>3 DEF MatchesOk, AreUnbroken
<1>4. AreKnown(g, D) /\ AreActive(g, D) /\ g.active \subseteq Traded(D)
  BY <1>1, <1>2 DEF MatchesOk, AreKnown, AreActive
<1>5. ASSUME NEW m \in DOMAIN g.matches PROVE MatchIs(g, D, m)
  BY <1>1, <1>2 DEF MatchesOk, MatchIs
<1> QED BY <1>3, <1>4, <1>5 DEF MatchesOk

-----------------------------------------------------------------------------
(* The totals are the shares of the executions that count.                  *)

TotalsOk(f) ==
    /\ f.total \in [EventWindows -> Int]
    /\ \A w \in EventWindows : f.total[w] = Shares(Held(f, w) \cap f.active)

\* Parts of a countable set are countable.
LEMMA PartCounts ==
    ASSUME NEW A, Counting(A), NEW C, C \subseteq A PROVE Counting(C)
<1> QED BY FS_Subset DEF Counting

\* A break takes its shares out of every window that holds them.
LEMMA TotalsConsume ==
    ASSUME NEW f, NEW g, NEW E, NEW B, NEW n \in Nat, EventSet(E), Rising(B, n), WindowsOk(f, E, B, n),
           NEW e, Later(E, e), MatchesOk(f, E), TotalsOk(f), g.buckets = f.buckets,
           \/ IsTrade(e) /\ TradeTaken(f, g, e)
           \/ IsBreak(e) /\ MatchBroken(f, g, e)
           \/ SameTrades(f, g)
    PROVE  TotalsOk(g)
<1>1. \A w \in EventWindows : Held(g, w) = Held(f, w) /\ e.index \notin Held(f, w)
  <2> SUFFICES ASSUME NEW w \in EventWindows
               PROVE  Held(g, w) = Held(f, w) /\ e.index \notin Held(f, w)
    OBVIOUS
  <2>1. Held(g, w) = Held(f, w)
    BY DEF Held
  <2>2. Held(f, w) \subseteq Traded(E)
    BY HeldIs DEF Span
  <2> QED BY <2>1, <2>2, LaterEventSet
<1>2. CASE IsTrade(e) /\ TradeTaken(f, g, e)
  <2>1. \A w \in EventWindows : Held(g, w) \cap g.active = Held(f, w) \cap f.active
    BY <1>1, <1>2 DEF TradeTaken
  <2> QED BY <1>2, <2>1 DEF TotalsOk, TradeTaken
<1>3. CASE IsBreak(e) /\ MatchBroken(f, g, e)
  <2> SUFFICES ASSUME NEW w \in EventWindows
               PROVE  /\ f.total[w] - Shares(Gone(f, e) \cap Held(f, w)) \in Int
                      /\ f.total[w] - Shares(Gone(f, e) \cap Held(f, w)) = Shares(Held(g, w) \cap g.active)
    BY <1>3 DEF TotalsOk, MatchBroken
  <2> DEFINE A == Held(f, w) \cap f.active
             C == Gone(f, e) \cap Held(f, w)
             R == Held(g, w) \cap g.active
  <2>1. A = R \cup C /\ R \cap C = {}
    BY <1>1, <1>3 DEF MatchBroken, Gone
  <2>2. Counting(A)
    BY TradedIs, PartCounts DEF MatchesOk
  <2>3. Counting(R) /\ Counting(C)
    BY <2>1, <2>2, PartCounts
  <2>4. Shares(R) \in Int /\ Shares(C) \in Int /\ Shares(A) = Shares(R) + Shares(C)
    <3> HIDE DEF A, C, R
    <3> QED BY <2>1, <2>3, SharesAdd
  <2>5. f.total[w] = Shares(A)
    BY DEF TotalsOk
  <2> HIDE DEF A, C, R
  <2>6. f.total[w] - Shares(C) = Shares(R) /\ Shares(R) \in Int
    BY <2>4, <2>5
  <2> QED BY <2>6 DEF C, R
<1>4. CASE SameTrades(f, g)
  <2>1. \A w \in EventWindows : Held(g, w) \cap g.active = Held(f, w) \cap f.active
    BY <1>1, <1>4 DEF SameTrades
  <2> QED BY <1>4, <2>1 DEF TotalsOk, SameTrades
<1> QED BY <1>2, <1>3, <1>4

-----------------------------------------------------------------------------
(* The queues of times. *)

Inside(times, now, w) == {i \in DOMAIN times : times[i] + w > now}

Queue(q) == q \in Seq(Nat) /\ \A i, j \in 1 .. Len(q) : i <= j => q[i] <= q[j]

Aged(u, q, now, w) ==
    /\ Queue(u) /\ \A i \in 1 .. Len(u) : \E j \in 1 .. Len(q) : u[i] = q[j]
    /\ Len(u) = Cardinality(Inside(q, now, w))
    /\ \A t \in Nat : t >= now => Cardinality(Inside(u, t, w)) = Cardinality(Inside(q, t, w))

\* From a queue in order, just the times outside the window leave.
LEMMA UnexpiredIs ==
    ASSUME NEW q, Queue(q), NEW now \in Nat, NEW w \in Nat
    PROVE  Aged(Unexpired(q, now, w), q, now, w)
<1> DEFINE I == Inside(q, now, w)
           N == Len(q)
           u == Unexpired(q, now, w)
<1>1. N \in Nat /\ DOMAIN q = 1 .. N /\ \A i \in 1 .. N : q[i] \in Nat
  BY DEF Queue
<1>2. I \subseteq 1 .. N /\ \A i \in 1 .. N : i \in I <=> q[i] + w > now
  BY <1>1 DEF Inside
<1>3. ASSUME I = {} PROVE Aged(u, q, now, w)
  <2>1. u = <<>>
    BY <1>3 DEF Unexpired, Inside
  <2>2. ASSUME NEW t \in Nat, t >= now PROVE Inside(q, t, w) = {} /\ Inside(u, t, w) = {}
    <3>1. \A i \in 1 .. N : ~(q[i] + w > t)
      BY <1>1, <1>2, <1>3, <2>2
    <3>2. Inside(q, t, w) = {}
      BY <1>1, <3>1 DEF Inside
    <3>3. Inside(u, t, w) = {}
      BY <2>1 DEF Inside
    <3> QED BY <3>2, <3>3
  <2>3. Cardinality(I) = 0
    BY <1>3, FS_EmptySet
  <2>4. Queue(u) /\ Len(u) = 0
    BY <2>1 DEF Queue
  <2> HIDE DEF u
  <2>5. \A i \in 1 .. Len(u) : \E j \in 1 .. Len(q) : u[i] = q[j]
    BY <2>4
  <2>6. Len(u) = Cardinality(Inside(q, now, w))
    BY <2>3, <2>4
  <2>7. \A t \in Nat : t >= now => Cardinality(Inside(u, t, w)) = Cardinality(Inside(q, t, w))
    BY <2>2
  <2> QED BY <2>4, <2>5, <2>6, <2>7 DEF Aged
<1>4. ASSUME I # {} PROVE Aged(u, q, now, w)
  <2> DEFINE m == Min(I)
  <2>1. m \in I /\ \A i \in I : m <= i
    <3>1. I \in SUBSET Nat
      BY <1>1, <1>2
    <3> HIDE DEF I
    <3>2. \E x \in I : \A i \in I : x <= i
      BY <1>4, <3>1, Least
    <3> QED BY <3>2 DEF Min
  <2>2. u = SubSeq(q, m, N)
    BY <1>4 DEF Unexpired, Inside
  <2> HIDE DEF m
  <2>3. m \in 1 .. N
    BY <1>2, <2>1
  <2>4. /\ u \in Seq(Nat) /\ Len(u) = N - m + 1
        /\ \A i \in 1 .. N - m + 1 : u[i] = q[m + i - 1] /\ m + i - 1 \in 1 .. N
    <3>1. q \in Seq(Nat)
      BY DEF Queue
    <3> HIDE DEF u
    <3> QED BY <1>1, <2>2, <2>3, <3>1
  <2> HIDE DEF u
  <2>5. Queue(u)
    <3> SUFFICES ASSUME NEW i \in 1 .. Len(u), NEW j \in 1 .. Len(u), i <= j PROVE u[i] <= u[j]
      BY <2>4 DEF Queue
    <3>1. /\ m + i - 1 \in 1 .. N /\ m + j - 1 \in 1 .. N /\ m + i - 1 <= m + j - 1
          /\ u[i] = q[m + i - 1] /\ u[j] = q[m + j - 1]
      BY <2>3, <2>4
    <3> QED BY <3>1 DEF Queue
  <2>6. \A i \in 1 .. N : i >= m <=> q[i] + w > now
    <3> SUFFICES ASSUME NEW i \in 1 .. N PROVE i >= m <=> q[i] + w > now
      OBVIOUS
    <3>1. q[m] + w > now /\ q[m] \in Nat /\ q[i] \in Nat /\ m \in Nat
      BY <1>1, <1>2, <2>1, <2>3
    <3>2. i >= m => q[m] <= q[i]
      BY <2>3 DEF Queue
    <3>3. q[i] + w > now => i >= m
      BY <1>2, <2>1, <2>3
    <3> QED BY <3>1, <3>2, <3>3
  <2>7. ASSUME NEW t \in Nat, t >= now
        PROVE  Cardinality(Inside(u, t, w)) = Cardinality(Inside(q, t, w))
    <3> DEFINE S == Inside(u, t, w)
               T == Inside(q, t, w)
               c == [i \in S |-> m + i - 1]
    <3>1. S \subseteq 1 .. N - m + 1 /\ DOMAIN u = 1 .. N - m + 1
      BY <2>4 DEF Inside
    <3>2. IsFiniteSet(S)
      <4> DEFINE L == N - m + 1
      <4>1. L \in Int /\ 1 \in Int /\ S \subseteq 1 .. L
        BY <1>1, <2>3, <3>1
      <4> HIDE DEF L, S
      <4>2. IsFiniteSet(1 .. L)
        BY <4>1, FS_Interval
      <4> QED BY <4>1, <4>2, FS_Subset
    <3>3. \A i \in S : c[i] \in T
      BY <1>1, <2>4, <3>1 DEF Inside
    <3>4. \A i, j \in S : c[i] = c[j] => i = j
      BY <2>3, <3>1
    <3>5. \A k \in T : \E i \in S : c[i] = k
      <4> SUFFICES ASSUME NEW k \in T PROVE \E i \in S : c[i] = k
        OBVIOUS
      <4>1. k \in 1 .. N /\ q[k] + w > t
        BY <1>1 DEF Inside
      <4>2. k >= m
        BY <1>1, <2>6, <2>7, <4>1
      <4> DEFINE i == k - m + 1
      <4>3. i \in 1 .. N - m + 1 /\ m + i - 1 = k
        BY <2>3, <4>1, <4>2
      <4>4. i \in S
        BY <2>4, <3>1, <4>1, <4>3 DEF Inside
      <4> HIDE DEF i, S
      <4> QED BY <4>3, <4>4
    <3> HIDE DEF S, T
    <3>6. c \in [S -> T]
      BY <3>3
    <3>7. c \in Bijection(S, T)
      BY <3>4, <3>5, <3>6 DEF Bijection, Injection, Surjection, IsInjective
    <3> HIDE DEF c
    <3>8. Cardinality(T) = Cardinality(S)
      BY <3>2, <3>7, FS_Bijection DEF ExistsBijection
    <3> QED BY <3>8 DEF S, T
  <2>8. Cardinality(Inside(u, now, w)) = Len(u)
    <3>1. ASSUME NEW i \in 1 .. N - m + 1 PROVE u[i] + w > now
      <4>1. m + i - 1 \in 1 .. N /\ m + i - 1 >= m /\ u[i] = q[m + i - 1]
        BY <2>3, <2>4
      <4> QED BY <2>6, <4>1
    <3>2. Inside(u, now, w) = 1 .. N - m + 1
      BY <2>4, <3>1 DEF Inside
    <3>3. N - m + 1 \in Nat
      BY <1>1, <2>3
    <3>4. Cardinality(1 .. N - m + 1) = N - m + 1
      <4> DEFINE L == N - m + 1
      <4>1. L \in Nat
        BY <3>3
      <4> HIDE DEF L
      <4>2. Cardinality(1 .. L) = L
        BY <4>1, FS_Interval
      <4> QED BY <4>2 DEF L
    <3> QED BY <2>4, <3>2, <3>4
  <2>9. Len(u) = Cardinality(Inside(q, now, w))
    BY <2>7, <2>8
  <2>10. \A i \in 1 .. Len(u) : \E j \in 1 .. Len(q) : u[i] = q[j]
    BY <2>4
  <2> QED BY <2>5, <2>7, <2>9, <2>10 DEF Aged
<1> HIDE DEF u
<1>5. Aged(u, q, now, w)
  BY <1>3, <1>4
<1> QED BY <1>5 DEF u
Recently(E, now, w) == {t \in Trades(E) : t.time + w > now}

RateIs(q, E, w) ==
    /\ Queue(q)
    /\ \A i \in 1 .. Len(q) : \E t \in Trades(E) : q[i] <= t.time
    /\ \A now \in Nat : (\A t \in Trades(E) : t.time <= now) =>
          Cardinality(Inside(q, now, w)) = Cardinality(Recently(E, now, w))

RatesOk(f, E) ==
    /\ DOMAIN f.recent = ClockWindows
    /\ \A w \in ClockWindows : RateIs(f.recent[w], E, w)

\* A queue stays the times of the recent executions.
LEMMA RateConsumes ==
    ASSUME NEW E, EventSet(E), NEW e, Later(E, e), IsTrade(e), NEW w \in Nat, NEW q, RateIs(q, E, w)
    PROVE  RateIs(Unexpired(Append(q, e.time), e.time, w), E \cup {e}, w)
<1> DEFINE a == Append(q, e.time)
           u == Unexpired(a, e.time, w)
           D == E \cup {e}
           now == e.time
           N == Len(q)
<1>1. /\ now \in Nat /\ Trades(D) = Trades(E) \cup {e} /\ e \notin Trades(E)
      /\ \A t \in Trades(E) : t.time \in Nat /\ t.time <= now
  BY EventIs, TradesNext, LaterEventSet DEF Later, Follows, EventSet, Trades, Row
<1> HIDE DEF now
<1>2. q \in Seq(Nat) /\ N \in Nat /\ \A i \in 1 .. N : q[i] \in Nat /\ q[i] <= now
  <2>1. q \in Seq(Nat) /\ N \in Nat /\ \A i \in 1 .. N : q[i] \in Nat
    BY DEF RateIs, Queue
  <2>2. \A i \in 1 .. N : q[i] <= now
    BY <1>1, <2>1 DEF RateIs
  <2> QED BY <2>1, <2>2
<1>3. /\ a \in Seq(Nat) /\ Len(a) = N + 1 /\ a[N + 1] = now /\ DOMAIN a = 1 .. N + 1
      /\ \A i \in 1 .. N : a[i] = q[i]
  <2>1. a = Append(q, now)
    BY DEF now
  <2> HIDE DEF a
  <2> QED BY <1>1, <1>2, <2>1
<1> HIDE DEF a
<1>4. Queue(a) /\ \A i \in 1 .. N + 1 : a[i] <= now
  <2>1. \A i, j \in 1 .. N : i <= j => q[i] <= q[j]
    BY DEF RateIs, Queue
  <2>2. ASSUME NEW i \in 1 .. N + 1, NEW j \in 1 .. N + 1, i <= j PROVE a[i] <= a[j] /\ a[i] <= now
    <3>1. CASE j \in 1 .. N
      <4>1. i \in 1 .. N
        BY <2>2, <3>1
      <4>2. a[i] = q[i] /\ a[j] = q[j] /\ q[i] <= q[j]
        BY <1>3, <2>1, <2>2, <3>1, <4>1
      <4> QED BY <1>2, <4>1, <4>2
    <3>2. CASE j = N + 1 /\ i = N + 1
      BY <1>1, <1>3, <3>2
    <3>3. CASE j = N + 1 /\ i \in 1 .. N
      BY <1>2, <1>3, <3>3
    <3> QED BY <1>2, <2>2, <3>1, <3>2, <3>3
  <2>3. \A i \in 1 .. N + 1 : a[i] <= now
    <3> SUFFICES ASSUME NEW i \in 1 .. N + 1 PROVE a[i] <= now
      OBVIOUS
    <3>1. i <= i
      BY <1>2
    <3> QED BY <2>2, <3>1
  <2>4. \A i, j \in 1 .. Len(a) : i <= j => a[i] <= a[j]
    BY <1>3, <2>2
  <2> QED BY <1>3, <2>3, <2>4 DEF Queue
<1>5. Aged(u, a, now, w)
  BY <1>1, <1>4, UnexpiredIs DEF now
<1> HIDE DEF u
<1>6. ASSUME NEW t \in Nat, t >= now
      PROVE  Cardinality(Inside(a, t, w)) = Cardinality(Recently(D, t, w))
  <2>1. \A x \in Trades(E) : x.time <= t
    BY <1>1, <1>6
  <2>2. Cardinality(Inside(q, t, w)) = Cardinality(Recently(E, t, w))
    BY <2>1 DEF RateIs
  <2>3. Inside(a, t, w) = Inside(q, t, w) \cup {i \in {N + 1} : now + w > t}
    <3>1. DOMAIN q = 1 .. N /\ 1 .. N + 1 = (1 .. N) \cup {N + 1}
      BY <1>2
    <3> QED BY <1>3, <3>1 DEF Inside
  <2>4. Recently(D, t, w) = Recently(E, t, w) \cup {x \in {e} : now + w > t}
    BY <1>1 DEF Recently, now
  <2>5. IsFiniteSet(Inside(q, t, w)) /\ N + 1 \notin Inside(q, t, w)
    <3>1. Inside(q, t, w) \subseteq 1 .. N
      BY <1>2 DEF Inside
    <3>2. IsFiniteSet(1 .. N)
      BY <1>2, FS_Interval
    <3> QED BY <1>2, <3>1, <3>2, FS_Subset
  <2>6. IsFiniteSet(Recently(E, t, w)) /\ e \notin Recently(E, t, w)
    <3>1. Recently(E, t, w) \subseteq E
      BY DEF Recently, Trades
    <3> QED BY <1>1, <3>1, FS_Subset DEF EventSet, Recently
  <2>7. CASE now + w > t
    <3>1. Inside(a, t, w) = Inside(q, t, w) \cup {N + 1} /\ Recently(D, t, w) = Recently(E, t, w) \cup {e}
      BY <2>3, <2>4, <2>7
    <3>2. Cardinality(Inside(a, t, w)) = Cardinality(Inside(q, t, w)) + 1
      BY <2>5, <3>1, FS_AddElement
    <3> HIDE DEF D
    <3>3. Cardinality(Recently(D, t, w)) = Cardinality(Recently(E, t, w)) + 1
      BY <2>6, <3>1, FS_AddElement
    <3> QED BY <2>2, <3>2, <3>3
  <2>8. CASE ~(now + w > t)
    <3>1. Inside(a, t, w) = Inside(q, t, w) /\ Recently(D, t, w) = Recently(E, t, w)
      BY <2>3, <2>4, <2>8
    <3> QED BY <2>2, <3>1
  <2> QED BY <2>7, <2>8
<1>7. ASSUME NEW t \in Nat, \A x \in Trades(D) : x.time <= t
      PROVE  Cardinality(Inside(u, t, w)) = Cardinality(Recently(D, t, w))
  <2>1. t >= now
    BY <1>1, <1>7 DEF now
  <2> QED BY <1>5, <1>6, <2>1 DEF Aged
<1>8. ASSUME NEW i \in 1 .. Len(u) PROVE \E t \in Trades(D) : u[i] <= t.time
  <2>1. PICK j \in 1 .. N + 1 : u[i] = a[j]
    BY <1>3, <1>5 DEF Aged
  <2> QED BY <1>1, <1>4, <2>1 DEF now
<1>9. Queue(u)
  BY <1>5 DEF Aged
<1>10. RateIs(u, D, w)
  BY <1>7, <1>8, <1>9 DEF RateIs
<1> QED BY <1>10 DEF u, a, D

\* So does every queue of the flow.
LEMMA RatesConsume ==
    ASSUME NEW f, NEW g, NEW E, EventSet(E), NEW e, Later(E, e), RatesOk(f, E),
           \/ IsTrade(e) /\ TradeTaken(f, g, e)
           \/ ~IsTrade(e) /\ g.recent = f.recent
    PROVE  RatesOk(g, E \cup {e})
<1>1. CASE IsTrade(e) /\ TradeTaken(f, g, e)
  <2>1. ASSUME NEW w \in ClockWindows
        PROVE  RateIs(Unexpired(Append(f.recent[w], e.time), e.time, w), E \cup {e}, w)
    <3>1. w \in Nat /\ RateIs(f.recent[w], E, w)
      BY RowsAssumption DEF RatesOk
    <3> QED BY <1>1, <3>1, RateConsumes
  <2> QED BY <1>1, <2>1 DEF RatesOk, TradeTaken
<1>2. CASE ~IsTrade(e) /\ g.recent = f.recent
  <2>1. Trades(E \cup {e}) = Trades(E)
    BY <1>2, TradesNext
  <2> QED BY <1>2, <2>1 DEF RatesOk, RateIs, Recently
<1> QED BY <1>1, <1>2

-----------------------------------------------------------------------------
(* All that a flow says of the events it has consumed. *)

FlowIs(f, E, B, n) ==
    /\ WindowsOk(f, E, B, n) /\ MatchesOk(f, E) /\ TotalsOk(f) /\ RatesOk(f, E)

\* An event that follows all others keeps the flow a function of what it read.
LEMMA FlowConsumes ==
    ASSUME NEW f, IsFlow(f), NEW E, NEW B, NEW n \in Nat, EventSet(E), Rising(B, n),
           FlowIs(f, E, B, n), NEW e, Later(E, e), B[n] < e.index, ~Disordered(f, e)
    PROVE  FlowIs(Consumed(f, e), E \cup {e}, B, n)
<1> DEFINE g == Consumed(f, e)
           trade == IsTrade(e)
           break == IsBreak(e) /\ Breaks(f, e)
<1>1. /\ g.buckets = f.buckets /\ e \in Event
      /\ trade => TradeTaken(f, g, e)
      /\ break => MatchBroken(f, g, e)
      /\ ~trade /\ ~break => SameTrades(f, g)
  BY ConsumedIs DEF SameRows, Later
<1>2. ~(trade /\ break)
  BY DEF IsTrade, IsBreak
<1> HIDE DEF g
<1>3. WindowsOk(g, E \cup {e}, B, n)
  <2>1. g.pending = IF IsTrade(e) THEN f.pending \cup {e.index} ELSE f.pending
    BY <1>1, <1>2 DEF TradeTaken, MatchBroken, SameTrades
  <2> QED BY <1>1, <2>1, WindowsConsume DEF FlowIs
<1>4. MatchesOk(g, E \cup {e})
  <2>1. CASE trade
    BY <1>1, <2>1, TradeMatches DEF FlowIs
  <2>2. CASE break
    BY <1>1, <2>2, BreakMatches DEF FlowIs
  <2>3. CASE ~trade /\ ~break
    BY <1>1, <2>3, OtherMatches DEF FlowIs
  <2> QED BY <2>1, <2>2, <2>3
<1>5. TotalsOk(g)
  BY <1>1, TotalsConsume DEF FlowIs
<1>6. RatesOk(g, E \cup {e})
  <2>1. ~trade => g.recent = f.recent
    BY <1>1 DEF MatchBroken, SameTrades
  <2> QED BY <1>1, <2>1, RatesConsume DEF FlowIs
<1> QED BY <1>3, <1>4, <1>5, <1>6 DEF FlowIs, g

-----------------------------------------------------------------------------
(* What a qualifying row does to each part of the flow. *)

SomeForgotten(f, g, gone) ==
    /\ \A i \in gone : \A w \in EventWindows : i \notin Held(g, w)
    /\ DOMAIN g.matches = {m \in DOMAIN f.matches : f.matches[m].held \ gone # {}}
    /\ \A m \in DOMAIN g.matches :
          g.matches[m] = [held |-> f.matches[m].held \ gone, broken |-> f.matches[m].broken]

SameReading(f, g) ==
    /\ g.events = f.events /\ g.snapshots = f.snapshots /\ g.lastEvent = f.lastEvent
    /\ g.lastSnapshot = f.lastSnapshot /\ g.failed = f.failed

RowTaken(f, g) ==
    /\ g.pending = {} /\ g.active = f.active /\ g.recent = f.recent
    /\ g.buckets = [w \in EventWindows |-> Rolled(f.buckets[w], f.pending, w)]
    /\ g.total = [w \in EventWindows |-> (f.total[w] - Shares(Evictions(f, w) \cap f.active))
                                            + Shares(f.pending \cap f.active)]
    /\ \E gone : SomeForgotten(f, g, gone)

\* Closing a bucket, field by field.
LEMMA BucketedIs ==
    ASSUME NEW f, IsFlow(f)
    PROVE  /\ IsFlow(Bucketed(f)) /\ SameReading(f, Bucketed(f)) /\ RowTaken(f, Bucketed(f))
           /\ Bucketed(f).ordinal = f.ordinal /\ Bucketed(f).transitions = f.transitions
<1> DEFINE total == [w \in EventWindows |-> (f.total[w] - Shares(Evictions(f, w) \cap f.active))
                                               + Shares(f.pending \cap f.active)]
           buckets == [w \in EventWindows |-> Rolled(f.buckets[w], f.pending, w)]
           r == [f EXCEPT !.total = total, !.buckets = buckets, !.pending = {}]
           out == UNION {Evictions(f, w) : w \in EventWindows}
           gone == {i \in out : \A w \in EventWindows : i \notin Held(r, w)}
           left == [m \in DOMAIN f.matches |-> f.matches[m].held \ gone]
           known == {m \in DOMAIN f.matches : left[m] # {}}
           kept1 == [m \in known |-> [held |-> left[m], broken |-> f.matches[m].broken]]
           g == [r EXCEPT !.matches = kept1]
<1> HIDE DEF total, buckets, gone, kept1
<1>1. /\ IsFlow(r) /\ r.total = total /\ r.buckets = buckets /\ r.pending = {}
      /\ r.matches = f.matches /\ SameReading(f, r) /\ r.active = f.active /\ r.recent = f.recent
      /\ r.ordinal = f.ordinal /\ r.transitions = f.transitions
  BY DEF IsFlow, SameReading
<1>2. Bucketed(f) = g
  <2>1. Bucketed(f) = Forgotten(r, out)
    BY DEF Bucketed, total, buckets
  <2>2. r.matches = f.matches
    BY <1>1
  <2> HIDE DEF r, out
  <2>3. Forgotten(r, out) = g
    BY <2>2 DEF Forgotten, gone, kept1
  <2> QED BY <2>1, <2>3
<1> HIDE DEF r
<1>3. /\ IsFlow(g) /\ g.total = total /\ g.buckets = buckets /\ g.pending = {}
      /\ g.matches = kept1 /\ SameReading(f, g) /\ g.active = f.active /\ g.recent = f.recent
      /\ g.ordinal = f.ordinal /\ g.transitions = f.transitions
  BY <1>1 DEF IsFlow, SameReading
<1> HIDE DEF g
<1>4. SomeForgotten(f, g, gone)
  <2>1. \A i \in gone : \A w \in EventWindows : i \notin Held(g, w)
    <3>1. g.buckets = r.buckets
      BY <1>1, <1>3
    <3> HIDE DEF out
    <3> QED BY <3>1 DEF gone, Held
  <2>2. known = {m \in DOMAIN f.matches : f.matches[m].held \ gone # {}}
    OBVIOUS
  <2>3. DOMAIN kept1 = known /\ \A m \in known :
            kept1[m] = [held |-> f.matches[m].held \ gone, broken |-> f.matches[m].broken]
    BY DEF kept1
  <2> HIDE DEF known
  <2> QED BY <1>3, <2>1, <2>2, <2>3 DEF SomeForgotten
<1> QED BY <1>2, <1>3, <1>4 DEF RowTaken, total, buckets

\* The open bucket becomes the newest one of every window.
LEMMA WindowsRow ==
    ASSUME NEW f, NEW g, NEW E, NEW B, NEW n \in Nat, EventSet(E), Rising(B, n + 1),
           WindowsOk(f, E, B, n), \A i \in Traded(E) : i <= B[n + 1], RowTaken(f, g)
    PROVE  WindowsOk(g, E, B, n + 1)
<1> DEFINE G == Between(E, B)
<1>1. Traded(E) \subseteq Nat /\ B[n + 1] \in Int /\ n + 1 \in Nat /\ (n + 1) - 1 = n
  BY TradedIs DEF Rising
<1>2. G[n + 1] = f.pending
  <2> DEFINE k == n + 1
  <2>1. G[k] = Span(E, B[k - 1], B[k])
    <3> HIDE DEF k
    <3>1. k \in Nat
      BY <1>1 DEF k
    <3> QED BY <3>1 DEF Between
  <2>2. G[n + 1] = Span(E, B[n], B[n + 1])
    BY <1>1, <2>1
  <2> QED BY <2>2 DEF Span, WindowsOk
<1>3. g.pending = {i \in Traded(E) : B[n + 1] < i}
  <2>1. \A i \in Traded(E) : ~(B[n + 1] < i)
    BY <1>1
  <2> QED BY <2>1 DEF RowTaken
<1>4. ASSUME NEW w \in EventWindows
      PROVE  /\ g.buckets[w] \in Seq(SUBSET Nat) /\ Trailing(g.buckets[w], w, n + 1, G)
  <2>1. w \in Nat \ {0} /\ f.buckets[w] \in Seq(SUBSET Nat) /\ Trailing(f.buckets[w], w, n, G)
    BY RowsAssumption DEF WindowsOk
  <2>2. g.buckets[w] = Rolled(f.buckets[w], G[n + 1], w)
    BY <1>2 DEF RowTaken
  <2>3. G[n + 1] \in SUBSET Nat
    BY <1>1, <1>2 DEF WindowsOk
  <2> HIDE DEF G
  <2> QED BY <2>1, <2>2, <2>3, RolledTrails
<1>5. DOMAIN g.buckets = EventWindows
  BY DEF RowTaken
<1> QED BY <1>3, <1>4, <1>5 DEF WindowsOk

\* Messages of rows rise.
LEMMA RisesLess ==
    ASSUME NEW B, NEW n \in Nat, Rising(B, n + 1) PROVE Rising(B, n)
<1>1. 0 .. n \subseteq 0 .. n + 1
  OBVIOUS
<1> QED BY <1>1 DEF Rising

\* What leaves a window of w buckets is its oldest one.
LEMMA EvictedIs ==
    ASSUME NEW f, NEW E, NEW B, NEW n \in Nat, EventSet(E), Rising(B, n),
           WindowsOk(f, E, B, n), NEW w \in EventWindows
    PROVE  Evictions(f, w) = IF w <= n THEN Span(E, B[First(n, w)], B[First(n, w) + 1]) ELSE {}
<1> DEFINE q == f.buckets[w]
           a == First(n, w)
           G == Between(E, B)
<1>1. w \in Nat /\ w > 0
  BY RowsAssumption
<1>2. q \in Seq(SUBSET Nat) /\ Trailing(q, w, n, G)
  BY DEF WindowsOk
<1>3. a \in Nat /\ Len(q) = (IF n <= w THEN n ELSE w) /\ Len(q) \in Nat /\ Evictions(f, w) = IF Len(q) = w THEN Head(q) ELSE {}
  BY <1>1, <1>2 DEF First, Trailing, Evictions
<1>4. CASE w <= n
  <2>1. Len(q) = w /\ n - w + 1 = a + 1
    BY <1>1, <1>3, <1>4 DEF First
  <2>2. Head(q) = q[1] /\ q[1] = G[n - w + 1]
    <3>1. 1 \in 1 .. Len(q) /\ Head(q) = q[1]
      BY <1>1, <1>2, <2>1
    <3> HIDE DEF q
    <3> QED BY <1>2, <2>1, <3>1 DEF Trailing
  <2>3. G[a + 1] = Span(E, B[a], B[a + 1])
    <3> HIDE DEF a
    <3> DEFINE k == a + 1
    <3>1. k \in Nat /\ k - 1 = a
      BY <1>3
    <3> HIDE DEF k
    <3>2. G[k] = Span(E, B[k - 1], B[k])
      BY <3>1 DEF Between
    <3>3. G[k] = Span(E, B[a], B[k])
      BY <3>1, <3>2
    <3> QED BY <3>3 DEF k
  <2> HIDE DEF q, G, a
  <2>4. Evictions(f, w) = Span(E, B[a], B[a + 1])
    BY <1>3, <2>1, <2>2, <2>3
  <2> QED BY <1>4, <2>4 DEF a
<1>5. CASE ~(w <= n)
  <2>1. Len(q) # w
    BY <1>1, <1>3, <1>5
  <2> HIDE DEF q
  <2> QED BY <1>3, <1>5, <2>1
<1> QED BY <1>4, <1>5

\* Totals follow the buckets that enter and leave.
LEMMA TotalsRow ==
    ASSUME NEW f, NEW g, NEW E, NEW B, NEW n \in Nat, EventSet(E), Rising(B, n + 1),
           WindowsOk(f, E, B, n), WindowsOk(g, E, B, n + 1), MatchesOk(f, E), TotalsOk(f),
           \A i \in Traded(E) : i <= B[n + 1], RowTaken(f, g)
    PROVE  TotalsOk(g)
<1> SUFFICES ASSUME NEW w \in EventWindows
             PROVE  g.total[w] \in Int /\ g.total[w] = Shares(Held(g, w) \cap g.active)
  BY DEF TotalsOk, RowTaken
<1> DEFINE H == Held(f, w)
           V == Evictions(f, w)
           K == Held(g, w)
           A == f.active
           P == f.pending
           a == First(n, w)
<1>1. H = Span(E, B[a], B[n]) /\ V = IF w <= n THEN Span(E, B[a], B[a + 1]) ELSE {}
  BY RisesLess, HeldIs, EvictedIs
<1>2. K = Span(E, B[First(n + 1, w)], B[n + 1])
  <2>1. n + 1 \in Nat
    OBVIOUS
  <2> HIDE DEF K
  <2> QED BY <2>1, HeldIs DEF K
<1>3. P = {i \in Traded(E) : B[n] < i} /\ Traded(E) \subseteq Nat
  BY TradedIs DEF WindowsOk
<1>4. /\ a \in Nat /\ a <= n /\ (w <= n => a + 1 <= n)
      /\ First(n + 1, w) = IF w <= n THEN a + 1 ELSE a
  <2>1. w \in Nat /\ w > 0
    BY RowsAssumption
  <2> QED BY <2>1 DEF First
<1> HIDE DEF H, V, K, P, a
<1>5. /\ B[a] \in Int /\ B[n] \in Int /\ B[n + 1] \in Int /\ B[a] <= B[n] /\ B[n] < B[n + 1]
      /\ w <= n => B[a + 1] \in Int /\ B[a] < B[a + 1] /\ B[a + 1] <= B[n]
  <2>1. a \in 0 .. n + 1 /\ n \in 0 .. n + 1 /\ n + 1 \in 0 .. n + 1 /\ n < n + 1
    BY <1>4
  <2>2. w <= n => a + 1 \in 0 .. n + 1 /\ a < a + 1 /\ (a + 1 = n \/ a + 1 < n)
    BY <1>4
  <2>3. a = n \/ a < n
    BY <1>4
  <2> QED BY <2>1, <2>2, <2>3 DEF Rising
<1>6. /\ V \subseteq H /\ K = (H \ V) \cup P /\ H \cap P = {}
  <2>1. CASE w <= n
    <3>1. V = Span(E, B[a], B[a + 1]) /\ K = Span(E, B[a + 1], B[n + 1])
      BY <1>1, <1>2, <1>4, <2>1
    <3>2. \A i \in Traded(E) : i \in Int /\ i <= B[n + 1]
      BY <1>3
    <3> QED BY <1>1, <1>3, <1>5, <2>1, <3>1, <3>2 DEF Span
  <2>2. CASE ~(w <= n)
    <3>1. V = {} /\ K = Span(E, B[a], B[n + 1])
      BY <1>1, <1>2, <1>4, <2>2
    <3>2. \A i \in Traded(E) : i \in Int /\ i <= B[n + 1]
      BY <1>3
    <3> QED BY <1>1, <1>3, <1>5, <2>2, <3>1, <3>2 DEF Span
  <2> QED BY <2>1, <2>2
<1> DEFINE HA == H \cap A
           VA == V \cap A
           PA == P \cap A
           RA == HA \ VA
<1>7. HA = RA \cup VA /\ RA \cap VA = {} /\ RA \cap PA = {} /\ K \cap A = RA \cup PA
  BY <1>6
<1>8. Counting(A)
  BY TradedIs, PartCounts DEF MatchesOk
<1>9. Counting(HA) /\ Counting(VA) /\ Counting(PA) /\ Counting(RA)
  BY <1>8, PartCounts
<1>10. /\ f.total[w] = Shares(HA) /\ f.total[w] \in Int
       /\ g.total[w] = (f.total[w] - Shares(VA)) + Shares(PA) /\ g.active = A
  BY DEF TotalsOk, RowTaken, H, V, P
<1> HIDE DEF HA, VA, PA, RA, A
<1>11. Shares(HA) = Shares(RA) + Shares(VA) /\ Shares(RA) \in Int /\ Shares(VA) \in Int
  BY <1>7, <1>9, SharesAdd
<1>12. Shares(K \cap A) = Shares(RA) + Shares(PA) /\ Shares(PA) \in Int
  BY <1>7, <1>9, SharesAdd
<1>13. g.total[w] = Shares(K \cap A) /\ g.total[w] \in Int
  BY <1>10, <1>11, <1>12
<1> QED BY <1>10, <1>13 DEF K

\* Only executions that are in no window any more are forgotten.
LEMMA MatchesRow ==
    ASSUME NEW f, NEW g, NEW E, MatchesOk(f, E), RowTaken(f, g), Present(g) \subseteq Present(f)
    PROVE  MatchesOk(g, E)
<1>1. PICK gone : SomeForgotten(f, g, gone)
  BY DEF RowTaken
<1>2. g.active = f.active /\ g.pending = {}
  BY DEF RowTaken
<1>3. AreKnown(g, E)
  <2> SUFFICES ASSUME NEW t \in Trades(E), t.index \in Present(g)
               PROVE  t.match \in DOMAIN g.matches /\ t.index \in g.matches[t.match].held
    BY DEF AreKnown
  <2>1. t.match \in DOMAIN f.matches /\ t.index \in f.matches[t.match].held
    BY DEF MatchesOk, AreKnown
  <2>2. t.index \notin gone
    BY <1>1, <1>2 DEF Present, SomeForgotten
  <2> DEFINE m == t.match
             held == f.matches[m].held
             i == t.index
  <2>3. m \in DOMAIN f.matches /\ i \in held /\ i \notin gone
    BY <2>1, <2>2
  <2>4. /\ held \ gone # {} => m \in DOMAIN g.matches
        /\ m \in DOMAIN g.matches => g.matches[m].held = held \ gone
    <3>1. ASSUME NEW k \in DOMAIN f.matches, f.matches[k].held \ gone # {}
          PROVE  k \in DOMAIN g.matches
      BY <1>1, <3>1 DEF SomeForgotten
    <3>2. ASSUME NEW k \in DOMAIN g.matches PROVE g.matches[k].held = f.matches[k].held \ gone
      <4>1. g.matches[k] = [held |-> f.matches[k].held \ gone, broken |-> f.matches[k].broken]
        BY <1>1 DEF SomeForgotten
      <4> QED BY <4>1
    <3> HIDE DEF m
    <3> QED BY <2>3, <3>1, <3>2
  <2> HIDE DEF m, held, i
  <2>5. m \in DOMAIN g.matches /\ i \in g.matches[m].held
    BY <2>3, <2>4
  <2> QED BY <2>5 DEF m, i
<1>4. AreUnbroken(g, E)
  BY <1>2 DEF MatchesOk, AreUnbroken
<1>5. AreActive(g, E) /\ g.active \subseteq Traded(E)
  BY <1>2 DEF MatchesOk, AreActive
<1>6. ASSUME NEW m \in DOMAIN g.matches PROVE MatchIs(g, E, m)
  <2>1. /\ m \in DOMAIN f.matches /\ MatchIs(f, E, m)
        /\ g.matches[m] = [held |-> f.matches[m].held \ gone, broken |-> f.matches[m].broken]
    BY <1>1 DEF SomeForgotten, MatchesOk
  <2> QED BY <1>2, <2>1 DEF MatchIs
<1> QED BY <1>3, <1>4, <1>5, <1>6 DEF MatchesOk

\* A row keeps the flow a function of what it read.
LEMMA FlowTakesRow ==
    ASSUME NEW f, NEW g, NEW E, NEW B, NEW n \in Nat, EventSet(E), Rising(B, n + 1),
           FlowIs(f, E, B, n), \A i \in Traded(E) : i <= B[n + 1], RowTaken(f, g)
    PROVE  FlowIs(g, E, B, n + 1)
<1>1. WindowsOk(g, E, B, n + 1)
  BY WindowsRow DEF FlowIs
<1>2. TotalsOk(g)
  BY <1>1, TotalsRow DEF FlowIs
<1>3. Present(g) \subseteq Present(f)
  <2>1. Rising(B, n) /\ n + 1 \in Nat
    BY RisesLess
  <2>2. ASSUME NEW w \in EventWindows, NEW i \in Held(g, w) PROVE i \in Present(f)
    <3>1. i \in Span(E, B[First(n + 1, w)], B[n + 1])
      BY <1>1, <2>1, <2>2, HeldIs
    <3>2. Held(f, w) = Span(E, B[First(n, w)], B[n])
      BY <2>1, HeldIs DEF FlowIs
    <3>3. i \in Traded(E) /\ i \in Nat /\ B[First(n + 1, w)] < i
      BY <3>1, TradedIs DEF Span
    <3>4. B[n] \in Int /\ B[First(n + 1, w)] \in Int /\ B[First(n, w)] \in Int /\ B[First(n, w)] <= B[First(n + 1, w)]
      <4>1. w \in Nat /\ w > 0
        BY RowsAssumption
      <4> DEFINE a == First(n, w)
                 b == First(n + 1, w)
      <4>2. n \in 0 .. n + 1 /\ a \in 0 .. n + 1 /\ b \in 0 .. n + 1 /\ (a = b \/ a < b)
        BY <4>1 DEF First
      <4> HIDE DEF a, b
      <4>3. B[n] \in Int /\ B[b] \in Int /\ B[a] \in Int /\ B[a] <= B[b]
        BY <4>2 DEF Rising
      <4> QED BY <4>3 DEF a, b
    <3>5. B[First(n, w)] < i
      BY <3>3, <3>4
    <3>6. CASE i <= B[n]
      BY <3>2, <3>3, <3>5, <3>6 DEF Span, Present
    <3>7. CASE ~(i <= B[n])
      <4>1. B[n] < i
        BY <3>3, <3>4, <3>7
      <4> QED BY <3>3, <4>1 DEF FlowIs, WindowsOk, Present
    <3> QED BY <3>6, <3>7
  <2>3. g.pending = {}
    BY DEF RowTaken
  <2> QED BY <2>2, <2>3 DEF Present
<1>4. MatchesOk(g, E)
  BY <1>3, MatchesRow DEF FlowIs
<1>5. RatesOk(g, E)
  BY DEF FlowIs, RatesOk, RowTaken
<1> QED BY <1>1, <1>2, <1>4, <1>5 DEF FlowIs

-----------------------------------------------------------------------------
(* Catching up with a snapshot. *)

DueTo(due, s, n, i) ==
    /\ due \in Seq(Event) /\ n + Len(due) <= Len(s)
    /\ \A k \in 1 .. Len(due) : due[k] = s[n + k] /\ s[n + k].index <= i
    /\ n + Len(due) < Len(s) => s[n + Len(due) + 1].index > i

\* The events due are those ahead up to the first of a later message.
LEMMA DueIs ==
    ASSUME Today.events \in Seq(Event), NEW f, f.events \in Nat, f.events <= Len(Today.events),
           NEW x \in Snapshot
    PROVE  DueTo(Due(f, x), Today.events, f.events, x.index)
<1> DEFINE s == Today.events
           n == f.events
           N == Len(s)
           i == x.index
           a == SubSeq(s, n + 1, N)
           late == {k \in DOMAIN a : a[k].index > i}
<1>1. /\ s \in Seq(Event) /\ N \in Nat /\ n \in Nat /\ n <= N /\ i \in Nat
  BY SnapshotIs DEF Row
<1>2. Due(f, x) = IF late = {} THEN a ELSE SubSeq(a, 1, Min(late) - 1)
  BY DEF Due
<1> HIDE DEF s, i, n
<1>3. /\ a \in Seq(Event) /\ Len(a) = N - n /\ DOMAIN a = 1 .. N - n
      /\ \A k \in 1 .. N - n : a[k] = s[n + k] /\ n + k \in 1 .. N
  BY <1>1
<1>4. \A k \in 1 .. N : s[k] \in Event /\ s[k].index \in Nat
  <2>1. \A k \in 1 .. N : s[k] \in Event
    BY <1>1
  <2> QED BY <2>1, EventIs DEF Row
<1> HIDE DEF a, N
<1>5. CASE late = {}
  <2>1. \A k \in 1 .. N - n : s[n + k].index <= i
    <3> SUFFICES ASSUME NEW k \in 1 .. N - n PROVE s[n + k].index <= i
      OBVIOUS
    <3>1. a[k] = s[n + k] /\ s[n + k].index \in Nat /\ ~(a[k].index > i)
      BY <1>3, <1>4, <1>5
    <3> QED BY <1>1, <3>1
  <2>2. n + Len(a) = N
    BY <1>1, <1>3
  <2>3. Due(f, x) = a
    BY <1>2, <1>5
  <2>4. DueTo(a, s, n, i)
    BY <1>1, <1>3, <2>1, <2>2 DEF DueTo, N
  <2> QED BY <2>3, <2>4 DEF s, n, i
<1>6. CASE late # {}
  <2> DEFINE m == Min(late)
             q == SubSeq(a, 1, m - 1)
  <2>1. m \in late /\ \A k \in late : m <= k
    <3>1. late \in SUBSET Nat
      BY <1>3
    <3> HIDE DEF late
    <3>2. \E k \in late : \A j \in late : k <= j
      BY <1>6, <3>1, Least
    <3> QED BY <3>2 DEF Min
  <2> HIDE DEF m
  <2>2. m \in 1 .. N - n /\ a[m].index > i
    BY <1>3, <2>1
  <2>3. q \in Seq(Event) /\ Len(q) = m - 1 /\ \A k \in 1 .. m - 1 : q[k] = a[k] /\ k \in 1 .. N - n
    BY <1>1, <1>3, <2>2
  <2>4. Due(f, x) = q
    BY <1>2, <1>6 DEF m
  <2> HIDE DEF q
  <2>5. \A k \in 1 .. m - 1 : q[k] = s[n + k] /\ s[n + k].index <= i
    <3> SUFFICES ASSUME NEW k \in 1 .. m - 1 PROVE q[k] = s[n + k] /\ s[n + k].index <= i
      OBVIOUS
    <3>1. k \in 1 .. N - n /\ a[k] = s[n + k] /\ q[k] = a[k] /\ s[n + k].index \in Nat /\ ~(m <= k)
      BY <1>3, <1>4, <2>2, <2>3
    <3>2. ~(a[k].index > i)
      BY <1>3, <2>1, <3>1
    <3> QED BY <1>1, <3>1, <3>2
  <2>6. s[n + m].index > i /\ n + Len(q) + 1 = n + m /\ n + Len(q) <= N
    BY <1>1, <1>3, <2>2, <2>3
  <2>7. DueTo(q, s, n, i)
    BY <2>3, <2>5, <2>6 DEF DueTo, N
  <2> QED BY <2>4, <2>7 DEF s, n, i
<1> QED BY <1>5, <1>6

IsCaught(g, f, due, m) ==
    g = [n \in 0 .. m |-> IF n = 0 THEN f ELSE Consumed(g[n - 1], due[n])]

\* The recursion behind CaughtUp has a solution.
LEMMA CaughtExists ==
    ASSUME NEW f, NEW due, NEW N \in Nat
    PROVE  \E g : IsCaught(g, f, due, N)
<1> DEFINE T == {m \in Nat : ~\E g : IsCaught(g, f, due, m)}
<1>1. SUFFICES ASSUME T # {} PROVE FALSE
  OBVIOUS
<1>2. PICK m \in T : \A k \in T : m <= k
  <2>1. T \in SUBSET Nat
    OBVIOUS
  <2> HIDE DEF T
  <2> QED BY <1>1, <2>1, Least
<1>3. m \in Nat /\ ~\E g : IsCaught(g, f, due, m)
  OBVIOUS
<1>4. CASE m = 0
  <2> DEFINE g == [n \in 0 .. 0 |-> f]
  <2>1. g = [n \in 0 .. 0 |-> IF n = 0 THEN f ELSE Consumed(g[n - 1], due[n])]
    OBVIOUS
  <2> HIDE DEF g
  <2>2. IsCaught(g, f, due, m)
    BY <1>4, <2>1 DEF IsCaught
  <2> QED BY <1>3, <2>2
<1>5. CASE m # 0
  <2>1. m - 1 \in Nat /\ m - 1 \notin T
    BY <1>2, <1>3, <1>5
  <2>2. PICK g : IsCaught(g, f, due, m - 1)
    BY <2>1
  <2> DEFINE step(h, n) == IF n = 0 THEN f ELSE Consumed(h[n - 1], due[n])
             h == [n \in 0 .. m |-> step(g, n)]
  <2>3. \A n \in 0 .. m - 1 : g[n] = step(g, n)
    <3>1. g = [n \in 0 .. m - 1 |-> step(g, n)]
      BY <2>2 DEF IsCaught
    <3> HIDE DEF step
    <3> QED BY <3>1
  <2>4. \A n \in 0 .. m - 1 : h[n] = g[n]
    <3> HIDE DEF step
    <3> QED BY <1>3, <2>3
  <2>5. ASSUME NEW n \in 0 .. m PROVE step(g, n) = step(h, n)
    <3>1. CASE n = 0
      BY <3>1
    <3>2. CASE n # 0
      <4>1. n - 1 \in 0 .. m - 1
        BY <1>3, <3>2
      <4>2. h[n - 1] = g[n - 1]
        BY <2>4, <4>1
      <4> HIDE DEF h
      <4> QED BY <3>2, <4>2
    <3> QED BY <3>1, <3>2
  <2> HIDE DEF step
  <2>6. h = [n \in 0 .. m |-> step(h, n)]
    BY <2>5
  <2> HIDE DEF h
  <2>7. IsCaught(h, f, due, m)
    BY <2>6 DEF IsCaught, step
  <2> QED BY <1>3, <2>7
<1> QED BY <1>4, <1>5

Catching(g, f, due) ==
    /\ g[0] = f
    /\ \A n \in 1 .. Len(due) : g[n] = Consumed(g[n - 1], due[n])

\* CaughtUp consumes the due events one by one.
LEMMA CaughtUpIs ==
    ASSUME NEW f, NEW x, Len(Due(f, x)) \in Nat
    PROVE  \E g : Catching(g, f, Due(f, x)) /\ CaughtUp(f, x) = g[Len(Due(f, x))]
<1> DEFINE due == Due(f, x)
           N == Len(due)
           g == CHOOSE g : IsCaught(g, f, due, N)
<1> HIDE DEF due
<1>1. CaughtUp(f, x) = g[N]
  BY DEF CaughtUp, IsCaught, due
<1>2. N \in Nat
  BY DEF due
<1>3. IsCaught(g, f, due, N)
  <2> HIDE DEF N
  <2> QED BY <1>2, CaughtExists
<1> HIDE DEF g
<1>4. Catching(g, f, due)
  <2> DEFINE step(n) == IF n = 0 THEN f ELSE Consumed(g[n - 1], due[n])
  <2>1. g = [n \in 0 .. N |-> step(n)]
    BY <1>3 DEF IsCaught
  <2> HIDE DEF step, N
  <2>2. \A n \in 0 .. N : g[n] = step(n)
    BY <2>1
  <2>3. g[0] = f
    BY <1>2, <2>2 DEF step
  <2>4. \A n \in 1 .. N : g[n] = Consumed(g[n - 1], due[n])
    <3> SUFFICES ASSUME NEW n \in 1 .. N PROVE g[n] = Consumed(g[n - 1], due[n])
      OBVIOUS
    <3>1. n \in 0 .. N /\ n # 0
      BY <1>2
    <3> QED BY <2>2, <3>1 DEF step
  <2> QED BY <2>3, <2>4 DEF Catching, N
<1> QED BY <1>1, <1>4 DEF due
Read(s, n) == {s[m] : m \in 1 .. n}

Bounds(d) == [j \in Nat |-> IF j = 0 THEN -1 ELSE Qualifying(d)[j].index]

(* A reader that has found events in order so far. *)
Reading(s, f) ==
    /\ f.failed = FALSE /\ OrderedTo(s, f.events)
    /\ f.lastEvent = IF f.events = 0 THEN NoRow ELSE s[f.events]

(* The events read reach the last row. *)
Reaches(s, f, B, n) ==
    /\ B[0] = -1
    /\ n > 0 => f.events > 0 /\ B[n] <= s[f.events].index

Consistent(s, f, B, n) == Reading(s, f) /\ Reaches(s, f, B, n) /\ FlowIs(f, Read(s, f.events), B, n)

(* A flow f has read on to g. *)
ReadOn(s, f, g, B, n) ==
    /\ IsFlow(g) /\ SameRows(f, g)
    /\ g.failed \in BOOLEAN
    /\ g.failed => ~OrderedRows(s)
    /\ ~g.failed => Consistent(s, g, B, n)

\* The events read, with one more.
LEMMA ReadIs ==
    ASSUME NEW s \in Seq(Event), NEW n \in Nat, n <= Len(s), OrderedTo(s, n)
    PROVE  EventSet(Read(s, n))
<1>1. \A m \in 1 .. n : s[m] \in Event /\ Row(s[m])
  <2>1. \A m \in 1 .. n : s[m] \in Event
    OBVIOUS
  <2> QED BY <2>1, EventIs
<1>2. IsFiniteSet(Read(s, n))
  <2> DEFINE c == [m \in 1 .. n |-> s[m]]
  <2>1. c \in Surjection(1 .. n, Read(s, n))
    BY DEF Surjection, Read
  <2>2. IsFiniteSet(1 .. n)
    BY FS_Interval
  <2> QED BY <2>1, <2>2, FS_Surjection
<1>3. ASSUME NEW i \in 1 .. n, NEW j \in 1 .. n, s[i].index = s[j].index PROVE i = j
  <2>1. i < j => s[i].index < s[j].index
    BY DEF OrderedTo, Follows
  <2>2. j < i => s[j].index < s[i].index
    BY DEF OrderedTo, Follows
  <2>3. s[i].index \in Nat /\ s[j].index \in Nat
    BY <1>1 DEF Row
  <2> QED BY <1>3, <2>1, <2>2, <2>3
<1>4. \A x, y \in Read(s, n) : x.index = y.index => x = y
  BY <1>3 DEF Read
<1>5. Read(s, n) \subseteq Event
  BY <1>1 DEF Read
<1> QED BY <1>2, <1>4, <1>5 DEF EventSet

\* One event more, in order or not.
LEMMA ReadsNext ==
    ASSUME NEW s \in Seq(Event), NEW f, IsFlow(f), f.events \in Nat, f.events + 1 <= Len(s),
           NEW B, NEW n \in Nat, Rising(B, n), f.failed \in BOOLEAN,
           f.failed => ~OrderedRows(s), ~f.failed => Consistent(s, f, B, n)
    PROVE  ReadOn(s, f, Consumed(f, s[f.events + 1]), B, n)
<1> DEFINE k == f.events
           e == s[k + 1]
           g == Consumed(f, e)
           E == Read(s, k)
<1> SUFFICES ReadOn(s, f, g, B, n)
  OBVIOUS
<1>1. /\ IsFlow(g) /\ SameRows(f, g) /\ g.events = k + 1 /\ g.lastEvent = e
      /\ g.failed = IF Disordered(f, e) THEN TRUE ELSE f.failed
  <2> HIDE DEF e
  <2> QED BY ConsumedIs DEF e
<1>2. \A m \in 1 .. k + 1 : s[m] \in Event /\ Row(s[m])
  <2>1. \A m \in 1 .. k + 1 : s[m] \in Event
    OBVIOUS
  <2> QED BY <2>1, EventIs
<1>3. CASE f.failed
  <2>1. g.failed = TRUE
    BY <1>1, <1>3
  <2> HIDE DEF g
  <2> QED BY <1>1, <1>3, <2>1 DEF ReadOn
<1>4. CASE ~f.failed /\ Disordered(f, e)
  <2>1. k > 0 /\ f.lastEvent = s[k]
    BY <1>4 DEF Consistent, Reading, Disordered
  <2>2. ~Follows(s[k], s[k + 1])
    <3>1. Row(s[k]) /\ Row(s[k + 1])
      BY <1>2, <2>1
    <3>2. e.index <= s[k].index \/ e.time < s[k].time
      BY <1>4, <2>1 DEF Disordered
    <3> QED BY <3>1, <3>2 DEF Row, Follows
  <2>3. ~OrderedRows(s)
    <3>1. k \in 1 .. Len(s) - 1
      BY <2>1
    <3> QED BY <2>2, <3>1 DEF OrderedRows, Follows
  <2>4. g.failed = TRUE
    BY <1>1, <1>4
  <2> HIDE DEF g
  <2> QED BY <1>1, <2>3, <2>4 DEF ReadOn
<1>5. CASE ~f.failed /\ ~Disordered(f, e)
  <2>1. OrderedTo(s, k) /\ f.failed = FALSE /\ (k > 0 => f.lastEvent = s[k])
        /\ FlowIs(f, E, B, n) /\ Reaches(s, f, B, n)
    BY <1>5 DEF Consistent, Reading
  <2>2. k > 0 => Follows(s[k], s[k + 1])
    <3> SUFFICES ASSUME k > 0 PROVE Follows(s[k], s[k + 1])
      OBVIOUS
    <3>1. Row(s[k]) /\ Row(s[k + 1]) /\ s[k] \in Event
      BY <1>2
    <3>2. f.lastEvent # NoRow
      BY <2>1, <3>1, RowsAssumption
    <3>3. ~(e.index <= s[k].index) /\ ~(e.time < s[k].time)
      BY <1>5, <2>1, <3>2 DEF Disordered
    <3> QED BY <3>1, <3>3 DEF Row, Follows
  <2>3. OrderedTo(s, k + 1)
    BY <1>2, <2>1, <2>2, OrderedNext
  <2>4. EventSet(E)
    BY <2>1, ReadIs
  <2>5. Later(E, e)
    <3>1. e \in Event
      BY <1>2
    <3>2. ASSUME NEW m \in 1 .. k PROVE Follows(s[m], s[k + 1])
      <4>1. m \in 1 .. k + 1 /\ k + 1 \in 1 .. k + 1 /\ m < k + 1
        OBVIOUS
      <4> QED BY <2>3, <4>1 DEF OrderedTo
    <3> QED BY <3>1, <3>2 DEF Later, Read
  <2>6. B[n] < e.index /\ (n > 0 => B[n] <= e.index)
    <3>1. e.index \in Nat /\ B[n] \in Int
      BY <1>2 DEF Row, Rising
    <3>2. CASE n = 0
      BY <2>1, <3>1, <3>2 DEF Reaches
    <3>3. CASE n > 0
      <4>1. k > 0 /\ B[n] <= s[k].index /\ s[k].index < e.index
        BY <2>1, <2>2, <3>3 DEF Reaches, Follows
      <4>2. s[k].index \in Nat
        BY <1>2, <4>1 DEF Row
      <4> QED BY <3>1, <4>1, <4>2
    <3> QED BY <3>2, <3>3
  <2>7. FlowIs(g, E \cup {e}, B, n)
    <3> HIDE DEF g, E, e
    <3> QED BY <1>5, <2>1, <2>4, <2>5, <2>6, FlowConsumes DEF g
  <2>8. Read(s, k + 1) = E \cup {e}
    <3>1. 1 .. k + 1 = (1 .. k) \cup {k + 1}
      OBVIOUS
    <3> QED BY <3>1 DEF Read
  <2>9. g.failed = FALSE
    BY <1>1, <1>5, <2>1
  <2> HIDE DEF g, E
  <2>10. Reading(s, g)
    BY <1>1, <2>3, <2>9 DEF Reading
  <2>11. Reaches(s, g, B, n)
    BY <1>1, <2>1, <2>6 DEF Reaches
  <2>12. Consistent(s, g, B, n)
    BY <1>1, <2>7, <2>8, <2>10, <2>11 DEF Consistent
  <2> QED BY <1>1, <2>9, <2>12 DEF ReadOn
<1> QED BY <1>3, <1>4, <1>5
Stops(s, n, i) ==
    /\ n \in Nat /\ n <= Len(s) /\ \A m \in 1 .. n : s[m].index <= i
    /\ n < Len(s) => s[n + 1].index > i

\* The events up to a message are the first ones of a stream in order.
LEMMA BeforeIs ==
    ASSUME NEW d, d.events \in Seq(Event), NEW n, NEW i \in Nat, Stops(d.events, n, i)
    PROVE  Before(d, i) = Read(d.events, n)
<1> DEFINE s == d.events
           M == {m \in DOMAIN s : \A l \in 1 .. m : s[l].index <= i}
<1>1. DOMAIN s = 1 .. Len(s) /\ Len(s) \in Nat /\ n \in Nat /\ n <= Len(s)
  BY DEF Stops
<1>2. M = 1 .. n
  <2>1. ASSUME NEW m \in 1 .. n PROVE m \in M
    <3>1. m \in DOMAIN s /\ \A l \in 1 .. m : l \in 1 .. n
      BY <1>1
    <3> QED BY <3>1 DEF Stops
  <2>2. ASSUME NEW m \in M, m \notin 1 .. n PROVE FALSE
    <3>1. m \in 1 .. Len(s) /\ \A l \in 1 .. m : s[l].index <= i
      BY <1>1
    <3>2. n + 1 \in 1 .. m /\ n < Len(s)
      BY <1>1, <2>2, <3>1
    <3>3. s[n + 1].index <= i /\ s[n + 1].index > i
      BY <3>1, <3>2 DEF Stops
    <3>4. s[n + 1] \in Event
      BY <1>1, <3>2
    <3>5. s[n + 1].index \in Nat
      BY <3>4, EventIs DEF Row
    <3> QED BY <3>3, <3>5
  <2> HIDE DEF M
  <2>3. \A m \in M : m \in 1 .. n
    BY <2>2
  <2> QED BY <2>1, <2>3
<1>3. Before(d, i) = {s[m] : m \in M}
  BY DEF Before
<1> HIDE DEF M
<1> QED BY <1>2, <1>3 DEF Read

\* Catching up with a snapshot reads the events of no later message, or fails.
LEMMA CaughtUpReads ==
    ASSUME NEW s, s = Today.events, s \in Seq(Event), NEW x \in Snapshot, NEW f, IsFlow(f),
           f.events \in Nat, f.events <= Len(s), NEW B, NEW n \in Nat, Rising(B, n),
           Consistent(s, f, B, n), \A m \in 1 .. f.events : s[m].index <= x.index
    PROVE  ReadOn(s, f, CaughtUp(f, x), B, n) /\ Stops(s, CaughtUp(f, x).events, x.index)
<1> DEFINE due == Due(f, x)
           N == Len(due)
           k == f.events
<1>1. DueTo(due, s, k, x.index) /\ N \in Nat
  BY DueIs DEF DueTo
<1>2. PICK g : Catching(g, f, due) /\ CaughtUp(f, x) = g[N]
  BY <1>1, CaughtUpIs
<1> DEFINE Ok(j) == ReadOn(s, f, g[j], B, n) /\ g[j].events = k + j
           T == {j \in Nat : j <= N /\ ~Ok(j)}
<1> HIDE DEF due
<1>3. T = {}
  <2>1. SUFFICES ASSUME T # {} PROVE FALSE
    OBVIOUS
  <2>2. PICK j \in T : \A i \in T : j <= i
    <3>1. T \in SUBSET Nat
      OBVIOUS
    <3> HIDE DEF T
    <3> QED BY <2>1, <3>1, Least
  <2>3. j \in Nat /\ j <= N /\ ~Ok(j)
    OBVIOUS
  <2>4. j # 0
    <3>1. Ok(0)
      <4>1. g[0] = f
        BY <1>2 DEF Catching
      <4>2. f.failed = FALSE
        BY DEF Consistent, Reading
      <4>3. ReadOn(s, f, f, B, n)
        BY <4>2 DEF ReadOn, SameRows
      <4> QED BY <4>1, <4>3
    <3> HIDE DEF Ok
    <3> QED BY <2>3, <3>1
  <2>5. j - 1 \in Nat /\ j - 1 <= N /\ j - 1 \notin T /\ j \in 1 .. N
    BY <1>1, <2>2, <2>3, <2>4
  <2>6. Ok(j - 1)
    BY <2>5
  <2> DEFINE h == g[j - 1]
  <2>7. ReadOn(s, f, h, B, n) /\ h.events = k + (j - 1)
    BY <2>6
  <2>8. g[j] = Consumed(h, due[j]) /\ due[j] = s[k + j] /\ k + j <= Len(s)
    BY <1>1, <1>2, <2>5 DEF Catching, DueTo
  <2> HIDE DEF h
  <2>9. h.events \in Nat /\ h.events + 1 = k + j
    BY <2>5, <2>7
  <2>10. g[j] = Consumed(h, s[h.events + 1])
    BY <2>8, <2>9
  <2>11. IsFlow(h) /\ SameRows(f, h)
    BY <2>7 DEF ReadOn
  <2>12. ReadOn(s, h, g[j], B, n)
    <3>1. h.failed \in BOOLEAN /\ (h.failed => ~OrderedRows(s)) /\ (~h.failed => Consistent(s, h, B, n))
      BY <2>7 DEF ReadOn
    <3> QED BY <2>8, <2>9, <2>10, <2>11, <3>1, ReadsNext
  <2>13. g[j].events = k + j
    <3>1. g[j].events = h.events + 1
      <4> DEFINE y == s[h.events + 1]
      <4>1. g[j] = Consumed(h, y)
        BY <2>10
      <4> HIDE DEF y
      <4>2. Consumed(h, y).events = h.events + 1
        BY <2>11, ConsumedIs
      <4> QED BY <4>1, <4>2
    <3> QED BY <2>9, <3>1
  <2>14. ReadOn(s, f, g[j], B, n)
    BY <2>11, <2>12 DEF ReadOn, SameRows
  <2> QED BY <2>3, <2>13, <2>14
<1>4. Ok(N)
  BY <1>1, <1>3
<1> DEFINE c == CaughtUp(f, x)
<1>5. ReadOn(s, f, c, B, n) /\ c.events = k + N
  BY <1>2, <1>4
<1> HIDE DEF c
<1>6. Stops(s, c.events, x.index)
  <2>1. k + N \in Nat /\ k + N <= Len(s) /\ (k + N < Len(s) => s[k + N + 1].index > x.index)
    BY <1>1 DEF DueTo
  <2>2. ASSUME NEW m \in 1 .. k + N PROVE s[m].index <= x.index
    <3>1. CASE m <= k
      BY <3>1
    <3>2. CASE m > k
      <4>1. m - k \in 1 .. N /\ k + (m - k) = m
        BY <1>1, <3>2
      <4> QED BY <1>1, <4>1 DEF DueTo
    <3> QED BY <3>1, <3>2
  <2> QED BY <1>5, <2>1, <2>2 DEF Stops
<1> QED BY <1>5, <1>6 DEF c

-----------------------------------------------------------------------------
(* The flow between two snapshots. *)

DayIs(d) ==
    /\ d.events \in Seq(Event) /\ d.snapshots \in Seq(Snapshot)
    /\ \A n \in DOMAIN d.snapshots : d.snapshots[n].qualifies => HasTrigger(d, d.snapshots[n])

RowCount(d, m) == Len(RowsTo(d)[m])

(* The rows of the first m snapshots. *)
FirstRows(d, m) ==
    /\ RowCount(d, m) \in Nat /\ RowCount(d, m) <= Len(Qualifying(d))
    /\ Rising(Bounds(d), RowCount(d, m))
    /\ OrderedTo(Qualifying(d), RowCount(d, m))
    /\ \A j \in 1 .. RowCount(d, m) :
          /\ Qualifying(d)[j] \in Snapshot
          /\ \E p \in 1 .. m : Qualifying(d)[j] = d.snapshots[p] /\ d.snapshots[p].qualifies

\* The rows among the snapshots read are the first rows of the day.
LEMMA FirstRowsAre ==
    ASSUME NEW d, DayIs(d), NEW m \in Nat, m <= Len(d.snapshots), OrderedTo(d.snapshots, m)
    PROVE  FirstRows(d, m)
<1> DEFINE r == RowsTo(d)[m]
           q == Qualifying(d)
           n == RowCount(d, m)
           B == Bounds(d)
<1>1. r \in Seq(Snapshot) /\ q \in Seq(Snapshot) /\ n = Len(r) /\ n \in Nat
  <2>1. m \in 0 .. Len(d.snapshots) /\ Len(d.snapshots) \in 0 .. Len(d.snapshots)
    BY DEF DayIs
  <2>2. r \in Seq(Snapshot) /\ q \in Seq(Snapshot)
    BY <2>1, RowsToIs DEF DayIs, Qualifying
  <2> QED BY <2>2 DEF RowCount
<1>2. Begins(r, q)
  BY RowsExtend DEF DayIs, Qualifying
<1>3. Sorted(r, d.snapshots, m)
  BY RowsSorted DEF DayIs
<1> HIDE DEF r, q, n
<1>4. n <= Len(q) /\ \A j \in 1 .. n : q[j] = r[j] /\ q[j] \in Snapshot
  BY <1>1, <1>2 DEF Begins
<1>5. \A j \in 1 .. n : \E p \in 1 .. m : q[j] = d.snapshots[p] /\ d.snapshots[p].qualifies
  BY <1>1, <1>3, <1>4 DEF Sorted
<1>6. OrderedTo(q, n)
  BY <1>1, <1>3, <1>4 DEF Sorted, OrderedTo
<1>7. \A j \in 0 .. n : B[j] = IF j = 0 THEN -1 ELSE q[j].index
  BY <1>1 DEF Bounds, q
<1> HIDE DEF B
<1>8. \A j \in 1 .. n : q[j].index \in Nat
  BY <1>4, SnapshotIs DEF Row
<1>9. Rising(B, n)
  <2>1. \A j \in 0 .. n : B[j] \in Int
    BY <1>1, <1>7, <1>8
  <2>2. ASSUME NEW i \in 0 .. n, NEW j \in 0 .. n, i < j PROVE B[i] < B[j]
    <3>1. j \in 1 .. n /\ B[j] = q[j].index /\ q[j].index \in Nat
      BY <1>1, <1>7, <1>8, <2>2
    <3>2. CASE i = 0
      BY <1>7, <3>1, <3>2
    <3>3. CASE i # 0
      <4>1. i \in 1 .. n /\ B[i] = q[i].index
        BY <1>1, <1>7, <3>3
      <4> QED BY <1>6, <2>2, <3>1, <4>1 DEF OrderedTo, Follows
    <3> QED BY <3>2, <3>3
  <2> QED BY <2>1, <2>2 DEF Rising
<1> QED BY <1>1, <1>4, <1>5, <1>6, <1>9 DEF FirstRows, q, n, B

\* The next row of the day is the next qualifying snapshot.
LEMMA RowAdded ==
    ASSUME NEW d, DayIs(d), NEW m \in Nat, m < Len(d.snapshots)
    PROVE  /\ d.snapshots[m + 1] \in Snapshot
           /\ ~d.snapshots[m + 1].qualifies => RowCount(d, m + 1) = RowCount(d, m)
           /\ d.snapshots[m + 1].qualifies =>
                 /\ RowCount(d, m + 1) = RowCount(d, m) + 1
                 /\ Qualifying(d)[RowCount(d, m) + 1] = d.snapshots[m + 1]
<1> DEFINE k == m + 1
           x == d.snapshots[k]
           r == RowsTo(d)[m]
           t == RowsTo(d)[k]
           q == Qualifying(d)
<1>1. k \in 1 .. Len(d.snapshots) /\ k - 1 = m /\ k \in Nat /\ k <= Len(d.snapshots)
  BY DEF DayIs
<1>2. /\ t \in Seq(Snapshot) /\ r \in Seq(Snapshot) /\ x \in Snapshot
      /\ t = IF x.qualifies THEN Append(r, x) ELSE r
  <2>1. /\ RowsTo(d)[k] \in Seq(Snapshot) /\ RowsTo(d)[k - 1] \in Seq(Snapshot)
        /\ RowsTo(d)[k] = IF d.snapshots[k].qualifies THEN Append(RowsTo(d)[k - 1], d.snapshots[k])
                          ELSE RowsTo(d)[k - 1]
    <3> HIDE DEF k
    <3> QED BY <1>1, NextRowOf DEF DayIs
  <2>2. x \in Snapshot
    BY <1>1 DEF DayIs
  <2> HIDE DEF k
  <2> QED BY <1>1, <2>1, <2>2
<1>3. Begins(t, q)
  <2>1. k <= Len(d.snapshots) /\ Len(d.snapshots) \in Nat
    BY <1>1 DEF DayIs
  <2> HIDE DEF k
  <2> QED BY <1>1, <2>1, RowsExtend DEF DayIs, Qualifying, t, q
<1>4. RowCount(d, m) = Len(r) /\ RowCount(d, m + 1) = Len(t)
  BY DEF RowCount
<1> HIDE DEF k, x, r, t, q
<1>5. CASE ~x.qualifies
  BY <1>2, <1>4, <1>5 DEF x, k
<1>6. CASE x.qualifies
  <2>1. t = Append(r, x)
    BY <1>2, <1>6
  <2>2. Len(t) = Len(r) + 1 /\ t[Len(r) + 1] = x /\ Len(r) \in Nat
    BY <1>2, <2>1
  <2>3. q[Len(r) + 1] = t[Len(r) + 1]
    BY <1>3, <2>2 DEF Begins
  <2> QED BY <1>2, <1>4, <1>6, <2>2, <2>3 DEF x, k, q
<1> QED BY <1>5, <1>6

Messages(d) == [j \in Nat |-> Qualifying(d)[j + 1].index]

TransitionsOk(f, d, n) ==
    /\ DOMAIN f.transitions = EventWindows
    /\ \A w \in EventWindows : /\ f.transitions[w] \in Seq(Nat)
                               /\ Trailing(f.transitions[w], w, IF n = 0 THEN 0 ELSE n - 1, Messages(d))

SnapshotsRead(d, f) ==
    /\ f.snapshots \in Nat /\ f.snapshots <= Len(d.snapshots) /\ OrderedTo(d.snapshots, f.snapshots)
    /\ f.lastSnapshot = IF f.snapshots = 0 THEN NoRow ELSE d.snapshots[f.snapshots]
    /\ f.events \in Nat /\ f.events <= Len(d.events) /\ (f.snapshots = 0 => f.events = 0)
    /\ \A m \in 1 .. f.events : d.events[m].index <= d.snapshots[f.snapshots].index

FlowOk(d, f) ==
    /\ IsFlow(f) /\ SnapshotsRead(d, f)
    /\ f.ordinal = RowCount(d, f.snapshots) - 1
    /\ TransitionsOk(f, d, RowCount(d, f.snapshots))
    /\ Consistent(d.events, f, Bounds(d), RowCount(d, f.snapshots))

\* Each row but the first is a transition.
LEMMA TransitionedIs ==
    ASSUME NEW f, IsFlow(f), NEW x
    PROVE  /\ IsFlow(Transitioned(f, x)) /\ SameReading(f, Transitioned(f, x))
           /\ SameTrades(f, Transitioned(f, x)) /\ Transitioned(f, x).buckets = f.buckets
           /\ Transitioned(f, x).ordinal = f.ordinal
           /\ Transitioned(f, x).transitions =
                 IF f.ordinal = 0 THEN f.transitions
                 ELSE [w \in EventWindows |-> Rolled(f.transitions[w], x.index, w)]
<1> DEFINE tr == [w \in EventWindows |-> Rolled(f.transitions[w], x.index, w)]
           g == [f EXCEPT !.transitions = tr]
<1>1. Transitioned(f, x) = IF f.ordinal = 0 THEN f ELSE g
  BY DEF Transitioned
<1> HIDE DEF tr
<1>2. /\ IsFlow(g) /\ SameReading(f, g) /\ SameTrades(f, g) /\ g.buckets = f.buckets
      /\ g.ordinal = f.ordinal /\ g.transitions = tr
  BY DEF IsFlow, SameReading, SameTrades
<1>3. SameReading(f, f) /\ SameTrades(f, f)
  BY DEF SameReading, SameTrades
<1> HIDE DEF g
<1>4. CASE f.ordinal = 0
  BY <1>1, <1>3, <1>4
<1>5. CASE f.ordinal # 0
  <2>1. Transitioned(f, x) = g
    BY <1>1, <1>5
  <2> QED BY <1>2, <1>5, <2>1 DEF tr
<1> QED BY <1>4, <1>5

-----------------------------------------------------------------------------
(* Pulling a feature: the next snapshot, in order or not.                   *)
LEMMA NextInOrder ==
    ASSUME NEW s \in Seq(Snapshot), NEW k \in Nat, k < Len(s), NEW last,
           last = (IF k = 0 THEN NoRow ELSE s[k]), OrderedTo(s, k)
    PROVE  /\ InOrder(last, s[k + 1]) => OrderedTo(s, k + 1)
           /\ ~InOrder(last, s[k + 1]) => ~OrderedRows(s)
<1>1. \A i \in 1 .. k + 1 : s[i] \in Snapshot /\ Row(s[i])
  <2>1. \A i \in 1 .. k + 1 : s[i] \in Snapshot
    OBVIOUS
  <2> QED BY <2>1, SnapshotIs
<1> DEFINE y == s[k + 1]
<1>2. y \in Snapshot /\ Row(y)
  BY <1>1
<1>3. k > 0 => s[k] \in Snapshot /\ Row(s[k]) /\ last = s[k] /\ last # NoRow
  <2> SUFFICES ASSUME k > 0 PROVE s[k] \in Snapshot /\ Row(s[k]) /\ last = s[k] /\ last # NoRow
    OBVIOUS
  <2>1. s[k] \in Snapshot /\ Row(s[k])
    BY <1>1
  <2> QED BY <2>1, RowsAssumption
<1>4. ASSUME InOrder(last, y) PROVE OrderedTo(s, k + 1)
  <2>1. k > 0 => Follows(s[k], s[k + 1])
    <3> HIDE DEF y
    <3>1. k > 0 => Follows(s[k], y)
      BY <1>2, <1>3, <1>4 DEF InOrder, Follows, Row
    <3> QED BY <3>1 DEF y
  <2> QED BY <1>1, <2>1, OrderedNext
<1>5. ASSUME ~InOrder(last, y), OrderedRows(s) PROVE FALSE
  <2>1. k > 0 /\ ~(y.index > last.index /\ y.time >= last.time)
    <3> HIDE DEF y
    <3> QED BY <1>5 DEF InOrder
  <2>2. k \in 1 .. Len(s) - 1
    BY <2>1
  <2>3. s[k].index < s[k + 1].index /\ s[k].time <= s[k + 1].time
    BY <1>5, <2>2 DEF OrderedRows
  <2> HIDE DEF y
  <2>4. s[k].index < y.index /\ s[k].time <= y.time
    BY <2>3 DEF y
  <2> QED BY <1>2, <1>3, <2>1, <2>4 DEF Row
<1> QED BY <1>4, <1>5

(* Of ordered events the last one up to the message of a qualifying         *)
(* snapshot is its trigger.                                                 *)
LEMMA TriggerFound ==
    ASSUME NEW d, DayIs(d), NEW x \in Snapshot, HasTrigger(d, x), OrderedRows(d.events),
           NEW f, Stops(d.events, f.events, x.index),
           f.lastEvent = (IF f.events = 0 THEN NoRow ELSE d.events[f.events])
    PROVE  Triggered(f, x)
<1> DEFINE s == d.events
           k == f.events
           i == x.index
<1>1. s \in Seq(Event) /\ Len(s) \in Nat /\ DOMAIN s = 1 .. Len(s)
  BY DEF DayIs
<1>2. \A m \in 1 .. Len(s) : s[m] \in Event /\ Row(s[m])
  BY <1>1, EventIs
<1>3. OrderedTo(s, Len(s))
  BY <1>1, <1>2, OrderedAll
<1>4. PICK n \in 1 .. Len(s) : s[n].index = i /\ s[n].time = x.time /\ s[n].kind = x.kind
  BY <1>1 DEF HasTrigger
<1>5. k \in Nat /\ k <= Len(s) /\ (\A m \in 1 .. k : s[m].index <= i) /\ (k < Len(s) => s[k + 1].index > i)
  BY DEF Stops
<1>6. i \in Nat
  BY SnapshotIs DEF Row
<1> HIDE DEF s, k, i
<1>7. n <= k
  <2>1. SUFFICES ASSUME n > k PROVE FALSE
    BY <1>5
  <2> DEFINE m == k + 1
  <2>2. m \in 1 .. Len(s) /\ s[m].index > i /\ (m = n \/ m < n)
    BY <1>1, <1>5, <2>1
  <2> HIDE DEF m
  <2>3. s[m].index <= s[n].index
    BY <1>2, <1>3, <2>2 DEF OrderedTo, Follows, Row
  <2> QED BY <1>2, <1>4, <1>6, <2>2, <2>3 DEF Row
<1>8. n = k
  <2>1. SUFFICES ASSUME n < k PROVE FALSE
    BY <1>5, <1>7
  <2>2. k \in 1 .. k /\ k \in 1 .. Len(s)
    BY <1>1, <1>5, <2>1
  <2>3. s[n].index < s[k].index /\ s[k].index <= i
    BY <1>3, <1>5, <2>1, <2>2 DEF OrderedTo, Follows
  <2> QED BY <1>2, <1>4, <1>6, <2>2, <2>3 DEF Row
<1>9. f.lastEvent = s[k] /\ s[k] \in Event
  BY <1>2, <1>4, <1>8 DEF s, k
<1> QED BY <1>4, <1>8, <1>9, RowsAssumption DEF Triggered, i

Advanced(f, x) == [CaughtUp(f, x) EXCEPT !.snapshots = @ + 1, !.lastSnapshot = x]

(* What the flow is once it has caught up with its next snapshot.           *)
AdvancesTo(d, f, a) ==
    /\ IsFlow(a) /\ a.failed \in BOOLEAN
    /\ a.ordinal = f.ordinal /\ a.transitions = f.transitions
    /\ a.failed => ~OrderedRows(d.events)
    /\ ~a.failed => /\ SnapshotsRead(d, a)
                    /\ Consistent(d.events, a, Bounds(d), RowCount(d, f.snapshots))
                    /\ Stops(d.events, a.events, d.snapshots[f.snapshots + 1].index)
    /\ a.snapshots = f.snapshots + 1

\* The flow that has caught up with the next snapshot.
LEMMA AdvancedIs ==
    ASSUME NEW d, d = Today, DayIs(d), NEW f, FlowOk(d, f), f.snapshots < Len(d.snapshots),
           InOrder(f.lastSnapshot, d.snapshots[f.snapshots + 1])
    PROVE  AdvancesTo(d, f, Advanced(f, d.snapshots[f.snapshots + 1]))
<1> DEFINE k == f.snapshots
           x == d.snapshots[k + 1]
           s == d.events
           n == RowCount(d, k)
           B == Bounds(d)
           c == CaughtUp(f, x)
           a == Advanced(f, x)
<1>1. /\ IsFlow(f) /\ k \in Nat /\ k < Len(d.snapshots) /\ OrderedTo(d.snapshots, k)
      /\ f.lastSnapshot = (IF k = 0 THEN NoRow ELSE d.snapshots[k])
      /\ f.events \in Nat /\ f.events <= Len(s) /\ (k = 0 => f.events = 0)
      /\ (\A m \in 1 .. f.events : s[m].index <= d.snapshots[k].index)
      /\ Consistent(s, f, B, n)
  BY DEF FlowOk, SnapshotsRead
<1>2. d.snapshots \in Seq(Snapshot) /\ s \in Seq(Event)
  BY DEF DayIs
<1>3. OrderedTo(d.snapshots, k + 1)
  BY <1>1, <1>2, NextInOrder
<1>4. x \in Snapshot /\ Row(x) /\ (k > 0 => d.snapshots[k] \in Snapshot /\ Row(d.snapshots[k]))
  <2>1. x \in Snapshot /\ (k > 0 => d.snapshots[k] \in Snapshot)
    BY <1>1, <1>2
  <2> HIDE DEF x
  <2> QED BY <2>1, SnapshotIs
<1>5. FirstRows(d, k)
  BY <1>1, <1>2, FirstRowsAre
<1>6. n \in Nat /\ Rising(B, n)
  BY <1>5 DEF FirstRows
<1>7. \A m \in 1 .. f.events : s[m].index <= x.index
  <2> SUFFICES ASSUME NEW m \in 1 .. f.events PROVE s[m].index <= x.index
    OBVIOUS
  <2>1. k > 0 /\ s[m].index <= d.snapshots[k].index
    BY <1>1
  <2>2. d.snapshots[k].index < x.index
    <3>1. k \in 1 .. k + 1 /\ k + 1 \in 1 .. k + 1 /\ k < k + 1
      BY <1>1, <2>1
    <3> QED BY <1>3, <3>1 DEF OrderedTo, Follows
  <2>3. s[m].index \in Nat
    <3>1. s[m] \in Event
      BY <1>1, <1>2
    <3> QED BY <3>1, EventIs DEF Row
  <2> HIDE DEF x
  <2> QED BY <1>4, <2>1, <2>2, <2>3 DEF Row
<1>8. ReadOn(s, f, c, B, n) /\ Stops(s, c.events, x.index)
  <2> HIDE DEF x, n, B
  <2> QED BY <1>1, <1>2, <1>4, <1>6, <1>7, CaughtUpReads
<1>9. IsFlow(c) /\ SameRows(f, c) /\ c.failed \in BOOLEAN /\ (c.failed => ~OrderedRows(s)) /\ (~c.failed => Consistent(s, c, B, n))
  BY <1>8 DEF ReadOn
<1> HIDE DEF c
<1>10. /\ IsFlow(a) /\ a.failed = c.failed /\ a.events = c.events /\ a.lastEvent = c.lastEvent
       /\ a.snapshots = k + 1 /\ a.lastSnapshot = x /\ a.ordinal = f.ordinal
       /\ a.transitions = f.transitions /\ SameTrades(c, a) /\ a.buckets = c.buckets
  <2> HIDE DEF x
  <2> QED BY <1>9 DEF Advanced, IsFlow, SameRows, SameTrades, c
<1> HIDE DEF a, n, B
<1>11. ASSUME ~a.failed PROVE Consistent(s, a, B, n)
  <2>1. Consistent(s, c, B, n)
    BY <1>9, <1>10, <1>11
  <2>2. FlowIs(a, Read(s, a.events), B, n)
    <3>1. FlowIs(c, Read(s, c.events), B, n) /\ a.events = c.events
      BY <1>10, <2>1 DEF Consistent
    <3> DEFINE E == Read(s, c.events)
    <3>2. FlowIs(c, E, B, n)
      BY <3>1
    <3> HIDE DEF E
    <3>3. \A w : Held(a, w) = Held(c, w)
      BY <1>10 DEF Held
    <3>4. Present(a) = Present(c)
      BY <1>10, <3>3 DEF Present, SameTrades
    <3>5. WindowsOk(a, E, B, n) /\ RatesOk(a, E)
      BY <1>10, <3>2 DEF FlowIs, WindowsOk, RatesOk, SameTrades
    <3>6. TotalsOk(a)
      BY <1>10, <3>2, <3>3 DEF FlowIs, TotalsOk, SameTrades
    <3>7. MatchesOk(a, E)
      BY <1>10, <3>2, <3>4 DEF FlowIs, MatchesOk, AreKnown, AreUnbroken, AreActive, MatchIs, SameTrades
    <3>8. FlowIs(a, E, B, n)
      BY <3>5, <3>6, <3>7 DEF FlowIs
    <3> QED BY <3>1, <3>8 DEF E
  <2> QED BY <1>10, <2>1, <2>2 DEF Consistent, Reading, Reaches
<1>12. SnapshotsRead(d, a)
  <2>1. a.events \in Nat /\ a.events <= Len(s) /\ \A m \in 1 .. a.events : s[m].index <= x.index
    BY <1>8, <1>10 DEF Stops
  <2>2. k + 1 \in Nat /\ k + 1 <= Len(d.snapshots) /\ k + 1 # 0
    BY <1>1, <1>2
  <2> QED BY <1>3, <1>10, <2>1, <2>2 DEF SnapshotsRead
<1> QED BY <1>8, <1>9, <1>10, <1>11, <1>12 DEF AdvancesTo, n, B, a
(* A snapshot that does not qualify.                                        *)
LEMMA AdvancedFlow ==
    ASSUME NEW d, DayIs(d), NEW f, FlowOk(d, f), f.snapshots < Len(d.snapshots),
           ~d.snapshots[f.snapshots + 1].qualifies, NEW a, AdvancesTo(d, f, a), ~a.failed
    PROVE  FlowOk(d, a)
<1> DEFINE k == f.snapshots
<1>1. k \in Nat /\ k < Len(d.snapshots) /\ a.snapshots = k + 1
  BY DEF FlowOk, SnapshotsRead, AdvancesTo
<1>2. RowCount(d, k + 1) = RowCount(d, k)
  BY <1>1, RowAdded
<1>3. RowCount(d, a.snapshots) = RowCount(d, k)
  BY <1>1, <1>2
<1>4. TransitionsOk(a, d, RowCount(d, k)) /\ a.ordinal = RowCount(d, k) - 1
  BY DEF FlowOk, AdvancesTo, TransitionsOk
<1>5. IsFlow(a) /\ SnapshotsRead(d, a) /\ Consistent(d.events, a, Bounds(d), RowCount(d, k))
  BY DEF AdvancesTo
<1> HIDE DEF k
<1> QED BY <1>3, <1>4, <1>5 DEF FlowOk

Qualified(a, x) == Bucketed(Transitioned([a EXCEPT !.ordinal = @ + 1], x))

(* A qualifying one.                                                        *)
LEMMA QualifiedFlow ==
    ASSUME NEW d, DayIs(d), NEW f, FlowOk(d, f), f.snapshots < Len(d.snapshots),
           d.snapshots[f.snapshots + 1].qualifies, NEW a, AdvancesTo(d, f, a), ~a.failed,
           Triggered(a, d.snapshots[f.snapshots + 1])
    PROVE  /\ FlowOk(d, Qualified(a, d.snapshots[f.snapshots + 1]))
           /\ SameReading(a, Qualified(a, d.snapshots[f.snapshots + 1]))
           /\ Stops(d.events, a.events, d.snapshots[f.snapshots + 1].index)
           /\ RowCount(d, f.snapshots + 1) = RowCount(d, f.snapshots) + 1
           /\ Qualifying(d)[RowCount(d, f.snapshots) + 1] = d.snapshots[f.snapshots + 1]
           /\ RowCount(d, f.snapshots) \in Nat
<1> DEFINE k == f.snapshots
           x == d.snapshots[k + 1]
           s == d.events
           n == RowCount(d, k)
           B == Bounds(d)
           b == [a EXCEPT !.ordinal = @ + 1]
           t == Transitioned(b, x)
           g == Bucketed(t)
<1>1. /\ IsFlow(f) /\ k \in Nat /\ k < Len(d.snapshots) /\ k + 1 \in Nat /\ k + 1 <= Len(d.snapshots)
      /\ f.ordinal = n - 1 /\ TransitionsOk(f, d, n)
  BY DEF FlowOk, SnapshotsRead, DayIs
<1>2. /\ IsFlow(a) /\ a.ordinal = f.ordinal /\ a.transitions = f.transitions
      /\ SnapshotsRead(d, a) /\ Consistent(s, a, B, n) /\ Stops(s, a.events, x.index)
      /\ a.snapshots = k + 1
  BY DEF AdvancesTo
<1>3. OrderedTo(d.snapshots, k + 1)
  BY <1>2 DEF SnapshotsRead
<1>4. x \in Snapshot /\ RowCount(d, k + 1) = n + 1 /\ Qualifying(d)[n + 1] = x
  BY <1>1, RowAdded
<1>5. FirstRows(d, k) /\ FirstRows(d, k + 1)
  <2>1. OrderedTo(d.snapshots, k)
    BY DEF FlowOk, SnapshotsRead
  <2> DEFINE k1 == k + 1
  <2>2. k1 \in Nat /\ k1 <= Len(d.snapshots) /\ OrderedTo(d.snapshots, k1)
    BY <1>1, <1>3
  <2> HIDE DEF k1
  <2>3. FirstRows(d, k1)
    BY <2>2, FirstRowsAre
  <2>4. FirstRows(d, k)
    <3>1. k <= Len(d.snapshots)
      BY <1>1 DEF DayIs
    <3> HIDE DEF k
    <3> QED BY <1>1, <2>1, <3>1, FirstRowsAre
  <2> QED BY <2>3, <2>4 DEF k1
<1>6. n \in Nat /\ Rising(B, n + 1)
  <2>1. n \in Nat /\ Rising(B, RowCount(d, k + 1))
    BY <1>5 DEF FirstRows
  <2> QED BY <1>4, <2>1
<1>7. x.index \in Nat
  BY <1>4, SnapshotIs DEF Row
<1>8. B[n + 1] = x.index /\ Messages(d)[n] = x.index /\ B[0] = -1
  <2>1. n + 1 \in Nat /\ n + 1 # 0
    BY <1>6
  <2> HIDE DEF n, x, k
  <2>2. Bounds(d)[n + 1] = Qualifying(d)[n + 1].index /\ Messages(d)[n] = Qualifying(d)[n + 1].index
    BY <1>6, <2>1 DEF Bounds, Messages
  <2> QED BY <1>4, <2>2 DEF Bounds
<1> HIDE DEF x, k, n, B
<1>9. /\ IsFlow(b) /\ b.ordinal = n /\ b.transitions = f.transitions /\ SameReading(a, b)
      /\ SameTrades(a, b) /\ b.buckets = a.buckets
  BY <1>1, <1>2, <1>6 DEF IsFlow, SameReading, SameTrades
<1> HIDE DEF b
<1>10. /\ IsFlow(t) /\ SameReading(b, t) /\ SameTrades(b, t) /\ t.buckets = b.buckets
       /\ t.ordinal = n
       /\ t.transitions = IF n = 0 THEN f.transitions
                          ELSE [w \in EventWindows |-> Rolled(f.transitions[w], x.index, w)]
  BY <1>9, TransitionedIs
<1> HIDE DEF t
<1>11. /\ IsFlow(g) /\ SameReading(t, g) /\ RowTaken(t, g) /\ g.ordinal = n /\ g.transitions = t.transitions
  BY <1>10, BucketedIs
<1> HIDE DEF g
<1>12. TransitionsOk(g, d, n + 1)
  <2>1. CASE n = 0
    <3>1. g.transitions = f.transitions
      BY <1>10, <1>11, <2>1
    <3>2. (IF n + 1 = 0 THEN 0 ELSE (n + 1) - 1) = (IF n = 0 THEN 0 ELSE n - 1)
      BY <2>1
    <3> QED BY <1>1, <3>1, <3>2 DEF TransitionsOk
  <2>2. CASE n # 0
    <3>1. g.transitions = [w \in EventWindows |-> Rolled(f.transitions[w], x.index, w)]
      BY <1>10, <1>11, <2>2
    <3> DEFINE p == n - 1
               G == Messages(d)
    <3>2. p \in Nat /\ p + 1 = n /\ G[p + 1] = x.index
      BY <1>6, <1>8, <2>2
    <3>3. (IF n + 1 = 0 THEN 0 ELSE (n + 1) - 1) = p + 1 /\ (IF n = 0 THEN 0 ELSE n - 1) = p
      BY <1>6, <2>2
    <3> HIDE DEF p, G
    <3>4. ASSUME NEW w \in EventWindows
          PROVE  /\ g.transitions[w] \in Seq(Nat) /\ Trailing(g.transitions[w], w, p + 1, G)
      <4>1. w \in Nat \ {0} /\ f.transitions[w] \in Seq(Nat) /\ Trailing(f.transitions[w], w, p, G)
        BY <1>1, <3>3, RowsAssumption DEF TransitionsOk, G
      <4>2. g.transitions[w] = Rolled(f.transitions[w], G[p + 1], w)
        BY <3>1, <3>2
      <4>3. G[p + 1] \in Nat
        BY <1>7, <3>2
      <4> DEFINE seq == f.transitions[w]
      <4>4. seq \in Seq(Nat) /\ Trailing(seq, w, p, G)
        BY <4>1
      <4> HIDE DEF seq
      <4>5. Rolled(seq, G[p + 1], w) \in Seq(Nat) /\ Trailing(Rolled(seq, G[p + 1], w), w, p + 1, G)
        BY <3>2, <4>1, <4>3, <4>4, RolledTrails
      <4> QED BY <4>2, <4>5 DEF seq
    <3>5. DOMAIN g.transitions = EventWindows
      BY <3>1
    <3> QED BY <3>3, <3>4, <3>5 DEF TransitionsOk, G
  <2> QED BY <2>1, <2>2
<1>13. a.lastEvent = s[a.events] /\ a.events \in Nat /\ a.events > 0 /\ s[a.events].index = x.index
  <2>1. a.lastEvent # NoRow /\ a.lastEvent.index = x.index
    BY DEF Triggered, x, k
  <2>2. a.lastEvent = (IF a.events = 0 THEN NoRow ELSE s[a.events])
    BY <1>2 DEF Consistent, Reading
  <2>3. a.events \in Nat
    BY <1>2 DEF Stops
  <2> QED BY <2>1, <2>2, <2>3
<1>14. FlowIs(g, Read(s, g.events), B, n + 1)
  <2> DEFINE E == Read(s, a.events)
  <2>1. g.events = a.events
    BY <1>9, <1>10, <1>11 DEF SameReading
  <2>2. EventSet(E)
    <3>1. s \in Seq(Event) /\ a.events \in Nat /\ a.events <= Len(s) /\ OrderedTo(s, a.events)
      BY <1>2 DEF DayIs, Stops, Consistent, Reading
    <3> HIDE DEF s
    <3> QED BY <3>1, ReadIs
  <2>3. \A i \in Traded(E) : i <= B[n + 1]
    <3> SUFFICES ASSUME NEW i \in Traded(E) PROVE i <= x.index
      BY <1>8
    <3>1. \E m \in 1 .. a.events : i = s[m].index
      BY DEF Traded, Indexes, Trades, Read
    <3> QED BY <1>2, <3>1 DEF Stops
  <2>4. FlowIs(a, E, B, n)
    BY <1>2 DEF Consistent
  <2>5. SameTrades(a, t) /\ t.buckets = a.buckets
    BY <1>9, <1>10 DEF SameTrades
  <2> HIDE DEF E
  <2>6. RowTaken(a, g)
    <3>1. \A w : Evictions(t, w) = Evictions(a, w)
      BY <2>5 DEF Evictions
    <3>2. \A gone : SomeForgotten(t, g, gone) => SomeForgotten(a, g, gone)
      BY <2>5 DEF SomeForgotten, SameTrades
    <3> QED BY <1>11, <2>5, <3>1, <3>2 DEF RowTaken, SameTrades
  <2>7. FlowIs(g, E, B, n + 1)
    BY <1>6, <2>2, <2>3, <2>4, <2>6, FlowTakesRow
  <2> QED BY <2>1, <2>7 DEF E
<1>15. SameReading(a, g)
  BY <1>9, <1>10, <1>11 DEF SameReading
<1>16. Consistent(s, g, B, n + 1)
  <2>1. Reading(s, g)
    BY <1>2, <1>15 DEF Consistent, Reading, SameReading
  <2>2. Reaches(s, g, B, n + 1)
    <3>1. B[n + 1] <= s[g.events].index /\ g.events > 0
      BY <1>7, <1>8, <1>13, <1>15 DEF SameReading
    <3> QED BY <1>8, <3>1 DEF Reaches
  <2> QED BY <1>14, <2>1, <2>2 DEF Consistent
<1>17. SnapshotsRead(d, g)
  BY <1>2, <1>15 DEF SnapshotsRead, SameReading
<1>18. FlowOk(d, g)
  <2>1. g.snapshots = k + 1 /\ RowCount(d, g.snapshots) = n + 1
    BY <1>2, <1>4, <1>15 DEF SameReading
  <2>2. g.ordinal = RowCount(d, g.snapshots) - 1
    BY <1>6, <1>11, <2>1
  <2> QED BY <1>11, <1>12, <1>16, <1>17, <2>1, <2>2 DEF FlowOk, B
<1>19. Qualified(a, x) = g
  BY DEF Qualified, g, t, b
<1> QED BY <1>2, <1>4, <1>6, <1>15, <1>18, <1>19 DEF x, k, n

-----------------------------------------------------------------------------
(* A feature row.                                                           *)

(* FeaturesAreCausal of a row of a day: its k-th, of message i at time t.   *)
CausalAt(d, row, k, i, t) ==
    /\ Qualifying(d)[k + 1].index = i
    /\ \A w \in EventWindows :
          IF k < w THEN row.executed[w] = <<>>
          ELSE LET all == WindowOf(d, k, w)
                   sure == {e \in all : BreaksBy(d, e, i) = {}}
                   open == {e \in all : \A b \in BreaksBy(d, e, i) : b.index < e.index}
               IN  /\ row.transitions[w] = [j \in 1 .. w |-> Qualifying(d)[k + 1 - w + j].index]
                   /\ \E s \in SUBSET (open \ sure) :
                         row.executed[w] = <<Shares(Indexes(sure \cup s))>>
    /\ \A w \in ClockWindows : t >= SessionStart + w =>
          row.rate[w] = <<Cardinality({e \in Before(d, i) :
              e.kind = "execute" /\ InSession(e) /\ e.time + w > t})>>

CausalIn(d, row) == CausalAt(d, row, row.ordinal, row.index, row.time)

(* The flow from which the row of snapshot x is made.                       *)
Makes(d, f, x) ==
    /\ DayIs(d) /\ FlowOk(d, f) /\ x \in Snapshot /\ Stops(d.events, f.events, x.index)
    /\ f.ordinal \in Nat /\ Qualifying(d)[f.ordinal + 1] = x
    /\ f.lastEvent # NoRow /\ f.lastEvent.time = x.time

(* What it says, with n rows so far and E the events up to the message.     *)
LEMMA MadeFrom ==
    ASSUME NEW d, NEW f, NEW x, Makes(d, f, x)
    PROVE  /\ EventSet(Before(d, x.index))
           /\ FlowIs(f, Before(d, x.index), Bounds(d), f.ordinal + 1)
           /\ Rising(Bounds(d), f.ordinal + 1)
           /\ TransitionsOk(f, d, f.ordinal + 1)
           /\ \A e \in Before(d, x.index) : e.index <= x.index /\ e.time <= x.time
           /\ \A i \in Traded(Before(d, x.index)) : i <= x.index
<1> DEFINE s == d.events
           E == Read(s, f.events)
           n == RowCount(d, f.snapshots)
<1>1. /\ s \in Seq(Event) /\ x.index \in Nat /\ Stops(s, f.events, x.index)
      /\ Consistent(s, f, Bounds(d), n) /\ f.ordinal = n - 1 /\ TransitionsOk(f, d, n)
      /\ f.snapshots \in Nat /\ f.snapshots <= Len(d.snapshots) /\ OrderedTo(d.snapshots, f.snapshots)
  BY SnapshotIs DEF Makes, DayIs, FlowOk, SnapshotsRead, Row
<1>2. FirstRows(d, f.snapshots)
  BY <1>1, FirstRowsAre DEF Makes
<1>3. n \in Nat /\ Rising(Bounds(d), n)
  BY <1>2 DEF FirstRows
<1>4. n = f.ordinal + 1
  BY <1>1, <1>3 DEF Makes
<1>5. Before(d, x.index) = E
  BY <1>1, BeforeIs
<1>6. /\ f.events \in Nat /\ f.events <= Len(s) /\ OrderedTo(s, f.events)
      /\ (\A m \in 1 .. f.events : s[m].index <= x.index) /\ FlowIs(f, E, Bounds(d), n)
      /\ f.lastEvent = IF f.events = 0 THEN NoRow ELSE s[f.events]
  BY <1>1 DEF Stops, Consistent, Reading
<1>7. EventSet(E)
  BY <1>1, <1>6, ReadIs
<1>8. f.events > 0 /\ s[f.events].time = x.time
  BY <1>6 DEF Makes
<1>9. ASSUME NEW m \in 1 .. f.events PROVE s[m].time <= x.time
  <2>1. s[m] \in Event /\ f.events \in 1 .. f.events
    BY <1>1, <1>6, <1>8
  <2>2. s[m].time \in Nat
    BY <2>1, EventIs DEF Row
  <2>3. CASE m = f.events
    BY <1>8, <2>2, <2>3
  <2>4. CASE m < f.events
    BY <1>6, <1>8, <2>1, <2>4 DEF OrderedTo, Follows
  <2> QED BY <1>6, <2>3, <2>4
<1>10. \A e \in E : e.index <= x.index /\ e.time <= x.time
  BY <1>6, <1>9 DEF Read
<1> HIDE DEF E, n
<1>11. \A i \in Traded(E) : i <= x.index
  BY <1>10 DEF Traded, Trades, Indexes
<1> QED BY <1>1, <1>3, <1>4, <1>5, <1>6, <1>7, <1>10, <1>11

(* The last transitions are those of the last rows.                         *)
LEMMA MadeTransitions ==
    ASSUME NEW d, NEW f, NEW x, Makes(d, f, x), NEW w \in EventWindows
    PROVE  /\ WindowComplete(f, w) <=> f.ordinal >= w
           /\ f.ordinal >= w =>
                 f.transitions[w] = [j \in 1 .. w |-> Qualifying(d)[f.ordinal + 1 - w + j].index]
<1> DEFINE k == f.ordinal
           q == f.transitions[w]
           G == Messages(d)
<1>1. k \in Nat /\ w \in Nat \ {0}
  BY RowsAssumption DEF Makes
<1>2. TransitionsOk(f, d, k + 1)
  BY MadeFrom
<1>3. (IF k + 1 = 0 THEN 0 ELSE (k + 1) - 1) = k
  BY <1>1
<1>4. q \in Seq(Nat) /\ Trailing(q, w, k, G)
  BY <1>2, <1>3 DEF TransitionsOk
<1> HIDE DEF q, G, k
<1>5. Len(q) = (IF k <= w THEN k ELSE w) /\ \A l \in 1 .. Len(q) : q[l] = G[k - Len(q) + l]
  BY <1>4 DEF Trailing
<1>6. WindowComplete(f, w) <=> k >= w
  BY <1>1, <1>5 DEF WindowComplete, q
<1>7. ASSUME k >= w PROVE q = [j \in 1 .. w |-> Qualifying(d)[k + 1 - w + j].index]
  <2>1. Len(q) = w
    BY <1>1, <1>5, <1>7
  <2>2. ASSUME NEW j \in 1 .. w PROVE q[j] = Qualifying(d)[k + 1 - w + j].index
    <3> DEFINE p == k - w + j
    <3>1. p \in Nat /\ p + 1 = k + 1 - w + j
      BY <1>1, <1>7
    <3>2. q[j] = G[p]
      BY <1>5, <2>1
    <3> HIDE DEF p
    <3>3. G[p] = Qualifying(d)[p + 1].index
      BY <3>1 DEF G, Messages
    <3> QED BY <3>1, <3>2, <3>3
  <2>3. DOMAIN q = 1 .. w /\ q = [j \in DOMAIN q |-> q[j]]
    BY <1>4, <2>1
  <2> QED BY <2>2, <2>3
<1> QED BY <1>6, <1>7 DEF q, k
(* The executions in a complete window are those of the last rows, and what *)
(* they add up to is what of them still counts.                             *)
LEMMA MadeExecuted ==
    ASSUME NEW d, NEW f, NEW x, Makes(d, f, x), NEW w \in EventWindows, f.ordinal >= w
    PROVE  LET all == WindowOf(d, f.ordinal, w)
               sure == {e \in all : BreaksBy(d, e, x.index) = {}}
               open == {e \in all : \A b \in BreaksBy(d, e, x.index) : b.index < e.index}
           IN  \E s \in SUBSET (open \ sure) : f.total[w] = Shares(Indexes(sure \cup s))
<1> DEFINE k == f.ordinal
           E == Before(d, x.index)
           B == Bounds(d)
           all == WindowOf(d, k, w)
           sure == {e \in all : BreaksBy(d, e, x.index) = {}}
           open == {e \in all : \A b \in BreaksBy(d, e, x.index) : b.index < e.index}
           s == {e \in all : e.index \in f.active} \ sure
<1>1. k \in Nat /\ w \in Nat \ {0} /\ w <= k /\ Qualifying(d)[k + 1] = x
  BY RowsAssumption DEF Makes
<1>2. /\ EventSet(E) /\ Rising(B, k + 1) /\ \A i \in Traded(E) : i <= x.index
      /\ WindowsOk(f, E, B, k + 1) /\ MatchesOk(f, E) /\ TotalsOk(f)
  BY MadeFrom DEF FlowIs
<1>3. B[k + 1] = x.index /\ B[k + 1 - w] = Qualifying(d)[k + 1 - w].index
  <2>1. k + 1 \in Nat /\ k + 1 # 0 /\ k + 1 - w \in Nat /\ k + 1 - w # 0
    BY <1>1
  <2> QED BY <1>1, <2>1 DEF Bounds
<1>4. Held(f, w) = {i \in Traded(E) : B[k + 1 - w] < i}
  <2>1. First(k + 1, w) = k + 1 - w /\ k + 1 \in Nat
    BY <1>1 DEF First
  <2>2. Held(f, w) = Span(E, B[First(k + 1, w)], B[k + 1])
    BY <1>2, <2>1, HeldIs
  <2> QED BY <1>2, <1>3, <2>1, <2>2 DEF Span
<1>5. all = {e \in Trades(E) : B[k + 1 - w] < e.index}
  <2>1. all = {e \in Before(d, Qualifying(d)[k + 1].index) :
                 e.kind = "execute" /\ InSession(e) /\ Qualifying(d)[k + 1 - w].index < e.index}
    BY DEF WindowOf
  <2>2. all = {e \in E : IsTrade(e) /\ B[k + 1 - w] < e.index}
    BY <1>1, <1>3, <2>1 DEF IsTrade
  <2> HIDE DEF E, B, all
  <2> QED BY <2>2 DEF Trades
<1>6. Held(f, w) = Indexes(all)
  <2> HIDE DEF E, B, all, k
  <2> QED BY <1>4, <1>5 DEF Traded, Indexes
<1>7. \A e : BreaksBy(d, e, x.index) = {b \in E : IsBreak(b) /\ b.match = e.match}
  BY DEF BreaksBy, IsBreak
<1> HIDE DEF E, B, k, all
<1>8. \A e \in sure : e.index \in f.active
  <2> SUFFICES ASSUME NEW e \in sure PROVE e.index \in f.active
    OBVIOUS
  <2>1. e \in Trades(E) /\ {b \in E : IsBreak(b) /\ b.match = e.match} = {}
    BY <1>5, <1>7
  <2>2. \A b \in E : IsBreak(b) => b.match # e.match
    BY <2>1
  <2> QED BY <1>2, <2>1, <2>2 DEF MatchesOk, AreActive
<1>9. s \subseteq open \ sure
  <2> SUFFICES ASSUME NEW e \in s PROVE e \in open
    OBVIOUS
  <2>1. e \in all /\ e \in Trades(E) /\ e.index \in f.active
    BY <1>5
  <2>2. e.index \in Present(f)
    BY <1>6, <2>1 DEF Indexes, Present
  <2>3. \A b \in E : IsBreak(b) /\ b.match = e.match => b.index < e.index
    BY <1>2, <2>1, <2>2 DEF MatchesOk, AreUnbroken
  <2> QED BY <1>7, <2>1, <2>3
<1>10. Held(f, w) \cap f.active = Indexes(sure \cup s)
  <2>1. sure \cup s = {e \in all : e.index \in f.active}
    BY <1>8
  <2>2. Held(f, w) \cap f.active = Indexes({e \in all : e.index \in f.active})
    BY <1>6 DEF Indexes
  <2> QED BY <2>1, <2>2
<1>11. f.total[w] = Shares(Indexes(sure \cup s))
  BY <1>2, <1>10 DEF TotalsOk
<1> HIDE DEF sure, open, s
<1>12. \E r \in SUBSET (open \ sure) : f.total[w] = Shares(Indexes(sure \cup r))
  BY <1>9, <1>11
<1> QED BY <1>12 DEF sure, open, all, k

(* The queue of times, aged to the time of the row, counts the executions   *)
(* of the clock window.                                                     *)
LEMMA MadeRate ==
    ASSUME NEW d, NEW f, NEW x, Makes(d, f, x), NEW w \in ClockWindows
    PROVE  Len(Unexpired(f.recent[w], x.time, w)) =
              Cardinality({e \in Before(d, x.index) :
                  e.kind = "execute" /\ InSession(e) /\ e.time + w > x.time})
<1> DEFINE E == Before(d, x.index)
           q == f.recent[w]
           now == x.time
<1>1. RateIs(q, E, w) /\ \A e \in E : e.time <= now
  <2>1. RatesOk(f, E) /\ \A e \in E : e.time <= now
    BY MadeFrom DEF FlowIs
  <2> HIDE DEF E, now
  <2> QED BY <2>1 DEF RatesOk
<1>2. w \in Nat /\ now \in Nat
  BY RowsAssumption, SnapshotIs DEF Makes, Row
<1>3. \A t \in Trades(E) : t.time <= now
  BY <1>1 DEF Trades
<1>4. Recently(E, now, w) = {e \in E : e.kind = "execute" /\ InSession(e) /\ e.time + w > now}
  BY DEF Recently, Trades, IsTrade
<1> HIDE DEF E, now, q
<1>5. Cardinality(Inside(q, now, w)) = Cardinality(Recently(E, now, w)) /\ Queue(q)
  BY <1>1, <1>2, <1>3 DEF RateIs
<1>6. Len(Unexpired(q, now, w)) = Cardinality(Inside(q, now, w))
  BY <1>2, <1>5, UnexpiredIs DEF Aged
<1>7. Len(Unexpired(q, now, w))
        = Cardinality({e \in E : e.kind = "execute" /\ InSession(e) /\ e.time + w > now})
  BY <1>4, <1>5, <1>6
<1> QED BY <1>7 DEF E, now, q

\* The row made from a flow that has caught up is causal.
LEMMA CausalRow ==
    ASSUME NEW d, NEW f, NEW x, Makes(d, f, x)
    PROVE  CausalIn(d, FeatureRow(f, x))
<1> DEFINE row == FeatureRow(f, x)
           k == f.ordinal
<1>1. row.index = x.index /\ row.time = x.time /\ row.ordinal = k
  BY DEF FeatureRow
<1>2. Qualifying(d)[k + 1] = x /\ k \in Nat
  BY DEF Makes
<1>3. ASSUME NEW w \in EventWindows
      PROVE  /\ row.transitions[w] = IF WindowComplete(f, w) THEN f.transitions[w] ELSE <<>>
             /\ row.executed[w] = IF WindowComplete(f, w) THEN <<f.total[w]>> ELSE <<>>
  BY DEF FeatureRow
<1>4. ASSUME NEW w \in ClockWindows, x.time >= SessionStart + w
      PROVE  row.rate[w] = <<Len(Unexpired(f.recent[w], x.time, w))>>
  BY <1>4 DEF FeatureRow
<1> HIDE DEF row
<1>5. ASSUME NEW w \in EventWindows
      PROVE  IF k < w THEN row.executed[w] = <<>>
             ELSE LET all == WindowOf(d, k, w)
                      sure == {e \in all : BreaksBy(d, e, x.index) = {}}
                      open == {e \in all : \A b \in BreaksBy(d, e, x.index) : b.index < e.index}
                  IN  /\ row.transitions[w] = [j \in 1 .. w |-> Qualifying(d)[k + 1 - w + j].index]
                      /\ \E s \in SUBSET (open \ sure) :
                            row.executed[w] = <<Shares(Indexes(sure \cup s))>>
  <2>1. w \in Nat
    BY RowsAssumption
  <2>2. WindowComplete(f, w) <=> k >= w
    BY MadeTransitions
  <2>3. CASE k < w
    <3>1. ~WindowComplete(f, w)
      BY <1>2, <2>1, <2>2, <2>3
    <3>2. row.executed[w] = <<>>
      BY <1>3, <3>1
    <3> QED BY <2>3, <3>2
  <2>4. CASE ~(k < w)
    <3> DEFINE all == WindowOf(d, k, w)
               sure == {e \in all : BreaksBy(d, e, x.index) = {}}
               open == {e \in all : \A b \in BreaksBy(d, e, x.index) : b.index < e.index}
    <3>1. k >= w /\ WindowComplete(f, w)
      BY <1>2, <2>1, <2>2, <2>4
    <3>2. row.transitions[w] = f.transitions[w] /\ row.executed[w] = <<f.total[w]>>
      BY <1>3, <3>1
    <3>3. f.transitions[w] = [j \in 1 .. w |-> Qualifying(d)[k + 1 - w + j].index]
      BY <3>1, MadeTransitions
    <3>4. \E s \in SUBSET (open \ sure) : f.total[w] = Shares(Indexes(sure \cup s))
      BY <3>1, MadeExecuted
    <3> HIDE DEF all, sure, open
    <3>5. \E s \in SUBSET (open \ sure) : row.executed[w] = <<Shares(Indexes(sure \cup s))>>
      BY <3>2, <3>4
    <3> QED BY <2>4, <3>2, <3>3, <3>5 DEF all, sure, open
  <2> QED BY <2>3, <2>4
<1>6. ASSUME NEW w \in ClockWindows, x.time >= SessionStart + w
      PROVE  row.rate[w] = <<Cardinality({e \in Before(d, x.index) :
                 e.kind = "execute" /\ InSession(e) /\ e.time + w > x.time})>>
  BY <1>4, <1>6, MadeRate
<1> DEFINE i == x.index
           t == x.time
<1>7. Qualifying(d)[k + 1].index = i
  BY <1>2
<1>8. CausalAt(d, row, k, i, t)
  BY <1>5, <1>6, <1>7 DEF CausalAt
<1> HIDE DEF k, i, t
<1>9. CausalIn(d, row)
  BY <1>1, <1>8 DEF CausalIn, k, i, t
<1> QED BY <1>9 DEF row

-----------------------------------------------------------------------------
(* The flow of a day that has not begun.                                    *)
LEMMA FreshFlowIs ==
    ASSUME NEW d, DayIs(d)
    PROVE  FlowOk(d, FreshFlow)
<1> DEFINE f == FreshFlow
           s == d.events
           B == Bounds(d)
<1>1. /\ IsFlow(f) /\ f.events = 0 /\ f.snapshots = 0 /\ f.lastEvent = NoRow /\ f.lastSnapshot = NoRow
      /\ f.failed = FALSE /\ f.ordinal = -1 /\ f.pending = {} /\ f.matches = <<>> /\ f.active = {}
      /\ f.transitions = [w \in EventWindows |-> <<>>] /\ f.buckets = [w \in EventWindows |-> <<>>]
      /\ f.total = [w \in EventWindows |-> 0] /\ f.recent = [w \in ClockWindows |-> <<>>]
  BY DEF FreshFlow, IsFlow
<1>2. s \in Seq(Event) /\ d.snapshots \in Seq(Snapshot) /\ Len(s) \in Nat /\ Len(d.snapshots) \in Nat
  BY DEF DayIs
<1> HIDE DEF f
<1>3. RowCount(d, 0) = 0
  BY <1>2, NoRowsTo DEF RowCount
<1>4. SnapshotsRead(d, f)
  BY <1>1, <1>2 DEF SnapshotsRead, OrderedTo
<1>5. TransitionsOk(f, d, 0)
  <2>1. ASSUME NEW w \in EventWindows, NEW G PROVE Trailing(<<>>, w, 0, G)
    BY RowsAssumption DEF Trailing
  <2>2. \A w \in EventWindows : f.transitions[w] = <<>> /\ f.transitions[w] \in Seq(Nat)
    BY <1>1
  <2> QED BY <1>1, <2>1, <2>2 DEF TransitionsOk
<1>6. Read(s, f.events) = {}
  BY <1>1 DEF Read
<1>7. Reading(s, f) /\ Reaches(s, f, B, 0)
  <2>1. B[0] = -1
    BY DEF Bounds
  <2> QED BY <1>1, <2>1 DEF Reading, Reaches, OrderedTo
<1>8. Traded({}) = {} /\ Trades({}) = {}
  BY DEF Traded, Trades, Indexes
<1> HIDE DEF B, s
<1>9. WindowsOk(f, {}, B, 0)
  BY <1>1, <1>8, RowsAssumption DEF WindowsOk, Trailing
<1>10. MatchesOk(f, {})
  BY <1>1, <1>8 DEF MatchesOk, AreKnown, AreUnbroken, AreActive
<1>11. TotalsOk(f)
  <2>1. Shares({}) = 0
    BY SumEmpty DEF Shares
  <2> QED BY <1>1, <2>1 DEF TotalsOk
<1>12. RatesOk(f, {})
  <2>1. ASSUME NEW w \in ClockWindows PROVE RateIs(<<>>, {}, w)
    <3>1. \A now \in Nat : Inside(<<>>, now, w) = {} /\ Recently({}, now, w) = {}
      BY <1>8 DEF Inside, Recently
    <3>2. Queue(<<>>)
      BY DEF Queue
    <3>3. \A i \in 1 .. Len(<<>>) : FALSE
      OBVIOUS
    <3>4. \A now \in Nat : Cardinality(Inside(<<>>, now, w)) = Cardinality(Recently({}, now, w))
      BY <3>1
    <3> QED BY <3>2, <3>3, <3>4 DEF RateIs
  <2> QED BY <1>1, <2>1 DEF RatesOk
<1>13. FlowIs(f, {}, B, 0)
  BY <1>9, <1>10, <1>11, <1>12 DEF FlowIs
<1>14. f.ordinal = RowCount(d, f.snapshots) - 1 /\ RowCount(d, f.snapshots) = 0
  BY <1>1, <1>3
<1> QED BY <1>1, <1>4, <1>5, <1>6, <1>7, <1>13, <1>14 DEF FlowOk, Consistent, f, B, s

DaysOk == days \in Inputs /\ day \in 1 .. Len(Partitions)

\* The day being built is one of the assumption.
LEMMA DaysAre ==
    ASSUME DaysOk
    PROVE  /\ DayIs(Today) /\ Len(Partitions) = 3
           /\ \A p \in ToSet(Partitions) : DayIs(days[p])
           /\ \A i \in 1 .. 3 : Partitions[i] \in ToSet(Partitions)
           /\ ToSet(Partitions) = {"train", "validation", "test"}
<1>1. Len(Partitions) = 3 /\ \A i \in 1 .. 3 : Partitions[i] \in ToSet(Partitions)
  BY DEF Partitions, ToSet
<1>2. ToSet(Partitions) = {"train", "validation", "test"}
  BY DEF Partitions, ToSet
<1>3. \A p \in ToSet(Partitions) : DayIs(days[p])
  BY RowsAssumption DEF DaysOk, DayIs
<1> QED BY <1>1, <1>2, <1>3 DEF DaysOk, Today

(* A pull that fails had rows out of order; one that does not leaves the    *)
(* flow as it should be, and a causal feature row.                          *)
LEMMA PulledFeature ==
    ASSUME DaysOk, FlowOk(Today, flow), PullFeature
    PROVE  /\ building' \in {"building", "failed"}
           /\ building' = "failed" => feature' = NoRow /\ (~OrderedRows(Today.snapshots) \/ ~OrderedRows(Today.events))
           /\ building' = "building" =>
                 /\ FlowOk(Today, flow') /\ flow'.snapshots = flow.snapshots + 1
                 /\ ~Today.snapshots[flow.snapshots + 1].qualifies => feature' = NoRow
                 /\ Today.snapshots[flow.snapshots + 1].qualifies =>
                       /\ feature' = FeatureRow(flow', Today.snapshots[flow.snapshots + 1])
                       /\ Makes(Today, flow', Today.snapshots[flow.snapshots + 1])
<1> DEFINE d == Today
           k == flow.snapshots
           x == d.snapshots[k + 1]
           a == Advanced(flow, x)
           g == Qualified(a, x)
           inOrder == InOrder(flow.lastSnapshot, x)
           bad == a.failed \/ ~inOrder \/ (x.qualifies /\ ~Triggered(a, x))
<1>1. /\ building = "building" /\ k < Len(d.snapshots)
      /\ flow' = IF x.qualifies /\ ~bad THEN g ELSE a
      /\ feature' = IF x.qualifies /\ ~bad THEN FeatureRow(g, x) ELSE NoRow
      /\ building' = IF bad THEN "failed" ELSE building
  BY DEF PullFeature, Advanced, Qualified
<1>2. DayIs(d)
  BY DaysAre
<1>3. /\ k \in Nat /\ k < Len(d.snapshots) /\ OrderedTo(d.snapshots, k)
      /\ flow.lastSnapshot = (IF k = 0 THEN NoRow ELSE d.snapshots[k])
      /\ d.snapshots \in Seq(Snapshot) /\ k + 1 \in DOMAIN d.snapshots
  BY <1>1, <1>2 DEF FlowOk, SnapshotsRead, DayIs
<1>4. x \in Snapshot /\ (x.qualifies => HasTrigger(d, x)) /\ x.qualifies \in BOOLEAN
  <2>1. x \in Snapshot /\ (x.qualifies => HasTrigger(d, x))
    BY <1>2, <1>3 DEF DayIs
  <2> QED BY <2>1, SnapshotIs
<1>5. ASSUME ~inOrder PROVE ~OrderedRows(d.snapshots)
  BY <1>3, <1>5, NextInOrder
<1>6. ASSUME inOrder PROVE AdvancesTo(d, flow, a)
  <2> HIDE DEF a, d
  <2> QED BY <1>2, <1>3, <1>6, AdvancedIs DEF d, a
<1>7. ASSUME inOrder, ~a.failed, x.qualifies, ~Triggered(a, x) PROVE ~OrderedRows(d.events)
  <2>1. /\ Stops(d.events, a.events, x.index)
        /\ a.lastEvent = (IF a.events = 0 THEN NoRow ELSE d.events[a.events])
    <3> HIDE DEF a
    <3> QED BY <1>6, <1>7 DEF AdvancesTo, Consistent, Reading
  <2> HIDE DEF a, x, d
  <2> QED BY <1>2, <1>4, <1>7, <2>1, TriggerFound
<1>8. ASSUME bad PROVE ~OrderedRows(d.snapshots) \/ ~OrderedRows(d.events)
  <2>1. inOrder /\ a.failed => ~OrderedRows(d.events)
    <3> HIDE DEF a, d
    <3> QED BY <1>6 DEF AdvancesTo
  <2> HIDE DEF a, d, x, inOrder
  <2> QED BY <1>5, <1>7, <1>8, <2>1
<1>9. ASSUME ~bad, ~x.qualifies PROVE FlowOk(d, a) /\ a.snapshots = k + 1
  <2>1. AdvancesTo(d, flow, a) /\ ~a.failed
    BY <1>6, <1>9
  <2> HIDE DEF a
  <2>2. FlowOk(d, a)
    <3> HIDE DEF d
    <3> QED BY <1>2, <1>3, <1>9, <2>1, AdvancedFlow DEF d
  <2> QED BY <2>1, <2>2 DEF AdvancesTo
<1>10. ASSUME ~bad, x.qualifies PROVE FlowOk(d, g) /\ g.snapshots = k + 1 /\ Makes(d, g, x)
  <2>1. AdvancesTo(d, flow, a) /\ ~a.failed /\ Triggered(a, x)
    BY <1>6, <1>10
  <2> HIDE DEF a
  <2>2. /\ FlowOk(d, g) /\ SameReading(a, g) /\ Stops(d.events, a.events, x.index)
        /\ RowCount(d, k + 1) = RowCount(d, k) + 1 /\ Qualifying(d)[RowCount(d, k) + 1] = x
        /\ RowCount(d, k) \in Nat
    <3> HIDE DEF d
    <3> QED BY <1>2, <1>3, <1>10, <2>1, QualifiedFlow DEF d
  <2> HIDE DEF g, x, d, k
  <2>3. g.snapshots = k + 1
    BY <2>1, <2>2 DEF AdvancesTo, SameReading, k
  <2>4. g.ordinal = RowCount(d, k)
    BY <2>2, <2>3 DEF FlowOk
  <2>5. Stops(d.events, g.events, x.index) /\ g.lastEvent # NoRow /\ g.lastEvent.time = x.time
    BY <2>1, <2>2 DEF SameReading, Triggered
  <2> QED BY <1>2, <1>4, <2>2, <2>3, <2>4, <2>5 DEF Makes
<1> HIDE DEF g, a, x, d, k, inOrder
<1>11. CASE bad
  <2>1. building' = "failed" /\ feature' = NoRow
    BY <1>1, <1>11
  <2> HIDE DEF bad
  <2> QED BY <1>8, <1>11, <2>1 DEF d
<1>12. CASE ~bad /\ ~x.qualifies
  <2>1. building' = "building" /\ flow' = a /\ feature' = NoRow
    BY <1>1, <1>12
  <2> HIDE DEF bad
  <2> QED BY <1>9, <1>12, <2>1 DEF d, x, k
<1>13. CASE ~bad /\ x.qualifies
  <2>1. building' = "building" /\ flow' = g /\ feature' = FeatureRow(g, x)
    BY <1>1, <1>13
  <2> HIDE DEF bad
  <2> QED BY <1>10, <1>13, <2>1 DEF d, x, k
<1> QED BY <1>11, <1>12, <1>13

-----------------------------------------------------------------------------
(* Every reachable state. *)

FlowInv ==
    /\ DaysOk /\ building \in {"building", "complete", "failed"}
    /\ building = "building" => FlowOk(Today, flow)

LEMMA FlowInvInit == RowsInit => FlowInv
<1> SUFFICES ASSUME RowsInit PROVE FlowInv
  OBVIOUS
<1>1. days \in Inputs /\ day = 1 /\ flow = FreshFlow /\ building = "building" /\ Len(Partitions) = 3
  BY DEF RowsInit, RowsStart, Partitions
<1>2. DaysOk
  BY <1>1 DEF DaysOk
<1>3. FlowOk(Today, flow)
  BY <1>1, <1>2, DaysAre, FreshFlowIs
<1> QED BY <1>1, <1>2, <1>3 DEF FlowInv

\* Steps that touch neither the flow nor the day keep it.
LEMMA FlowInvNext == FlowInv /\ [RowsNext]_rowsVars => FlowInv'
<1> SUFFICES ASSUME FlowInv, [RowsNext]_rowsVars PROVE FlowInv'
  OBVIOUS
<1>1. CASE PullFeature
  <2>1. building = "building" /\ days' = days /\ day' = day
    BY <1>1 DEF PullFeature
  <2>2. Today' = Today /\ DaysOk'
    BY <2>1 DEF Today, DaysOk, FlowInv
  <2>3. /\ building' \in {"building", "failed"}
        /\ building' = "building" => FlowOk(Today, flow')
    BY <1>1, <2>1, PulledFeature DEF FlowInv
  <2> QED BY <2>2, <2>3 DEF FlowInv
<1>2. CASE PullLabel
  <2>1. /\ building = "building" /\ building' \in {"building", "failed"}
        /\ days' = days /\ day' = day /\ flow' = flow
    BY <1>2 DEF PullLabel
  <2> QED BY <2>1 DEF FlowInv, DaysOk, Today
<1>3. CASE JoinRow
  <2>1. /\ building = "building" /\ building' \in {"building", "failed"}
        /\ days' = days /\ day' = day /\ flow' = flow
    BY <1>3 DEF JoinRow
  <2> QED BY <2>1 DEF FlowInv, DaysOk, Today
<1>4. CASE EndDay
  <2>1. CASE day < Len(Partitions) /\ FeaturesEnded /\ LabelsEnded
    <3>1. days' = days /\ day' = day + 1 /\ flow' = FreshFlow /\ building' = building
      BY <1>4, <2>1 DEF EndDay
    <3>2. DaysOk'
      BY <2>1, <3>1, DaysAre DEF FlowInv, DaysOk
    <3>3. DayIs(Today')
      <4>1. day' \in 1 .. 3 /\ Partitions[day'] \in ToSet(Partitions) /\ days' = days
        BY <3>1, <3>2, DaysAre DEF FlowInv, DaysOk
      <4> QED BY <4>1, DaysAre DEF FlowInv, Today
    <3>4. FlowOk(Today', flow')
      BY <3>1, <3>3, FreshFlowIs
    <3> QED BY <3>1, <3>2, <3>4 DEF FlowInv
  <2>2. CASE ~(day < Len(Partitions) /\ FeaturesEnded /\ LabelsEnded)
    <3>1. building' \in {"complete", "failed"} /\ days' = days /\ day' = day
      BY <1>4, <2>2 DEF EndDay
    <3> QED BY <3>1 DEF FlowInv, DaysOk
  <2> QED BY <2>1, <2>2
<1>5. CASE UNCHANGED rowsVars
  BY <1>5 DEF rowsVars, FlowInv, DaysOk, Today
<1> QED BY <1>1, <1>2, <1>3, <1>4, <1>5 DEF RowsNext

\* The property, written for any day and row.
LEMMA CausalIs == FeaturesAreCausal <=> (feature # NoRow => CausalIn(Today, feature))
BY DEF FeaturesAreCausal, CausalIn, CausalAt

\* Only a pulled feature has to be looked at.
LEMMA CausalNext == FlowInv /\ FeaturesAreCausal /\ [RowsNext]_rowsVars => FeaturesAreCausal'
<1> SUFFICES ASSUME FlowInv, FeaturesAreCausal, [RowsNext]_rowsVars PROVE FeaturesAreCausal'
  OBVIOUS
<1> DEFINE Causal == feature # NoRow => CausalIn(Today, feature)
<1>1. Causal
  BY CausalIs
<1>2. Causal' => FeaturesAreCausal'
  <2>1. FeaturesAreCausal' <=> Causal'
    BY CausalIs, PTL
  <2> QED BY <2>1
<1>3. CASE PullFeature
  <2>1. building = "building" /\ days' = days /\ day' = day
    BY <1>3 DEF PullFeature
  <2>2. Today' = Today
    BY <2>1 DEF Today
  <2> DEFINE x == Today.snapshots[flow.snapshots + 1]
  <2>3. feature' # NoRow => feature' = FeatureRow(flow', x) /\ Makes(Today, flow', x)
    <3>1. FlowOk(Today, flow) /\ DaysOk
      BY <2>1 DEF FlowInv
    <3> QED BY <1>3, <3>1, PulledFeature
  <2> HIDE DEF x
  <2>4. feature' # NoRow => CausalIn(Today', feature')
    BY <2>2, <2>3, CausalRow
  <2> QED BY <1>2, <2>4
<1>4. CASE PullLabel
  <2>1. Today' = Today /\ feature' = feature
    BY <1>4 DEF PullLabel, Today
  <2> HIDE DEF Causal
  <2>2. Causal'
    BY <1>1, <2>1 DEF Causal
  <2> QED BY <1>2, <2>2
<1>5. CASE JoinRow
  BY <1>2, <1>5 DEF JoinRow
<1>6. CASE EndDay
  <2>1. days' = days /\ feature' = feature /\ (day' = day \/ feature = NoRow)
    BY <1>6 DEF EndDay, FeaturesEnded
  <2> HIDE DEF Causal
  <2>2. Causal'
    BY <1>1, <2>1 DEF Causal, Today
  <2> QED BY <1>2, <2>2
<1>7. CASE UNCHANGED rowsVars
  <2>1. Today' = Today /\ feature' = feature
    BY <1>7 DEF rowsVars, Today
  <2> HIDE DEF Causal
  <2>2. Causal'
    BY <1>1, <2>1 DEF Causal
  <2> QED BY <1>2, <2>2
<1> QED BY <1>3, <1>4, <1>5, <1>6, <1>7 DEF RowsNext

(* Every feature row says what its own past says (datasets/features.py): its*)
(* transitions are those of the last rows of its day, its sums hold every   *)
(* execution of their window whose match nothing broke and none that was    *)
(* broken since, its rates count the executions of their clock window, and  *)
(* nothing in it comes from a message after its own, for all days of events *)
(* and snapshots, windows and shares.                                       *)
THEOREM FeaturesStayCausal == RowsSpec => []FeaturesAreCausal
<1>1. RowsInit => FlowInv /\ FeaturesAreCausal
  BY FlowInvInit DEF RowsInit, RowsStart, FeaturesAreCausal
<1>2. FlowInv /\ FeaturesAreCausal /\ [RowsNext]_rowsVars => FlowInv' /\ FeaturesAreCausal'
  BY FlowInvNext, CausalNext
<1> QED BY <1>1, <1>2, PTL DEF RowsSpec

-----------------------------------------------------------------------------
(* The label rows of a day. *)

Waiting == [index : Nat, ordinal : Nat, mid : Nat]

Entry(d, j) == [index |-> Qualifying(d)[j].index, ordinal |-> j - 1, mid |-> Qualifying(d)[j].mid]

(* The rows of a day from row b + 1 on wait.                                *)
Queued(d, buffer, b) ==
    /\ buffer \in Seq(Waiting) /\ \A j \in 1 .. Len(buffer) : buffer[j] = Entry(d, b + j)

LabelOf(d, k) == [index |-> Qualifying(d)[k + 1].index, ordinal |-> k, ahead |-> AheadOf(d, k)]

\* Fields of the qualifying rows.
LEMMA RowsTyped ==
    ASSUME NEW d, DayIs(d)
    PROVE  /\ Qualifying(d) \in Seq(Snapshot) /\ Len(Qualifying(d)) \in Nat
           /\ \A j \in 1 .. Len(Qualifying(d)) : Qualifying(d)[j] \in Snapshot
           /\ \A m \in 0 .. Len(d.snapshots) : RowCount(d, m) \in Nat /\ RowCount(d, m) <= Len(Qualifying(d))
           /\ RowCount(d, Len(d.snapshots)) = Len(Qualifying(d))
<1> DEFINE q == Qualifying(d)
           N == Len(d.snapshots)
<1>1. N \in Nat /\ d.snapshots \in Seq(Snapshot)
  BY DEF DayIs
<1>2. \A m \in 0 .. N : RowsTo(d)[m] \in Seq(Snapshot)
  BY <1>1, RowsToIs
<1>3. q = RowsTo(d)[N] /\ N \in 0 .. N
  BY <1>1 DEF Qualifying
<1> HIDE DEF N, q
<1>4. q \in Seq(Snapshot)
  BY <1>2, <1>3
<1>5. ASSUME NEW m \in 0 .. N PROVE RowCount(d, m) \in Nat /\ RowCount(d, m) <= Len(q)
  <2>1. RowsTo(d)[m] \in Seq(Snapshot) /\ m \in Nat /\ m <= N
    BY <1>1, <1>2
  <2>2. Begins(RowsTo(d)[m], RowsTo(d)[N])
    BY <1>1, <2>1, RowsExtend DEF N
  <2> QED BY <1>3, <2>1, <2>2 DEF Begins, RowCount
<1>6. RowCount(d, N) = Len(q)
  BY <1>3 DEF RowCount
<1> QED BY <1>4, <1>5, <1>6 DEF q, N

\* What waits in the label queue.
LEMMA EntryIs ==
    ASSUME NEW d, DayIs(d), NEW j \in 1 .. Len(Qualifying(d))
    PROVE  Entry(d, j) \in Waiting
<1> DEFINE x == Qualifying(d)[j]
<1>1. x \in Snapshot /\ j - 1 \in Nat
  BY RowsTyped
<1>2. x.index \in Nat /\ x.mid \in Nat
  BY <1>1, SnapshotIs DEF Row
<1> HIDE DEF x
<1>3. [index |-> x.index, ordinal |-> j - 1, mid |-> x.mid] \in Waiting
  BY <1>1, <1>2 DEF Waiting
<1> QED BY <1>3 DEF Entry, x

\* The longest horizon is one of the horizons, which are finite.
LEMMA LongestHorizon ==
    /\ Max(Horizons) \in Nat \ {0} /\ \A h \in Horizons : h \in Nat \ {0} /\ h <= Max(Horizons)
<1>1. Horizons \subseteq Int /\ IsFiniteSet(Horizons) /\ Horizons # {}
  BY RowsAssumption
<1>2. \E m \in Horizons : \A x \in Horizons : x <= m
  BY <1>1, Largest
<1>3. Max(Horizons) \in Horizons /\ \A x \in Horizons : Max(Horizons) >= x
  BY <1>1, <1>2 DEF Max
<1> QED BY <1>3, RowsAssumption

(* The row at the head leaves with the labels of its own future: those the  *)
(* buffer holds, when it is longer than every horizon or the day has ended. *)
LEMMA LabelEmitted ==
    ASSUME NEW d, DayIs(d), NEW buffer, NEW b \in Nat, Queued(d, buffer, b), Len(buffer) > 0,
           b + Len(buffer) <= Len(Qualifying(d)),
           Len(buffer) > Max(Horizons) \/ b + Len(buffer) = Len(Qualifying(d))
    PROVE  /\ LabelRow(buffer) = LabelOf(d, b)
           /\ Queued(d, Tail(buffer), b + 1) /\ Len(Tail(buffer)) = Len(buffer) - 1
<1> DEFINE q == Qualifying(d)
           N == Len(buffer)
           L == Len(q)
<1>1. N \in Nat /\ L \in Nat /\ buffer \in Seq(Waiting) /\ 1 \in 1 .. N
  BY RowsTyped DEF Queued
<1>2. \A j \in 1 .. N : /\ buffer[j].index = q[b + j].index /\ buffer[j].ordinal = (b + j) - 1
                        /\ buffer[j].mid = q[b + j].mid
  <2>1. \A p : Entry(d, p).index = q[p].index /\ Entry(d, p).ordinal = p - 1 /\ Entry(d, p).mid = q[p].mid
    BY DEF Entry
  <2>2. \A j \in 1 .. N : buffer[j] = Entry(d, b + j)
    BY DEF Queued
  <2> HIDE DEF q, N
  <2> QED BY <2>1, <2>2
<1>3. buffer[1].index = q[b + 1].index /\ buffer[1].ordinal = b /\ buffer[1].mid = q[b + 1].mid
  BY <1>1, <1>2
<1>4. ASSUME NEW h \in Horizons
      PROVE  (IF h < N THEN Sign(buffer[1].mid, buffer[h + 1].mid) ELSE NoRow)
               = (IF b + 1 + h <= L THEN Sign(q[b + 1].mid, q[b + 1 + h].mid) ELSE NoRow)
  <2>1. h \in Nat \ {0} /\ h <= Max(Horizons) /\ Max(Horizons) \in Nat
    BY LongestHorizon
  <2>2. h < N <=> b + 1 + h <= L
    <3> HIDE DEF N, L
    <3>1. b + N <= L /\ (N > Max(Horizons) \/ b + N = L)
      BY DEF N, L, q
    <3> QED BY <1>1, <2>1, <3>1
  <2>3. ASSUME h < N PROVE buffer[h + 1].mid = q[b + 1 + h].mid
    <3> DEFINE p == h + 1
    <3>1. p \in 1 .. N /\ b + p = b + 1 + h
      BY <1>1, <2>1, <2>3
    <3> HIDE DEF p
    <3>2. buffer[p].mid = q[b + p].mid
      BY <1>2, <3>1
    <3> QED BY <3>1, <3>2 DEF p
  <2> QED BY <1>3, <2>2, <2>3
<1> DEFINE ahead == [h \in Horizons |-> IF h < N THEN Sign(buffer[1].mid, buffer[h + 1].mid) ELSE NoRow]
<1>5. ahead = AheadOf(d, b)
  BY <1>4 DEF AheadOf
<1>6. LabelRow(buffer) = [index |-> buffer[1].index, ordinal |-> buffer[1].ordinal, ahead |-> ahead]
  BY DEF LabelRow
<1> HIDE DEF ahead
<1>7. LabelRow(buffer) = LabelOf(d, b)
  BY <1>3, <1>5, <1>6 DEF LabelOf
<1>8. Queued(d, Tail(buffer), b + 1) /\ Len(Tail(buffer)) = N - 1
  <2>1. /\ Tail(buffer) \in Seq(Waiting) /\ Len(Tail(buffer)) = N - 1
        /\ \A j \in 1 .. N - 1 : Tail(buffer)[j] = buffer[j + 1]
    BY <1>1
  <2>2. ASSUME NEW j \in 1 .. N - 1 PROVE Tail(buffer)[j] = Entry(d, (b + 1) + j)
    <3> DEFINE p == j + 1
    <3>1. p \in 1 .. N /\ b + p = (b + 1) + j /\ Tail(buffer)[j] = buffer[p]
      BY <1>1, <2>1
    <3> HIDE DEF p
    <3>2. buffer[p] = Entry(d, b + p)
      BY <3>1 DEF Queued
    <3> QED BY <3>1, <3>2
  <2> DEFINE t == Tail(buffer)
  <2> HIDE DEF t
  <2>3. Queued(d, t, b + 1)
    BY <2>1, <2>2 DEF Queued, t
  <2> QED BY <2>1, <2>3 DEF t
<1> QED BY <1>7, <1>8

(* A row joins the end of the queue.                                        *)
LEMMA RowQueued ==
    ASSUME NEW d, DayIs(d), NEW buffer, NEW b \in Nat, Queued(d, buffer, b),
           b + Len(buffer) < Len(Qualifying(d))
    PROVE  /\ Queued(d, Append(buffer, Entry(d, b + Len(buffer) + 1)), b)
           /\ Len(Append(buffer, Entry(d, b + Len(buffer) + 1))) = Len(buffer) + 1
<1> DEFINE N == Len(buffer)
           y == Entry(d, b + N + 1)
           t == Append(buffer, y)
<1>1. N \in Nat /\ buffer \in Seq(Waiting) /\ b + N + 1 \in 1 .. Len(Qualifying(d))
  BY RowsTyped DEF Queued
<1>2. y \in Waiting
  BY <1>1, EntryIs
<1> HIDE DEF y
<1>3. t \in Seq(Waiting) /\ Len(t) = N + 1 /\ t[N + 1] = y /\ \A j \in 1 .. N : t[j] = buffer[j]
  BY <1>1, <1>2
<1> HIDE DEF t, N
<1>4. ASSUME NEW j \in 1 .. N + 1 PROVE t[j] = Entry(d, b + j)
  <2>1. CASE j <= N
    <3>1. j \in 1 .. N
      BY <1>1, <2>1
    <3> QED BY <1>3, <3>1 DEF Queued, N
  <2>2. CASE j = N + 1
    <3>1. b + N + 1 = b + (N + 1)
      BY <1>1
    <3> QED BY <1>3, <2>2, <3>1 DEF y
  <2> QED BY <1>1, <2>1, <2>2
<1>5. Queued(d, t, b)
  BY <1>3, <1>4 DEF Queued
<1> QED BY <1>3, <1>5 DEF t, y, N
(* The label pass between two snapshots, after b of the rows of the day.    *)
LabelsOk(d, l, b) ==
    /\ DOMAIN l = {"snapshots", "buffer", "ordinal", "last"}
    /\ l.snapshots \in 0 .. Len(d.snapshots) /\ OrderedTo(d.snapshots, l.snapshots)
    /\ l.last = IF l.snapshots = 0 THEN NoRow ELSE d.snapshots[l.snapshots]
    /\ l.ordinal = RowCount(d, l.snapshots) - 1
    /\ Queued(d, l.buffer, b) /\ b + Len(l.buffer) = RowCount(d, l.snapshots)
    /\ Len(l.buffer) <= Max(Horizons)

\* An empty queue waits for the first row.
LEMMA FreshLabelsAre ==
    ASSUME NEW d, DayIs(d)
    PROVE  LabelsOk(d, FreshLabels, 0)
<1> DEFINE l == FreshLabels
<1>1. /\ DOMAIN l = {"snapshots", "buffer", "ordinal", "last"}
      /\ l.snapshots = 0 /\ l.buffer = <<>> /\ l.ordinal = -1 /\ l.last = NoRow
  BY DEF FreshLabels
<1> HIDE DEF l
<1>2. RowCount(d, 0) = 0
  BY NoRowsTo DEF RowCount, DayIs
<1>3. Len(d.snapshots) \in Nat
  BY DEF DayIs
<1>4. Queued(d, <<>>, 0) /\ 0 <= Max(Horizons)
  BY LongestHorizon DEF Queued
<1> QED BY <1>1, <1>2, <1>3, <1>4 DEF LabelsOk, OrderedTo, l

\* The labels of a row are a label row.
LEMMA LabelIs ==
    ASSUME NEW d, DayIs(d), NEW k \in Nat, k < Len(Qualifying(d))
    PROVE  LabelOf(d, k) \in LabelRows /\ LabelOf(d, k) # NoRow
<1> DEFINE x == Qualifying(d)[k + 1]
           ahead == AheadOf(d, k)
<1>1. x.index \in Nat
  <2>1. k + 1 \in 1 .. Len(Qualifying(d))
    BY RowsTyped
  <2>2. x \in Snapshot
    BY <2>1, RowsTyped
  <2> HIDE DEF x
  <2> QED BY <2>2, SnapshotIs DEF Row
<1>2. ahead \in [Horizons -> Classes \cup {NoRow}]
  <2>1. \A m, n : Sign(m, n) \in Classes
    BY DEF Sign, Classes
  <2> HIDE DEF x
  <2> QED BY <2>1 DEF AheadOf
<1> HIDE DEF x, ahead
<1>3. [index |-> x.index, ordinal |-> k, ahead |-> ahead] \in LabelRows
  BY <1>1, <1>2 DEF LabelRows
<1>4. LabelOf(d, k) \in LabelRows
  BY <1>3 DEF LabelOf, x, ahead
<1> QED BY <1>4, RowsAssumption

(* What a pull of a label row makes of the pass.                            *)
LabelPulled(d, b) ==
    \/ label' = NoRow /\ LabelsOk(d, labels', b)
    \/ label' = LabelOf(d, b) /\ b < Len(Qualifying(d)) /\ LabelsOk(d, labels', b + 1)

\* A pulled label is that of the next row of the day.
LEMMA PulledLabel ==
    ASSUME DaysOk, NEW b \in Nat, LabelsOk(Today, labels, b), PullLabel
    PROVE  /\ building' \in {"building", "failed"}
           /\ building' = "failed" => ~OrderedRows(Today.snapshots)
           /\ building' = "building" => LabelPulled(Today, b)
<1> DEFINE d == Today
           k == labels.snapshots
           n == RowCount(d, k)
           M == Max(Horizons)
<1>1. DayIs(d) /\ d.snapshots \in Seq(Snapshot) /\ Len(d.snapshots) \in Nat
  BY DaysAre DEF DayIs
<1>2. /\ DOMAIN labels = {"snapshots", "buffer", "ordinal", "last"}
      /\ k \in 0 .. Len(d.snapshots) /\ OrderedTo(d.snapshots, k)
      /\ labels.last = (IF k = 0 THEN NoRow ELSE d.snapshots[k])
      /\ labels.ordinal = n - 1 /\ Queued(d, labels.buffer, b) /\ b + Len(labels.buffer) = n
      /\ Len(labels.buffer) <= M
  BY DEF LabelsOk
<1>3. n \in Nat /\ n <= Len(Qualifying(d)) /\ RowCount(d, Len(d.snapshots)) = Len(Qualifying(d))
      /\ Len(Qualifying(d)) \in Nat
  BY <1>1, <1>2, RowsTyped
<1>4. M \in Nat \ {0} /\ Len(labels.buffer) \in Nat
  BY <1>2, LongestHorizon DEF Queued
<1>5. CASE LabelsRead
  <2> DEFINE buffer == labels.buffer
             l == [labels EXCEPT !.buffer = Tail(@)]
  <2>1. building = "building" /\ building' = building /\ buffer # <<>> /\ label' = LabelRow(buffer) /\ labels' = l
    BY <1>5 DEF PullLabel
  <2>2. k = Len(d.snapshots) /\ n = Len(Qualifying(d))
    BY <1>3, <1>5 DEF LabelsRead
  <2>3. buffer \in Seq(Waiting)
    BY <1>2 DEF Queued
  <2>4. Len(buffer) > 0 /\ Len(buffer) \in Nat
    BY <2>1, <2>3
  <2>5. /\ LabelRow(buffer) = LabelOf(d, b)
        /\ Queued(d, Tail(buffer), b + 1) /\ Len(Tail(buffer)) = Len(buffer) - 1
    <3> HIDE DEF d, buffer
    <3> QED BY <1>1, <1>2, <2>2, <2>4, LabelEmitted DEF buffer
  <2>6. /\ DOMAIN l = {"snapshots", "buffer", "ordinal", "last"} /\ l.snapshots = k
        /\ l.last = labels.last /\ l.ordinal = labels.ordinal /\ l.buffer = Tail(buffer)
    BY <1>2
  <2> HIDE DEF l, d
  <2>7. LabelsOk(d, l, b + 1)
    <3>1. (b + 1) + Len(l.buffer) = n /\ Len(l.buffer) <= M
      <4> DEFINE p == Len(buffer)
                 r == Len(l.buffer)
      <4>1. r = p - 1
        BY <2>5, <2>6
      <4>2. b + p = n /\ p <= M /\ p \in Nat
        BY <1>2, <1>4
      <4> HIDE DEF n, M, p, r
      <4>3. (b + 1) + r = n /\ r <= M
        BY <1>3, <1>4, <4>1, <4>2
      <4> QED BY <4>3 DEF r
    <3> HIDE DEF k, n, M, buffer
    <3>2. Queued(d, l.buffer, b + 1)
      BY <2>5, <2>6
    <3> QED BY <1>2, <2>6, <3>1, <3>2 DEF LabelsOk, k, n, M
  <2>8. b < Len(Qualifying(d))
    BY <1>2, <1>3, <2>2, <2>4
  <2> QED BY <2>1, <2>5, <2>7, <2>8 DEF LabelPulled, d
<1>6. CASE ~LabelsRead
  <2> DEFINE x == d.snapshots[k + 1]
             inOrder == InOrder(labels.last, x)
             buffer == Buffered(x)
             emits == Len(buffer) > M
             l == [snapshots |-> k + 1, buffer |-> IF emits THEN Tail(buffer) ELSE buffer,
                   ordinal |-> labels.ordinal + (IF x.qualifies THEN 1 ELSE 0), last |-> x]
  <2>1. /\ building = "building" /\ label' = IF emits THEN LabelRow(buffer) ELSE NoRow
        /\ labels' = l /\ building' = IF inOrder THEN building ELSE "failed"
    BY <1>6 DEF PullLabel
  <2>2. k \in Nat /\ k < Len(d.snapshots) /\ k + 1 \in 0 .. Len(d.snapshots)
    BY <1>1, <1>2, <1>6 DEF LabelsRead
  <2>3. (inOrder => OrderedTo(d.snapshots, k + 1)) /\ (~inOrder => ~OrderedRows(d.snapshots))
    BY <1>1, <1>2, <2>2, NextInOrder
  <2>4. /\ x \in Snapshot /\ x.qualifies \in BOOLEAN
        /\ ~x.qualifies => RowCount(d, k + 1) = n
        /\ x.qualifies => RowCount(d, k + 1) = n + 1 /\ Qualifying(d)[n + 1] = x
    <3>1. /\ x \in Snapshot
          /\ ~x.qualifies => RowCount(d, k + 1) = n
          /\ x.qualifies => RowCount(d, k + 1) = n + 1 /\ Qualifying(d)[n + 1] = x
      <4> HIDE DEF d
      <4> QED BY <1>1, <2>2, RowAdded
    <3> HIDE DEF x
    <3> QED BY <3>1, SnapshotIs
  <2> DEFINE n1 == RowCount(d, k + 1)
  <2>5. /\ Queued(d, buffer, b) /\ b + Len(buffer) = n1 /\ n1 <= Len(Qualifying(d)) /\ n1 \in Nat
        /\ Len(buffer) \in Nat /\ Len(buffer) <= M + 1 /\ l.ordinal = n1 - 1
    <3>1. n1 \in Nat /\ n1 <= Len(Qualifying(d))
      BY <1>1, <2>2, RowsTyped
    <3>2. CASE ~x.qualifies
      <4>1. buffer = labels.buffer /\ n1 = n /\ l.ordinal = labels.ordinal + 0
        BY <2>4, <3>2 DEF Buffered
      <4> HIDE DEF buffer, n1, l, n, M, x
      <4> QED BY <1>2, <1>3, <1>4, <3>1, <4>1
    <3>3. CASE x.qualifies
      <4>1. n1 = n + 1 /\ Qualifying(d)[n + 1] = x /\ l.ordinal = labels.ordinal + 1
        BY <2>4, <3>3
      <4> DEFINE q == labels.buffer
                 y == [index |-> x.index, ordinal |-> labels.ordinal + 1, mid |-> x.mid]
      <4>2. buffer = Append(q, y)
        BY <3>3 DEF Buffered
      <4>3. y = Entry(d, b + Len(q) + 1)
        <5>1. labels.ordinal + 1 = (n + 1) - 1 /\ b + Len(q) + 1 = n + 1
          BY <1>2, <1>3, <1>4
        <5> HIDE DEF q, x, n
        <5>2. y = Entry(d, n + 1)
          BY <4>1, <5>1 DEF Entry
        <5> QED BY <5>1, <5>2
      <4> HIDE DEF y
      <4>4. b + Len(q) < Len(Qualifying(d)) /\ Queued(d, q, b)
        BY <1>2, <1>3, <3>1, <4>1
      <4>5. Queued(d, buffer, b) /\ Len(buffer) = Len(q) + 1
        <5> DEFINE e == Entry(d, b + Len(q) + 1)
        <5>1. buffer = Append(q, e)
          BY <4>2, <4>3
        <5> HIDE DEF d, q, x, buffer
        <5>2. Queued(d, Append(q, e), b) /\ Len(Append(q, e)) = Len(q) + 1
          BY <1>1, <4>4, RowQueued
        <5> HIDE DEF e
        <5> QED BY <5>1, <5>2
      <4> HIDE DEF buffer, n1, l, n, M, x
      <4>6. b + Len(buffer) = n1
        BY <1>2, <1>3, <1>4, <4>1, <4>5
      <4>7. Len(buffer) \in Nat /\ Len(buffer) <= M + 1 /\ l.ordinal = n1 - 1
        BY <1>2, <1>3, <1>4, <4>1, <4>5
      <4> QED BY <3>1, <4>5, <4>6, <4>7
    <3> QED BY <3>2, <3>3
  <2>6. /\ DOMAIN l = {"snapshots", "buffer", "ordinal", "last"} /\ l.snapshots = k + 1
        /\ l.last = x /\ l.buffer = IF emits THEN Tail(buffer) ELSE buffer
    <3> HIDE DEF x, buffer
    <3> QED OBVIOUS
  <2>7. CASE ~inOrder
    <3>1. building' = "failed"
      BY <2>1, <2>7
    <3> QED BY <2>3, <2>7, <3>1
  <2>8. CASE inOrder
    <3>1. building' = "building" /\ OrderedTo(d.snapshots, k + 1)
      BY <2>1, <2>3, <2>8
    <3>2. l.last = IF k + 1 = 0 THEN NoRow ELSE d.snapshots[k + 1]
      <4>1. k + 1 # 0
        BY <2>2
      <4> QED BY <2>6, <4>1
    <3> HIDE DEF l, x, inOrder, buffer
    <3>3. CASE emits
      <4>1. Len(buffer) > 0 /\ Len(buffer) > M
        BY <1>4, <2>5, <3>3
      <4>2. /\ LabelRow(buffer) = LabelOf(d, b)
            /\ Queued(d, Tail(buffer), b + 1) /\ Len(Tail(buffer)) = Len(buffer) - 1
        <5> HIDE DEF d
        <5> QED BY <1>1, <2>5, <4>1, LabelEmitted DEF M
      <4>3. l.buffer = Tail(buffer) /\ label' = LabelOf(d, b)
        BY <2>1, <2>6, <3>3, <4>2
      <4>4. (b + 1) + Len(l.buffer) = n1 /\ Len(l.buffer) <= M /\ b < Len(Qualifying(d))
        <5> DEFINE p == Len(buffer)
                   r == Len(l.buffer)
        <5>1. r = p - 1
          BY <4>2, <4>3
        <5>2. b + p = n1 /\ n1 <= Len(Qualifying(d)) /\ n1 \in Nat /\ p \in Nat /\ p <= M + 1 /\ p > 0
          BY <2>5, <4>1
        <5> HIDE DEF n1, M, d, p, r
        <5>3. (b + 1) + r = n1 /\ r <= M /\ b < Len(Qualifying(d))
          BY <1>3, <1>4, <5>1, <5>2
        <5> QED BY <5>3 DEF r
      <4> DEFINE k1 == k + 1
      <4>5. /\ DOMAIN l = {"snapshots", "buffer", "ordinal", "last"} /\ l.snapshots = k1
            /\ l.snapshots \in 0 .. Len(d.snapshots) /\ OrderedTo(d.snapshots, l.snapshots)
            /\ l.last = (IF l.snapshots = 0 THEN NoRow ELSE d.snapshots[l.snapshots])
            /\ l.ordinal = RowCount(d, l.snapshots) - 1
        BY <2>2, <2>5, <2>6, <3>1, <3>2
      <4>6. RowCount(d, l.snapshots) = n1
        BY <2>6
      <4> HIDE DEF d, n1, k1, M
      <4>7. LabelsOk(d, l, b + 1)
        BY <4>2, <4>3, <4>4, <4>5, <4>6 DEF LabelsOk, M
      <4> QED BY <2>1, <3>1, <4>3, <4>4, <4>7 DEF LabelPulled, d
    <3>4. CASE ~emits
      <4>1. l.buffer = buffer /\ label' = NoRow
        BY <2>1, <2>6, <3>4
      <4>2. Len(l.buffer) <= M
        BY <1>4, <2>5, <3>4, <4>1
      <4> DEFINE k1 == k + 1
      <4>5. /\ DOMAIN l = {"snapshots", "buffer", "ordinal", "last"} /\ l.snapshots = k1
            /\ l.snapshots \in 0 .. Len(d.snapshots) /\ OrderedTo(d.snapshots, l.snapshots)
            /\ l.last = (IF l.snapshots = 0 THEN NoRow ELSE d.snapshots[l.snapshots])
            /\ l.ordinal = RowCount(d, l.snapshots) - 1
        BY <2>2, <2>5, <2>6, <3>1, <3>2
      <4>6. RowCount(d, l.snapshots) = n1
        BY <2>6
      <4> HIDE DEF d, n1, k1, M
      <4>7. LabelsOk(d, l, b)
        BY <2>5, <4>1, <4>2, <4>5, <4>6 DEF LabelsOk, M
      <4> QED BY <2>1, <3>1, <4>1, <4>7 DEF LabelPulled, d
    <3> QED BY <3>3, <3>4
  <2> QED BY <2>7, <2>8
<1> QED BY <1>5, <1>6

-----------------------------------------------------------------------------
(* The counts of a day and the rows it keeps, after k rows. *)

Retains(d, j) ==
    /\ j >= Max(EventWindows) /\ j % RowStride = 0
    /\ Qualifying(d)[j + 1].time >= SessionStart + Max(ClockWindows)
    /\ AheadOf(d, j)[Primary] # NoRow

KeptOf(d, j) == [index |-> Qualifying(d)[j + 1].index, ahead |-> AheadOf(d, j)]

RetainedTo(d, k) == {KeptOf(d, j) : j \in {i \in 0 .. k - 1 : Retains(d, i)}}

KeptRows == [index : Nat, ahead : [Horizons -> Classes \cup {NoRow}]]

KeptOk(d, r, k) ==
    /\ r \in Seq(KeptRows) /\ ToSet(r) = RetainedTo(d, k)
    /\ \A i, j \in 1 .. Len(r) : i < j => r[i].index < r[j].index

(* Of the first k of L rows, those without a row h ahead.                   *)
Missing(h, k, L) == IF k + h <= L THEN 0 ELSE IF h <= L THEN k + h - L ELSE k

CountsOk(d, c, k) ==
    /\ c.qualifying = k /\ k \in Nat /\ k <= Len(Qualifying(d))
    /\ c.rows \in [Filters -> Nat] /\ Sum(c.rows) = k
    /\ c.classes \in [Classes -> Nat] /\ Sum(c.classes) = c.rows["retained"]
    /\ c.available \in [Horizons -> Nat] /\ c.unavailable \in [Horizons -> Nat]
    /\ \A h \in Horizons : /\ c.available[h] + c.unavailable[h] = k
                           /\ c.unavailable[h] = Missing(h, k, Len(Qualifying(d)))

FeatureOf(d, row, k) ==
    /\ k < Len(Qualifying(d)) /\ row.index = Qualifying(d)[k + 1].index /\ row.ordinal = k
    /\ row.complete = /\ k >= Max(EventWindows)
                      /\ Qualifying(d)[k + 1].time >= SessionStart + Max(ClockWindows)

One(b) == IF b THEN 1 ELSE 0

(* While a day is built.                                                    *)
JoinOk(d, k) ==
    /\ RowCount(d, flow.snapshots) = k + One(feature # NoRow)
    /\ feature # NoRow => FeatureOf(d, feature, k)
    /\ label # NoRow => label = LabelOf(d, k) /\ k < Len(Qualifying(d))
    /\ LabelsOk(d, labels, k + One(label # NoRow))

DayDone(d, k) == k = Len(Qualifying(d)) /\ OrderedTo(d.snapshots, Len(d.snapshots))

Joined(i) == counts[Partitions[i]].qualifying

OtherDays ==
    \A i \in 1 .. 3 : /\ i < day => DayDone(days[Partitions[i]], Joined(i))
                      /\ i > day => Joined(i) = 0

BuildInv ==
    /\ DOMAIN counts = ToSet(Partitions) /\ DOMAIN kept = ToSet(Partitions)
    /\ \A p \in ToSet(Partitions) : /\ CountsOk(days[p], counts[p], counts[p].qualifying)
                                    /\ KeptOk(days[p], kept[p], counts[p].qualifying)
    /\ building = "building" =>
          JoinOk(Today, Joined(day)) /\ OtherDays
    /\ building = "complete" => \A p \in ToSet(Partitions) : DayDone(days[p], counts[p].qualifying)
    /\ building = "failed" =>
          \/ ~Usable /\ Checked /\ day = Len(Partitions)
          \/ ~OrderedRows(Today.snapshots) \/ ~OrderedRows(Today.events)

\* Filters and classes can be counted.
LEMMA NamesFinite == IsFiniteSet(Filters) /\ IsFiniteSet(Classes)
<1>1. /\ Filters = ((({} \cup {"incomplete"}) \cup {"unlabelled"}) \cup {"strided"}) \cup {"retained"}
      /\ Classes = (({} \cup {"up"}) \cup {"flat"}) \cup {"down"}
  BY DEF Filters, Classes
<1>2. \A S, x : IsFiniteSet(S) => IsFiniteSet(S \cup {x})
  BY FS_AddElement
<1>3. IsFiniteSet({})
  BY FS_EmptySet
<1> QED BY <1>1, <1>2, <1>3

\* Nothing is counted of no rows.
LEMMA NothingCounted ==
    ASSUME NEW d, DayIs(d)
    PROVE  CountsOk(d, NoCounts, 0) /\ KeptOk(d, <<>>, 0)
<1> DEFINE c == NoCounts
           L == Len(Qualifying(d))
<1>1. /\ c.qualifying = 0 /\ c.rows = [k \in Filters |-> 0] /\ c.classes = [k \in Classes |-> 0]
      /\ c.available = [h \in Horizons |-> 0] /\ c.unavailable = [h \in Horizons |-> 0]
  BY DEF NoCounts
<1>2. L \in Nat
  BY RowsTyped
<1>3. IsFiniteSet(Filters) /\ IsFiniteSet(Classes)
  BY NamesFinite
<1> HIDE DEF c, L
<1>4. Sum(c.rows) = 0 /\ Sum(c.classes) = 0
  <2>1. SumFunctionOnSet(c.rows, Filters) = 0 /\ SumFunctionOnSet(c.classes, Classes) = 0
    BY <1>1, <1>3, SumZero
  <2>2. DOMAIN c.rows = Filters /\ DOMAIN c.classes = Classes
    BY <1>1
  <2> QED BY <2>1, <2>2 DEF Sum
<1>5. c.rows["retained"] = 0
  BY <1>1 DEF Filters
<1>6. \A h \in Horizons : Missing(h, 0, L) = 0
  <2>1. \A h \in Horizons : h \in Nat
    BY LongestHorizon
  <2> QED BY <1>2, <2>1 DEF Missing
<1>7. \A h \in Horizons : c.available[h] + c.unavailable[h] = 0 /\ c.unavailable[h] = 0
  BY <1>1
<1>8. CountsOk(d, c, 0)
  BY <1>1, <1>2, <1>4, <1>5, <1>6, <1>7 DEF CountsOk, L
<1>9. KeptOk(d, <<>>, 0)
  <2>1. RetainedTo(d, 0) = {} /\ ToSet(<<>>) = {}
    BY DEF RetainedTo, ToSet
  <2> QED BY <2>1 DEF KeptOk
<1> QED BY <1>8, <1>9 DEF c

(* A row is retained when its day retains it.                               *)
LEMMA FilteredIs ==
    ASSUME NEW d, DayIs(d), NEW k \in Nat, NEW row, FeatureOf(d, row, k), NEW l, l = LabelOf(d, k)
    PROVE  /\ Filtered(row, l) \in Filters /\ (Filtered(row, l) = "retained" <=> Retains(d, k))
           /\ l.index = row.index /\ l.ordinal = row.ordinal /\ l.ahead = AheadOf(d, k)
           /\ KeptOf(d, k) = [index |-> row.index, ahead |-> l.ahead]
           /\ AheadOf(d, k) \in [Horizons -> Classes \cup {NoRow}]
<1> DEFINE ahead == AheadOf(d, k)
           x == Qualifying(d)[k + 1]
<1>1. l.index = x.index /\ l.ordinal = k /\ l.ahead = ahead
  BY DEF LabelOf
<1>2. row.index = x.index /\ row.ordinal = k /\ k < Len(Qualifying(d))
      /\ row.complete = (k >= Max(EventWindows) /\ x.time >= SessionStart + Max(ClockWindows))
  BY DEF FeatureOf
<1>3. ahead \in [Horizons -> Classes \cup {NoRow}]
  <2>1. LabelOf(d, k) \in LabelRows
    BY <1>2, LabelIs
  <2> HIDE DEF ahead
  <2>2. l.ahead \in [Horizons -> Classes \cup {NoRow}]
    BY <2>1 DEF LabelRows
  <2> QED BY <1>1, <2>2
<1>4. KeptOf(d, k) = [index |-> x.index, ahead |-> ahead]
  BY DEF KeptOf
<1>5. Retains(d, k) <=> /\ k >= Max(EventWindows) /\ k % RowStride = 0
                        /\ x.time >= SessionStart + Max(ClockWindows) /\ ahead[Primary] # NoRow
  BY DEF Retains
<1> HIDE DEF x, ahead
<1>6. Filtered(row, l) \in Filters /\ (Filtered(row, l) = "retained" <=>
          row.complete /\ l.ahead[Primary] # NoRow /\ row.ordinal % RowStride = 0)
  BY DEF Filtered, Filters
<1>7. Filtered(row, l) = "retained" <=> Retains(d, k)
  BY <1>1, <1>2, <1>5, <1>6
<1> QED BY <1>1, <1>2, <1>3, <1>4, <1>6, <1>7 DEF ahead

\* One joined row more.
LEMMA CountsNext ==
    ASSUME NEW d, DayIs(d), NEW k \in Nat, NEW row, FeatureOf(d, row, k), NEW l, l = LabelOf(d, k),
           NEW c, CountsOk(d, c, k)
    PROVE  CountsOk(d, Counted(c, row, l), k + 1)
<1> DEFINE outcome == Filtered(row, l)
           retained == outcome = "retained"
           ahead == AheadOf(d, k)
           class == ahead[Primary]
           L == Len(Qualifying(d))
           g == Counted(c, row, l)
<1>1. /\ outcome \in Filters /\ (retained <=> Retains(d, k))
      /\ l.ahead = ahead /\ ahead \in [Horizons -> Classes \cup {NoRow}]
  BY FilteredIs
<1>2. /\ c.qualifying = k /\ k < L /\ L \in Nat
      /\ c.rows \in [Filters -> Nat] /\ Sum(c.rows) = k
      /\ c.classes \in [Classes -> Nat] /\ Sum(c.classes) = c.rows["retained"]
      /\ c.available \in [Horizons -> Nat] /\ c.unavailable \in [Horizons -> Nat]
      /\ \A h \in Horizons : /\ c.available[h] + c.unavailable[h] = k
                             /\ c.unavailable[h] = Missing(h, k, L)
  BY RowsTyped DEF CountsOk, FeatureOf
<1> HIDE DEF ahead
<1>3. /\ g.qualifying = c.qualifying + 1
      /\ g.rows = [c.rows EXCEPT ![outcome] = @ + 1]
      /\ g.classes = [j \in Classes |-> c.classes[j] + (IF retained /\ class = j THEN 1 ELSE 0)]
      /\ g.available = [h \in Horizons |-> c.available[h] + (IF ahead[h] # NoRow THEN 1 ELSE 0)]
      /\ g.unavailable = [h \in Horizons |-> c.unavailable[h] + (IF ahead[h] = NoRow THEN 1 ELSE 0)]
  BY <1>1 DEF Counted
<1> HIDE DEF g, outcome, L
<1>4. IsFiniteSet(Filters) /\ IsFiniteSet(Classes) /\ "retained" \in Filters
  BY NamesFinite DEF Filters
<1>5. g.rows \in [Filters -> Nat] /\ g.rows[outcome] = c.rows[outcome] + 1
      /\ \A o \in Filters \ {outcome} : g.rows[o] = c.rows[o]
  BY <1>1, <1>2, <1>3
<1>6. Sum(g.rows) = k + 1
  <2>1. Summable(c.rows, Filters) /\ Summable(g.rows, Filters)
    BY <1>2, <1>4, <1>5 DEF Summable
  <2>2. SumFunctionOnSet(g.rows, Filters)
          = SumFunctionOnSet(c.rows, Filters) + (g.rows[outcome] - c.rows[outcome])
    BY <1>1, <1>5, <2>1, SumChange
  <2>3. SumFunctionOnSet(c.rows, Filters) = k /\ Sum(g.rows) = SumFunctionOnSet(g.rows, Filters)
    BY <1>2, <1>5 DEF Sum
  <2>4. c.rows[outcome] \in Nat
    BY <1>1, <1>2
  <2> QED BY <1>5, <2>2, <2>3, <2>4
<1>7. g.classes \in [Classes -> Nat]
  BY <1>2, <1>3
<1>8. Sum(g.classes) = g.rows["retained"]
  <2>1. Summable(c.classes, Classes) /\ Summable(g.classes, Classes)
    BY <1>2, <1>4, <1>7 DEF Summable
  <2>2. SumFunctionOnSet(c.classes, Classes) = c.rows["retained"] /\ Sum(g.classes) = SumFunctionOnSet(g.classes, Classes)
    BY <1>2, <1>7 DEF Sum
  <2>3. c.rows["retained"] \in Nat
    BY <1>2, <1>4
  <2>4. CASE retained
    <3>1. class \in Classes
      <4>1. class # NoRow /\ Primary \in Horizons
        BY <1>1, <2>4, RowsAssumption DEF Retains, ahead
      <4> QED BY <1>1, <4>1
    <3>2. g.classes[class] = c.classes[class] + 1 /\ \A j \in Classes \ {class} : g.classes[j] = c.classes[j] + 0
      BY <1>3, <2>4, <3>1
    <3>3. \A j \in Classes : c.classes[j] \in Nat
      BY <1>2
    <3> HIDE DEF class
    <3>4. SumFunctionOnSet(g.classes, Classes)
            = SumFunctionOnSet(c.classes, Classes) + (g.classes[class] - c.classes[class])
      BY <2>1, <3>1, <3>2, <3>3, SumChange
    <3>5. g.classes[class] - c.classes[class] = 1
      BY <3>1, <3>2, <3>3
    <3>6. g.rows["retained"] = c.rows["retained"] + 1
      BY <1>5, <2>4
    <3> QED BY <2>2, <2>3, <3>4, <3>5, <3>6
  <2>5. CASE ~retained
    <3>1. \A j \in Classes : g.classes[j] = c.classes[j]
      <4>1. \A j \in Classes : g.classes[j] = c.classes[j] + 0 /\ c.classes[j] \in Nat
        BY <1>2, <1>3, <2>5
      <4> QED BY <4>1
    <3>2. SumFunctionOnSet(g.classes, Classes) = SumFunctionOnSet(c.classes, Classes)
      BY <1>4, <3>1, SumSame
    <3>3. g.rows["retained"] = c.rows["retained"]
      BY <1>4, <1>5, <2>5
    <3> QED BY <2>2, <3>2, <3>3
  <2> QED BY <2>4, <2>5
<1>9. ASSUME NEW h \in Horizons
      PROVE  /\ g.available[h] \in Nat /\ g.unavailable[h] \in Nat
             /\ g.available[h] + g.unavailable[h] = k + 1
             /\ g.unavailable[h] = Missing(h, k + 1, L)
  <2>1. h \in Nat \ {0}
    BY LongestHorizon
  <2>2. /\ c.available[h] \in Nat /\ c.unavailable[h] \in Nat /\ c.available[h] + c.unavailable[h] = k
        /\ c.unavailable[h] = Missing(h, k, L)
    BY <1>2
  <2>3. /\ g.available[h] = c.available[h] + (IF ahead[h] # NoRow THEN 1 ELSE 0)
        /\ g.unavailable[h] = c.unavailable[h] + (IF ahead[h] = NoRow THEN 1 ELSE 0)
    BY <1>3
  <2>4. ahead[h] = NoRow <=> k + 1 + h > L
    <3>1. ahead[h] = IF k + 1 + h <= L THEN Sign(Qualifying(d)[k + 1].mid, Qualifying(d)[k + 1 + h].mid)
                     ELSE NoRow
      BY DEF ahead, AheadOf, L
    <3>2. \A m, n : Sign(m, n) # NoRow
      BY RowsAssumption DEF Sign, Classes
    <3> QED BY <1>2, <2>1, <3>1, <3>2
  <2>5. /\ g.available[h] = c.available[h] + (IF k + 1 + h > L THEN 0 ELSE 1)
        /\ g.unavailable[h] = c.unavailable[h] + (IF k + 1 + h > L THEN 1 ELSE 0)
    BY <2>3, <2>4
  <2>7. Missing(h, k + 1, L) = Missing(h, k, L) + (IF k + 1 + h > L THEN 1 ELSE 0)
    BY <1>2, <2>1 DEF Missing
  <2>6. g.unavailable[h] = Missing(h, k + 1, L)
    BY <2>2, <2>5, <2>7
  <2> QED BY <2>2, <2>5, <2>6
<1>10. g.available \in [Horizons -> Nat] /\ g.unavailable \in [Horizons -> Nat]
  BY <1>3, <1>9
<1>11. g.qualifying = k + 1 /\ k + 1 \in Nat /\ k + 1 <= L
  BY <1>2, <1>3
<1>12. CountsOk(d, g, k + 1)
  BY <1>5, <1>6, <1>7, <1>8, <1>9, <1>10, <1>11 DEF CountsOk, L
<1> QED BY <1>12 DEF g

\* It is written exactly when the filters leave it.
LEMMA KeptNext ==
    ASSUME NEW d, DayIs(d), NEW k \in Nat, k < Len(Qualifying(d)), OrderedTo(Qualifying(d), k + 1),
           NEW r, KeptOk(d, r, k)
    PROVE  /\ Retains(d, k) => KeptOk(d, Append(r, KeptOf(d, k)), k + 1)
           /\ ~Retains(d, k) => KeptOk(d, r, k + 1)
<1> DEFINE y == KeptOf(d, k)
<1>1. r \in Seq(KeptRows) /\ ToSet(r) = RetainedTo(d, k)
      /\ \A i, j \in 1 .. Len(r) : i < j => r[i].index < r[j].index
  BY DEF KeptOk
<1>2. \A i : i \in 0 .. (k + 1) - 1 <=> i \in 0 .. k - 1 \/ i = k
  OBVIOUS
<1>3. RetainedTo(d, k + 1) = IF Retains(d, k) THEN RetainedTo(d, k) \cup {y} ELSE RetainedTo(d, k)
  <2> HIDE DEF y
  <2>1. {i \in 0 .. (k + 1) - 1 : Retains(d, i)}
          = IF Retains(d, k) THEN {i \in 0 .. k - 1 : Retains(d, i)} \cup {k}
            ELSE {i \in 0 .. k - 1 : Retains(d, i)}
    BY <1>2
  <2> QED BY <2>1 DEF RetainedTo, y
<1>4. CASE ~Retains(d, k)
  BY <1>1, <1>3, <1>4 DEF KeptOk
<1>5. CASE Retains(d, k)
  <2> DEFINE q == Qualifying(d)
             t == Append(r, y)
             N == Len(r)
  <2>1. \A j \in 1 .. k + 1 : q[j] \in Snapshot /\ q[j].index \in Nat
    <3>1. \A j \in 1 .. k + 1 : q[j] \in Snapshot
      BY RowsTyped
    <3> QED BY <3>1, SnapshotIs DEF Row
  <2>2. y \in KeptRows /\ y.index = q[k + 1].index
    <3>1. LabelOf(d, k) \in LabelRows
      BY LabelIs
    <3> DEFINE i == q[k + 1].index
               a == AheadOf(d, k)
    <3>2. i \in Nat
      BY <2>1
    <3>3. LabelOf(d, k) = [index |-> i, ordinal |-> k, ahead |-> a] /\ y = [index |-> i, ahead |-> a]
      BY DEF LabelOf, KeptOf
    <3> HIDE DEF i, a, y
    <3>4. a \in [Horizons -> Classes \cup {NoRow}]
      <4>1. LabelOf(d, k).ahead = a
        BY <3>3
      <4> QED BY <3>1, <4>1 DEF LabelRows
    <3> QED BY <3>2, <3>3, <3>4 DEF KeptRows, i
  <2>3. \A j \in 1 .. N : r[j].index < y.index
    <3> SUFFICES ASSUME NEW j \in 1 .. N PROVE r[j].index < y.index
      OBVIOUS
    <3>1. r[j] \in RetainedTo(d, k)
      <4>1. r[j] \in ToSet(r)
        BY <1>1 DEF ToSet
      <4> QED BY <1>1, <4>1
    <3>2. PICK i \in 0 .. k - 1 : r[j] = KeptOf(d, i)
      BY <3>1 DEF RetainedTo
    <3> DEFINE p == i + 1
    <3>3. p \in 1 .. k + 1 /\ p < k + 1 /\ k + 1 \in 1 .. k + 1
      BY <3>2
    <3>4. r[j].index = q[p].index
      BY <3>2 DEF KeptOf
    <3> HIDE DEF p, q, y
    <3>5. q[p].index < q[k + 1].index
      BY <3>3 DEF OrderedTo, Follows, q
    <3> QED BY <2>2, <3>4, <3>5
  <2> HIDE DEF y
  <2>4. /\ t \in Seq(KeptRows) /\ Len(t) = N + 1 /\ t[N + 1] = y
        /\ (\A i \in 1 .. N : t[i] = r[i]) /\ ToSet(t) = ToSet(r) \cup {y}
    BY <1>1, <2>2, Appended
  <2>5. N \in Nat
    BY <1>1
  <2> HIDE DEF t, N
  <2>6. ASSUME NEW i \in 1 .. N + 1, NEW j \in 1 .. N + 1, i < j PROVE t[i].index < t[j].index
    <3>1. i \in 1 .. N /\ t[i] = r[i] /\ i \in 1 .. Len(r)
      BY <2>4, <2>5, <2>6 DEF N
    <3>2. CASE j = N + 1
      BY <2>3, <2>4, <3>1, <3>2
    <3>3. CASE j # N + 1
      <4>1. j \in 1 .. N /\ t[j] = r[j]
        BY <2>4, <2>5, <3>3
      <4> QED BY <1>1, <2>6, <3>1, <4>1 DEF N
    <3> QED BY <3>2, <3>3
  <2>7. KeptOk(d, t, k + 1)
    BY <1>1, <1>3, <1>5, <2>4, <2>6 DEF KeptOk
  <2> QED BY <1>5, <2>7 DEF t, y
<1> QED BY <1>4, <1>5

(* Counts and rows that are so pass every check.                            *)
LEMMA ChecksPass ==
    ASSUME NEW d, NEW c, NEW r, NEW k, CountsOk(d, c, k), KeptOk(d, r, k)
    PROVE  CountsReconcile(c) /\ IndicesIncrease(r)
<1>1. CountsReconcile(c)
  BY DEF CountsOk, CountsReconcile
<1>2. Len(r) \in Nat
  BY DEF KeptOk
<1>3. ASSUME NEW i \in 1 .. Len(r) - 1 PROVE r[i].index < r[i + 1].index
  <2>1. i \in 1 .. Len(r) /\ i + 1 \in 1 .. Len(r) /\ i < i + 1
    BY <1>2
  <2> QED BY <2>1 DEF KeptOk
<1> QED BY <1>1, <1>3 DEF IndicesIncrease

(* A feature that a pull has made.                                          *)
LEMMA FeatureMade ==
    ASSUME NEW d, NEW f, NEW x, Makes(d, f, x)
    PROVE  FeatureOf(d, FeatureRow(f, x), f.ordinal) /\ FeatureRow(f, x) # NoRow
           /\ RowCount(d, f.snapshots) = f.ordinal + 1
<1> DEFINE k == f.ordinal
           row == FeatureRow(f, x)
           n == RowCount(d, f.snapshots)
<1>1. /\ DayIs(d) /\ FlowOk(d, f) /\ x \in Snapshot /\ k \in Nat /\ Qualifying(d)[k + 1] = x
      /\ k = n - 1 /\ f.snapshots \in Nat /\ f.snapshots <= Len(d.snapshots)
  BY DEF Makes, FlowOk, SnapshotsRead
<1>2. n \in Nat /\ n <= Len(Qualifying(d)) /\ Len(Qualifying(d)) \in Nat
  <2>1. f.snapshots \in 0 .. Len(d.snapshots)
    BY <1>1 DEF DayIs
  <2> QED BY <1>1, <2>1, RowsTyped
<1>3. x.index \in Nat /\ x.time \in Nat
  BY <1>1, SnapshotIs DEF Row
<1>4. /\ row.index = x.index /\ row.ordinal = k
      /\ row.complete = (k >= Max(EventWindows) /\ x.time >= SessionStart + Max(ClockWindows))
  BY DEF FeatureRow, HistoryComplete
<1> DEFINE complete == HistoryComplete(f, x)
           tr == [w \in EventWindows |-> IF WindowComplete(f, w) THEN f.transitions[w] ELSE <<>>]
           ex == [w \in EventWindows |-> IF WindowComplete(f, w) THEN <<f.total[w]>> ELSE <<>>]
           ra == [w \in ClockWindows |-> IF x.time >= SessionStart + w
                                         THEN <<Len(Unexpired(f.recent[w], x.time, w))>> ELSE <<>>]
<1>5. row = [index |-> x.index, time |-> x.time, ordinal |-> k, complete |-> complete,
             transitions |-> tr, executed |-> ex, rate |-> ra]
  BY DEF FeatureRow
<1> HIDE DEF row, n, complete
<1>6. complete \in BOOLEAN
  BY DEF complete, HistoryComplete
<1>7. tr \in [EventWindows -> Seq(Nat)] /\ ex \in [EventWindows -> Seq(Int)]
  <2>1. TransitionsOk(f, d, n) /\ TotalsOk(f)
    BY <1>1 DEF FlowOk, Consistent, FlowIs, n
  <2>2. \A w \in EventWindows : f.transitions[w] \in Seq(Nat) /\ f.total[w] \in Int
    BY <2>1 DEF TransitionsOk, TotalsOk
  <2>3. \A w \in EventWindows : tr[w] \in Seq(Nat) /\ ex[w] \in Seq(Int)
    BY <2>2
  <2> QED BY <2>3
<1>8. ra \in [ClockWindows -> Seq(Nat)]
  <2>1. ASSUME NEW w \in ClockWindows PROVE Len(Unexpired(f.recent[w], x.time, w)) \in Nat
    <3> DEFINE E == Before(d, x.index)
               q == f.recent[w]
    <3>1. FlowIs(f, E, Bounds(d), k + 1)
      BY MadeFrom
    <3>2. Queue(q) /\ w \in Nat
      BY <3>1, RowsAssumption DEF FlowIs, RatesOk, RateIs
    <3> HIDE DEF q
    <3>3. Queue(Unexpired(q, x.time, w))
      BY <1>3, <3>2, UnexpiredIs DEF Aged
    <3> DEFINE u == Unexpired(q, x.time, w)
    <3> HIDE DEF u
    <3>4. Len(u) \in Nat
      BY <3>3 DEF Queue, u
    <3> QED BY <3>4 DEF u, q
  <2>2. \A w \in ClockWindows : ra[w] \in Seq(Nat)
    BY <2>1
  <2> QED BY <2>2
<1> HIDE DEF tr, ex, ra
<1>9. row \in FeatureRows
  BY <1>1, <1>3, <1>5, <1>6, <1>7, <1>8 DEF FeatureRows
<1>10. row # NoRow
  BY <1>9, RowsAssumption
<1>11. k < Len(Qualifying(d)) /\ n = k + 1
  BY <1>1, <1>2 DEF n
<1>12. FeatureOf(d, row, k)
  BY <1>1, <1>4, <1>11 DEF FeatureOf
<1> QED BY <1>10, <1>11, <1>12 DEF row, n

-----------------------------------------------------------------------------
(* The steps of a build. *)

LEMMA BuildInvInit == RowsInit => BuildInv
<1> SUFFICES ASSUME RowsInit PROVE BuildInv
  OBVIOUS
<1>1. /\ days \in Inputs /\ day = 1 /\ flow = FreshFlow /\ labels = FreshLabels /\ feature = NoRow
      /\ label = NoRow /\ counts = [p \in ToSet(Partitions) |-> NoCounts]
      /\ kept = [p \in ToSet(Partitions) |-> <<>>] /\ building = "building" /\ Len(Partitions) = 3
  BY DEF RowsInit, RowsStart, Partitions
<1>2. DaysOk
  BY <1>1 DEF DaysOk
<1>3. NoCounts.qualifying = 0
  BY DEF NoCounts
<1>4. \A p \in ToSet(Partitions) : counts[p].qualifying = 0
  BY <1>1, <1>3
<1>5. \A p \in ToSet(Partitions) : /\ CountsOk(days[p], counts[p], counts[p].qualifying)
                                   /\ KeptOk(days[p], kept[p], counts[p].qualifying)
  BY <1>1, <1>2, <1>4, DaysAre, NothingCounted
<1>6. \A i \in 1 .. 3 : Joined(i) = 0
  BY <1>2, <1>4, DaysAre DEF Joined
<1>7. JoinOk(Today, Joined(day))
  <2>1. DayIs(Today) /\ Joined(day) = 0
    BY <1>1, <1>2, <1>6, DaysAre
  <2>2. RowCount(Today, 0) = 0 /\ flow.snapshots = 0
    BY <1>1, <2>1, NoRowsTo DEF RowCount, DayIs, FreshFlow
  <2>3. LabelsOk(Today, labels, 0)
    BY <1>1, <2>1, FreshLabelsAre
  <2>4. One(feature # NoRow) = 0 /\ One(label # NoRow) = 0
    BY <1>1 DEF One
  <2> QED BY <1>1, <2>1, <2>2, <2>3, <2>4 DEF JoinOk
<1> QED BY <1>1, <1>5, <1>6, <1>7 DEF BuildInv, OtherDays

(* Between two rows. *)
LEMMA JoinStates ==
    ASSUME NEW d, NEW k, k \in Nat, JoinOk(d, k)
    PROVE  /\ feature = NoRow => RowCount(d, flow.snapshots) = k
           /\ feature # NoRow => RowCount(d, flow.snapshots) = k + 1 /\ FeatureOf(d, feature, k)
           /\ label = NoRow => LabelsOk(d, labels, k)
           /\ label # NoRow => label = LabelOf(d, k) /\ k < Len(Qualifying(d)) /\ LabelsOk(d, labels, k + 1)
<1>1. (feature = NoRow => One(feature # NoRow) = 0) /\ (feature # NoRow => One(feature # NoRow) = 1)
      /\ (label = NoRow => One(label # NoRow) = 0) /\ (label # NoRow => One(label # NoRow) = 1)
  BY DEF One
<1>2. k + 0 = k
  OBVIOUS
<1> QED BY <1>1, <1>2 DEF JoinOk

\* How many rows of a partition have been joined.
LEMMA JoinedIs ==
    ASSUME DaysOk, BuildInv, building = "building"
    PROVE  /\ Joined(day) \in Nat /\ JoinOk(Today, Joined(day)) /\ Joined(day) <= Len(Qualifying(Today))
           /\ Partitions[day] \in ToSet(Partitions) /\ day \in 1 .. 3 /\ Today = days[Partitions[day]]
<1>1. Partitions[day] \in ToSet(Partitions) /\ day \in 1 .. 3
  BY DaysAre DEF DaysOk
<1>2. CountsOk(days[Partitions[day]], counts[Partitions[day]], Joined(day))
  BY <1>1 DEF BuildInv, Joined
<1> QED BY <1>1, <1>2 DEF CountsOk, BuildInv, Today

\* One lemma for each action; first the feature pulled.
LEMMA PullFeatureBuilds ==
    ASSUME FlowInv, BuildInv, PullFeature
    PROVE  BuildInv'
<1> DEFINE d == Today
           k == Joined(day)
           x == d.snapshots[flow.snapshots + 1]
<1>1. /\ building = "building" /\ feature = NoRow /\ flow.snapshots < Len(d.snapshots)
      /\ days' = days /\ day' = day /\ labels' = labels /\ label' = label /\ counts' = counts /\ kept' = kept
  BY DEF PullFeature
<1>2. DaysOk /\ FlowOk(d, flow) /\ DayIs(d)
  BY <1>1, DaysAre DEF FlowInv
<1>3. /\ building' \in {"building", "failed"}
      /\ building' = "failed" => feature' = NoRow /\ (~OrderedRows(d.snapshots) \/ ~OrderedRows(d.events))
      /\ building' = "building" =>
            /\ FlowOk(d, flow') /\ flow'.snapshots = flow.snapshots + 1
            /\ ~x.qualifies => feature' = NoRow
            /\ x.qualifies => feature' = FeatureRow(flow', x) /\ Makes(d, flow', x)
  BY <1>2, PulledFeature
<1>4. /\ k \in Nat /\ JoinOk(d, k) /\ RowCount(d, flow.snapshots) = k
  BY <1>1, <1>2, JoinedIs, JoinStates
<1>5. Today' = d /\ Joined(day)' = k /\ \A i : Joined(i)' = Joined(i)
  BY <1>1 DEF Today, Joined
<1> HIDE DEF d, k, x
<1>6. ASSUME building' = "building" PROVE JoinOk(d, k)'
  <2>1. flow.snapshots \in Nat /\ flow'.snapshots = flow.snapshots + 1
    BY <1>2, <1>3, <1>6 DEF FlowOk, SnapshotsRead
  <2>2. /\ ~x.qualifies => RowCount(d, flow.snapshots + 1) = k
        /\ x.qualifies => RowCount(d, flow.snapshots + 1) = k + 1
    BY <1>1, <1>2, <1>4, <2>1, RowAdded DEF x
  <2>3. d' = d /\ k' = k
    BY <1>5 DEF d, k
  <2>4. RowCount(d, flow'.snapshots) = k + One(feature' # NoRow) /\ (feature' # NoRow => FeatureOf(d, feature', k))
    <3>1. CASE ~x.qualifies
      <4>1. feature' = NoRow /\ RowCount(d, flow'.snapshots) = k /\ k + 0 = k
        BY <1>3, <1>4, <1>6, <2>1, <2>2, <3>1
      <4> QED BY <4>1 DEF One
    <3>2. CASE x.qualifies
      <4>1. RowCount(d, flow'.snapshots) = k + 1 /\ feature' = FeatureRow(flow', x) /\ Makes(d, flow', x)
        BY <1>3, <1>6, <2>1, <2>2, <3>2
      <4>2. /\ FeatureOf(d, feature', flow'.ordinal) /\ feature' # NoRow
            /\ RowCount(d, flow'.snapshots) = flow'.ordinal + 1
        BY <4>1, FeatureMade
      <4>3. flow'.ordinal = k
        <5>1. flow'.ordinal \in Nat
          BY <4>1 DEF Makes
        <5> QED BY <1>4, <4>1, <4>2, <5>1
      <4> QED BY <4>1, <4>2, <4>3 DEF One
    <3> QED BY <3>1, <3>2
  <2>5. JoinOk(d, k)
    BY <1>4
  <2> QED BY <1>1, <2>3, <2>4, <2>5 DEF JoinOk
<1>7. CASE building' = "building"
  <2>1. JoinOk(Today, Joined(day))'
    <3>1. d' = d /\ k' = k
      BY <1>5 DEF d, k
    <3> QED BY <1>5, <1>6, <1>7, <3>1 DEF JoinOk
  <2>2. OtherDays'
    BY <1>1, <1>5 DEF BuildInv, OtherDays
  <2> QED BY <1>1, <1>7, <2>1, <2>2 DEF BuildInv
<1>8. CASE building' = "failed"
  BY <1>1, <1>3, <1>5, <1>8 DEF BuildInv, d
<1> QED BY <1>3, <1>7, <1>8

\* The label pulled.
LEMMA PullLabelBuilds ==
    ASSUME FlowInv, BuildInv, PullLabel
    PROVE  BuildInv'
<1> DEFINE d == Today
           k == Joined(day)
<1>1. /\ building = "building" /\ label = NoRow
      /\ days' = days /\ day' = day /\ flow' = flow /\ feature' = feature /\ counts' = counts /\ kept' = kept
  BY DEF PullLabel
<1>2. DaysOk /\ DayIs(d)
  BY DaysAre DEF FlowInv
<1>3. k \in Nat /\ JoinOk(d, k) /\ LabelsOk(d, labels, k)
  BY <1>1, <1>2, JoinedIs, JoinStates
<1>4. /\ building' \in {"building", "failed"}
      /\ building' = "failed" => ~OrderedRows(d.snapshots)
      /\ building' = "building" => LabelPulled(d, k)
  BY <1>2, <1>3, PulledLabel
<1>5. Today' = d /\ Joined(day)' = k /\ \A i : Joined(i)' = Joined(i)
  BY <1>1 DEF Today, Joined
<1> HIDE DEF d, k
<1>6. CASE building' = "building"
  <2>1. /\ label' # NoRow => label' = LabelOf(d, k) /\ k < Len(Qualifying(d))
        /\ LabelsOk(d, labels', k + One(label' # NoRow))
    <3>1. CASE label' = NoRow /\ LabelsOk(d, labels', k)
      <4>1. k + 0 = k
        BY <1>3
      <4> QED BY <3>1, <4>1 DEF One
    <3>2. CASE label' = LabelOf(d, k) /\ k < Len(Qualifying(d)) /\ LabelsOk(d, labels', k + 1)
      <4>1. label' # NoRow
        BY <1>2, <1>3, <3>2, LabelIs
      <4> QED BY <3>2, <4>1 DEF One
    <3> QED BY <1>4, <1>6, <3>1, <3>2 DEF LabelPulled
  <2>2. JoinOk(Today, Joined(day))'
    BY <1>1, <1>3, <1>5, <2>1 DEF JoinOk
  <2>3. OtherDays'
    BY <1>1, <1>5 DEF BuildInv, OtherDays
  <2> QED BY <1>1, <1>6, <2>2, <2>3 DEF BuildInv
<1>7. CASE building' = "failed"
  BY <1>1, <1>4, <1>5, <1>7 DEF BuildInv, d
<1> QED BY <1>4, <1>6, <1>7

\* The two rows joined: they are of one message, so the join never fails.
LEMMA JoinBuilds ==
    ASSUME FlowInv, BuildInv, JoinRow
    PROVE  BuildInv'
<1> DEFINE d == Today
           p == Partitions[day]
           k == Joined(day)
           c == counts[p]
           r == kept[p]
<1>1. /\ building = "building" /\ feature # NoRow /\ label # NoRow
      /\ feature' = NoRow /\ label' = NoRow
      /\ days' = days /\ day' = day /\ flow' = flow /\ labels' = labels
  BY DEF JoinRow
<1>2. DaysOk /\ DayIs(d) /\ FlowOk(d, flow)
  BY <1>1, DaysAre DEF FlowInv
<1>3. k \in Nat /\ JoinOk(d, k) /\ p \in ToSet(Partitions) /\ d = days[p] /\ day \in 1 .. 3
  BY <1>1, <1>2, JoinedIs
<1>4. /\ RowCount(d, flow.snapshots) = k + 1 /\ FeatureOf(d, feature, k)
      /\ label = LabelOf(d, k) /\ k < Len(Qualifying(d)) /\ LabelsOk(d, labels, k + 1)
  BY <1>1, <1>3, JoinStates
<1>5. /\ DOMAIN counts = ToSet(Partitions) /\ DOMAIN kept = ToSet(Partitions)
      /\ CountsOk(d, c, k) /\ KeptOk(d, r, k)
  BY <1>3 DEF BuildInv, Joined
<1>6. OrderedTo(Qualifying(d), k + 1)
  <2>1. /\ flow.snapshots \in Nat /\ flow.snapshots <= Len(d.snapshots)
        /\ OrderedTo(d.snapshots, flow.snapshots)
    BY <1>2 DEF FlowOk, SnapshotsRead
  <2>2. FirstRows(d, flow.snapshots)
    BY <1>2, <2>1, FirstRowsAre
  <2> QED BY <1>4, <2>2 DEF FirstRows
<1> DEFINE s == Counted(c, feature, label)
           t == IF Retains(d, k) THEN Append(r, KeptOf(d, k)) ELSE r
<1>7. CountsOk(d, s, k + 1)
  <2> HIDE DEF d, k, c
  <2> QED BY <1>2, <1>3, <1>4, <1>5, CountsNext
<1>8. KeptOk(d, t, k + 1)
  <2> HIDE DEF d, k, r
  <2> QED BY <1>2, <1>3, <1>4, <1>5, <1>6, KeptNext
<1>9. /\ Filtered(feature, label) = "retained" <=> Retains(d, k)
      /\ KeptOf(d, k) = [index |-> feature.index, ahead |-> label.ahead] /\ SameKey(feature, label)
  <2> HIDE DEF d, k
  <2> QED BY <1>2, <1>3, <1>4, FilteredIs DEF SameKey
<1>10. counts' = [counts EXCEPT ![p] = s] /\ building' = building
  BY <1>9 DEF JoinRow
<1>11. /\ DOMAIN kept' = ToSet(Partitions) /\ kept'[p] = t
       /\ \A o \in ToSet(Partitions) : o # p => kept'[o] = kept[o]
  <2>1. kept' = Written(feature, label)
    BY <1>9 DEF JoinRow
  <2>2. CASE Retains(d, k)
    <3>1. kept' = [kept EXCEPT ![p] = Append(r, [index |-> feature.index, ahead |-> label.ahead])]
      BY <1>9, <2>1, <2>2 DEF Written
    <3>2. t = Append(r, [index |-> feature.index, ahead |-> label.ahead])
      BY <1>9, <2>2
    <3> HIDE DEF r, t
    <3> QED BY <1>3, <1>5, <3>1, <3>2
  <2>3. CASE ~Retains(d, k)
    <3>1. kept' = kept
      BY <1>9, <2>1, <2>3 DEF Written
    <3> QED BY <1>5, <2>3, <3>1
  <2> QED BY <2>2, <2>3
<1> HIDE DEF s, t, d, k
<1>12. /\ DOMAIN counts' = ToSet(Partitions) /\ DOMAIN kept' = ToSet(Partitions)
       /\ counts'[p] = s /\ kept'[p] = t
       /\ \A o \in ToSet(Partitions) : o # p => counts'[o] = counts[o] /\ kept'[o] = kept[o]
  BY <1>3, <1>5, <1>10, <1>11
<1>13. s.qualifying = k + 1
  BY <1>7 DEF CountsOk
<1>14. ASSUME NEW o \in ToSet(Partitions)
       PROVE  /\ CountsOk(days'[o], counts'[o], counts'[o].qualifying)
              /\ KeptOk(days'[o], kept'[o], counts'[o].qualifying)
  <2>1. CASE o = p
    BY <1>1, <1>3, <1>7, <1>8, <1>12, <1>13, <2>1
  <2>2. CASE o # p
    BY <1>1, <1>12, <2>2 DEF BuildInv
  <2> QED BY <2>1, <2>2
<1>15. Today' = d /\ p' = p
  BY <1>1 DEF Today, d
<1>16. Joined(day)' = k + 1
  BY <1>1, <1>12, <1>13 DEF Joined
<1>17. \A i \in 1 .. 3 : i # day => Joined(i)' = Joined(i)
  <2> SUFFICES ASSUME NEW i \in 1 .. 3, i # day PROVE counts'[Partitions[i]].qualifying = counts[Partitions[i]].qualifying
    BY DEF Joined
  <2>1. Partitions[i] # Partitions[day] /\ Partitions[i] \in ToSet(Partitions)
    <3>1. Partitions[1] = "train" /\ Partitions[2] = "validation" /\ Partitions[3] = "test"
      BY DEF Partitions
    <3>2. (i = 1 \/ i = 2 \/ i = 3) /\ (day = 1 \/ day = 2 \/ day = 3)
      BY <1>3
    <3> QED BY <1>2, <1>3, <3>1, <3>2, DaysAre
  <2> QED BY <1>12, <2>1
<1>18. JoinOk(Today, Joined(day))'
  <2>1. One(feature' # NoRow) = 0 /\ One(label' # NoRow) = 0 /\ (k + 1) + 0 = k + 1
    BY <1>1, <1>3 DEF One
  <2> DEFINE n == k + 1
  <2>2. /\ RowCount(d, flow'.snapshots) = n + One(feature' # NoRow)
        /\ LabelsOk(d, labels', n + One(label' # NoRow))
    BY <1>1, <1>4, <2>1
  <2> HIDE DEF n
  <2>3. Today' = d /\ Joined(day)' = n
    BY <1>15, <1>16 DEF n
  <2> QED BY <1>1, <2>2, <2>3 DEF JoinOk
<1>19. OtherDays'
  <2> SUFFICES ASSUME NEW i \in 1 .. 3
               PROVE  /\ i < day => DayDone(days[Partitions[i]], Joined(i)')
                      /\ i > day => Joined(i)' = 0
    BY <1>1 DEF OtherDays
  <2>1. (i < day => DayDone(days[Partitions[i]], Joined(i))) /\ (i > day => Joined(i) = 0)
    BY <1>1 DEF BuildInv, OtherDays
  <2>2. i # day => Joined(i)' = Joined(i)
    BY <1>17
  <2>3. i < day \/ i > day => i # day
    BY <1>3
  <2> QED BY <2>1, <2>2, <2>3
<1>20. building' = "building"
  BY <1>1, <1>10
<1> HIDE DEF c, r, p
<1> QED BY <1>12, <1>14, <1>18, <1>19, <1>20 DEF BuildInv
(* A day ends with both passes, the join having met every row.              *)
LEMMA DayEnds ==
    ASSUME FlowInv, BuildInv, EndDay
    PROVE  FeaturesEnded /\ LabelsEnded /\ DayDone(Today, Joined(day))
<1> DEFINE d == Today
           k == Joined(day)
           L == Len(Qualifying(d))
<1>1. /\ building = "building"
      /\ FeaturesEnded \/ (feature # NoRow /\ LabelsEnded)
      /\ FeaturesEnded => LabelsEnded \/ label # NoRow
  BY DEF EndDay
<1>2. DaysOk /\ FlowOk(d, flow) /\ DayIs(d)
  BY <1>1, DaysAre DEF FlowInv
<1>3. k \in Nat /\ JoinOk(d, k) /\ L \in Nat /\ RowCount(d, Len(d.snapshots)) = L
  BY <1>1, <1>2, JoinedIs, RowsTyped
<1> HIDE DEF L, k, d
<1>4. ASSUME LabelsEnded PROVE k = L
  <2>1. label = NoRow /\ labels.snapshots = Len(d.snapshots) /\ labels.buffer = <<>>
    BY <1>4 DEF LabelsEnded, LabelsRead, d
  <2>2. LabelsOk(d, labels, k)
    BY <1>3, <2>1, JoinStates
  <2>3. k + 0 = RowCount(d, Len(d.snapshots))
    BY <2>1, <2>2 DEF LabelsOk
  <2> QED BY <1>3, <2>3
<1>5. FeaturesEnded
  <2>1. SUFFICES ASSUME feature # NoRow, LabelsEnded PROVE FALSE
    BY <1>1
  <2>2. FeatureOf(d, feature, k)
    BY <1>3, <2>1, JoinStates
  <2> QED BY <1>3, <1>4, <2>1, <2>2 DEF FeatureOf, L
<1>6. feature = NoRow /\ flow.snapshots = Len(d.snapshots)
  BY <1>5 DEF FeaturesEnded, d
<1>7. k = L
  BY <1>3, <1>6, JoinStates
<1>8. LabelsEnded
  <2>1. SUFFICES ASSUME label # NoRow PROVE FALSE
    BY <1>1, <1>5
  <2>2. k < L
    BY <1>3, <2>1, JoinStates DEF L
  <2> QED BY <1>3, <1>7, <2>2
<1>9. OrderedTo(d.snapshots, Len(d.snapshots))
  BY <1>2, <1>6 DEF FlowOk, SnapshotsRead
<1> QED BY <1>5, <1>7, <1>8, <1>9 DEF DayDone, L, k, d

\* The end of a day and of the build.
LEMMA EndBuilds ==
    ASSUME FlowInv, BuildInv, EndDay
    PROVE  BuildInv'
<1>1. FeaturesEnded /\ LabelsEnded /\ DayDone(Today, Joined(day))
  BY DayEnds
<1>2. /\ building = "building" /\ days' = days /\ feature' = feature /\ label' = label
      /\ counts' = counts /\ kept' = kept
      /\ IF day < Len(Partitions)
         THEN day' = day + 1 /\ flow' = FreshFlow /\ labels' = FreshLabels /\ building' = building
         ELSE building' = (IF Checked /\ Usable THEN "complete" ELSE "failed") /\ day' = day
  BY <1>1 DEF EndDay
<1>3. DaysOk /\ day \in 1 .. 3 /\ Len(Partitions) = 3 /\ FlowInv'
  <2>1. FlowInv'
    BY FlowInvNext DEF RowsNext
  <2> QED BY <2>1, DaysAre DEF FlowInv, DaysOk
<1>4. \A i : Joined(i)' = Joined(i)
  BY <1>2 DEF Joined
<1>5. Today = days[Partitions[day]]
  BY DEF Today
<1>6. \A i \in 1 .. 3 : (i <= day => DayDone(days[Partitions[i]], Joined(i))) /\ (i > day => Joined(i) = 0)
  <2> SUFFICES ASSUME NEW i \in 1 .. 3
               PROVE  (i <= day => DayDone(days[Partitions[i]], Joined(i))) /\ (i > day => Joined(i) = 0)
    OBVIOUS
  <2>1. (i < day => DayDone(days[Partitions[i]], Joined(i))) /\ (i > day => Joined(i) = 0)
    BY <1>2 DEF BuildInv, OtherDays
  <2>2. CASE i = day
    BY <1>1, <1>3, <1>5, <2>2
  <2>3. CASE i # day
    BY <1>3, <2>1, <2>3
  <2> QED BY <2>2, <2>3
<1>7. CASE day < Len(Partitions)
  <2>1. /\ day' = day + 1 /\ flow' = FreshFlow /\ labels' = FreshLabels /\ building' = "building"
        /\ day' \in 1 .. 3
    BY <1>2, <1>3, <1>7
  <2>2. OtherDays'
    <3> SUFFICES ASSUME NEW i \in 1 .. 3
                 PROVE  /\ i < day' => DayDone(days[Partitions[i]], Joined(i))
                        /\ i > day' => Joined(i) = 0
      BY <1>2, <1>4 DEF OtherDays
    <3> QED BY <1>3, <1>6, <2>1
  <2>3. JoinOk(Today, Joined(day))'
    <3> DEFINE e == days[Partitions[day']]
    <3>1. DayIs(e) /\ Today' = e
      <4>1. Partitions[day'] \in ToSet(Partitions)
        BY <1>3, <2>1, DaysAre
      <4> QED BY <1>2, <1>3, <4>1, DaysAre DEF Today
    <3>2. Joined(day)' = 0
      <4>1. Joined(day') = 0
        BY <1>3, <1>6, <2>1
      <4>2. Joined(day)' = Joined(day')
        BY <1>2 DEF Joined
      <4> QED BY <4>1, <4>2
    <3> HIDE DEF e
    <3>3. RowCount(e, 0) = 0 /\ flow'.snapshots = 0
      BY <2>1, <3>1, NoRowsTo DEF RowCount, DayIs, FreshFlow
    <3>4. LabelsOk(e, labels', 0)
      BY <2>1, <3>1, FreshLabelsAre
    <3>5. feature' = NoRow /\ label' = NoRow
      BY <1>1, <1>2 DEF FeaturesEnded, LabelsEnded
    <3>6. One(feature' # NoRow) = 0 /\ One(label' # NoRow) = 0
      BY <3>5 DEF One
    <3> QED BY <3>1, <3>2, <3>3, <3>4, <3>5, <3>6 DEF JoinOk
  <2> QED BY <1>2, <2>1, <2>2, <2>3 DEF BuildInv
<1>8. CASE ~(day < Len(Partitions))
  <2>1. building' = (IF Checked /\ Usable THEN "complete" ELSE "failed") /\ day' = day /\ day = 3
    BY <1>2, <1>3, <1>8
  <2>2. \A p \in ToSet(Partitions) : DayDone(days[p], counts[p].qualifying)
    <3>1. \A i \in 1 .. 3 : DayDone(days[Partitions[i]], counts[Partitions[i]].qualifying)
      BY <1>6, <2>1 DEF Joined
    <3>2. Partitions[1] = "train" /\ Partitions[2] = "validation" /\ Partitions[3] = "test"
      BY DEF Partitions
    <3>3. 1 \in 1 .. 3 /\ 2 \in 1 .. 3 /\ 3 \in 1 .. 3
      OBVIOUS
    <3>4. \A p \in ToSet(Partitions) : \E i \in 1 .. 3 : p = Partitions[i]
      BY <1>3, <3>2, <3>3, DaysAre
    <3> QED BY <3>1, <3>4
  <2>3. Checked
    BY ChecksPass DEF Checked, BuildInv
  <2>4. CASE Usable
    <3>1. building' = "complete"
      BY <2>1, <2>3, <2>4
    <3>2. (\A p \in ToSet(Partitions) : DayDone(days[p], counts[p].qualifying))'
      BY <1>2, <2>2
    <3> QED BY <1>2, <3>1, <3>2 DEF BuildInv
  <2>5. CASE ~Usable
    <3>1. building' = "failed"
      BY <2>1, <2>5
    <3>2. ~Usable' /\ Checked' /\ day' = Len(Partitions)
      BY <1>2, <1>3, <2>1, <2>3, <2>5 DEF Usable, Checked
    <3> QED BY <1>2, <3>1, <3>2 DEF BuildInv
  <2> QED BY <2>4, <2>5
<1> QED BY <1>7, <1>8

\* All steps.
LEMMA BuildInvNext == FlowInv /\ BuildInv /\ [RowsNext]_rowsVars => BuildInv'
<1> SUFFICES ASSUME FlowInv, BuildInv, [RowsNext]_rowsVars PROVE BuildInv'
  OBVIOUS
<1>1. CASE UNCHANGED rowsVars
  BY <1>1 DEF rowsVars, BuildInv, OtherDays, JoinOk, Joined, Today, Usable, Checked
<1> QED BY <1>1, PullFeatureBuilds, PullLabelBuilds, JoinBuilds, EndBuilds DEF RowsNext

(* What the invariant says of a build that is over.                         *)
LEMMA BuildIsWhole == DaysOk /\ BuildInv => DatasetIsWhole
<1> SUFFICES ASSUME DaysOk, BuildInv PROVE DatasetIsWhole
  OBVIOUS
<1>1. ASSUME building = "complete", NEW p \in ToSet(Partitions)
      PROVE  /\ OrderedRows(days[p].snapshots)
             /\ ToSet(kept[p]) = RetainedOf(days[p])
             /\ Len(kept[p]) = Cardinality(RetainedOf(days[p]))
             /\ counts[p].qualifying = Len(Qualifying(days[p]))
             /\ \A h \in Horizons : counts[p].unavailable[h] = Min({h, counts[p].qualifying})
  <2> DEFINE d == days[p]
             c == counts[p]
             r == kept[p]
             k == c.qualifying
  <2>1. DayIs(d) /\ CountsOk(d, c, k) /\ KeptOk(d, r, k) /\ DayDone(d, k)
    BY <1>1, DaysAre DEF BuildInv
  <2> HIDE DEF d, c, r, k
  <2>2. k = Len(Qualifying(d)) /\ k \in Nat
    BY <2>1 DEF DayDone, CountsOk
  <2>3. OrderedRows(d.snapshots)
    BY <2>1, OrderedRowsOf DEF DayDone, DayIs
  <2>4. RetainedTo(d, k) = RetainedOf(d)
    BY <2>2 DEF RetainedTo, RetainedOf, KeptOf, Retains
  <2>5. Distinct(r)
    <3> SUFFICES ASSUME NEW i \in 1 .. Len(r), NEW j \in 1 .. Len(r), r[i] = r[j], i # j PROVE FALSE
      BY DEF Distinct
    <3>1. r \in Seq(KeptRows)
      BY <2>1 DEF KeptOk
    <3>2. r[i] \in KeptRows
      BY <3>1
    <3>3. r[i].index \in Nat
      BY <3>2 DEF KeptRows
    <3>4. i < j \/ j < i
      BY <3>1
    <3>5. r[i].index < r[j].index \/ r[j].index < r[i].index
      BY <2>1, <3>4 DEF KeptOk
    <3> QED BY <3>3, <3>5
  <2>6. Len(r) = Cardinality(ToSet(r)) /\ ToSet(r) = RetainedOf(d)
    BY <2>1, <2>4, <2>5, DistinctCount DEF KeptOk
  <2>7. ASSUME NEW h \in Horizons PROVE c.unavailable[h] = Min({h, k})
    <3>1. h \in Nat \ {0}
      BY LongestHorizon
    <3>2. c.unavailable[h] = Missing(h, k, k)
      BY <2>1, <2>2 DEF CountsOk
    <3>3. Min({h, k}) = IF h <= k THEN h ELSE k
      BY <2>2, <3>1, MinOfTwo
    <3> QED BY <2>2, <3>1, <3>2, <3>3 DEF Missing
  <2> QED BY <2>2, <2>3, <2>6, <2>7 DEF d, c, r, k
<1>2. building = "failed" =>
          \/ ~Usable /\ Checked /\ day = Len(Partitions)
          \/ ~OrderedRows(Today.snapshots) \/ ~OrderedRows(Today.events)
  BY DEF BuildInv
<1> QED BY <1>1, <1>2 DEF DatasetIsWhole

(* A complete dataset holds in each partition exactly the rows the filters  *)
(* leave of its day (splits.py), once and in message order, each with the   *)
(* labels of its own future in its own day (labels.py), and has counted     *)
(* every qualifying row and every label the day is too short for; the join  *)
(* never meets a feature without its label, and of the checks modelled a    *)
(* build fails only those for rows out of message order and for a partition *)
(* or a class without a row.                                                *)
THEOREM DatasetStaysWhole == RowsSpec => []DatasetIsWhole
<1>1. RowsInit => FlowInv /\ BuildInv
  BY FlowInvInit, BuildInvInit
<1>2. FlowInv /\ BuildInv /\ [RowsNext]_rowsVars => FlowInv' /\ BuildInv'
  BY FlowInvNext, BuildInvNext
<1>3. FlowInv /\ BuildInv => DatasetIsWhole
  BY BuildIsWhole DEF FlowInv
<1> QED BY <1>1, <1>2, <1>3, PTL DEF RowsSpec
=============================================================================
