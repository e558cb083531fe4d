------------------------------ MODULE DataLemmas ------------------------------
(***************************************************************************)
(* Facts about the data the modules are built from, which their proofs cite:*)
(* sums over finite sets, which the ledger and the book keep incrementally *)
(* and their invariants recompute; numbers; sequences, and what recursion  *)
(* over them computes.                                                     *)
(*                                                                         *)
(* An induction is a smallest counterexample: finite sets have one in a set*)
(* of subsets (Smallest), natural numbers have one (Least).                *)
(* SumFunctionOnSet is a fold, so a function defined by recursion on the   *)
(* subsets of its index set: SumStep is the recursion, SumDefined says that*)
(* the sum satisfies it, and SumInsert and SumRemove follow.               *)
(***************************************************************************)
EXTENDS Integers, SequencesExt, FiniteSetTheorems, SequenceTheorems, TLAPS

-----------------------------------------------------------------------------
(* A nonempty set of subsets of a finite set has a smallest element.        *)
LEMMA Smallest ==
    ASSUME NEW S, IsFiniteSet(S), NEW T \in SUBSET (SUBSET S), T # {}
    PROVE  \E x \in T : \A y \in T : y \subseteq x => y = x
<1>1. T \subseteq FiniteSubsetsOf(S)
  BY FS_FiniteSubsetsOfFinite
<1>2. \E x \in T : \A y \in T : <<y, x>> \notin StrictSubsetOrdering(S)
  BY <1>1, FS_StrictSubsetOrderingWellFounded, WFMin
<1> QED BY <1>2 DEF StrictSubsetOrdering

(* A nonempty set of natural numbers has a least element.                   *)
LEMMA Least ==
    ASSUME NEW N \in SUBSET Nat, N # {}
    PROVE  \E n \in N : \A m \in N : n <= m
<1>1. PICK k \in N : k \in Nat
  OBVIOUS
<1> DEFINE Lower == {m \in N : m <= k}
           T == {0 .. m : m \in Lower}
<1>2. IsFiniteSet(0 .. k)
  BY <1>1, FS_Interval
<1>3. T \in SUBSET (SUBSET (0 .. k)) /\ T # {}
  <2>1. ASSUME NEW m \in Lower PROVE 0 .. m \subseteq 0 .. k
    BY <1>1
  <2>2. k \in Lower
    BY <1>1
  <2> QED BY <2>1, <2>2
<1>4. PICK x \in T : \A y \in T : y \subseteq x => y = x
  <2> DEFINE U == 0 .. k
  <2> HIDE DEF U, T
  <2>1. IsFiniteSet(U) /\ T \in SUBSET (SUBSET U) /\ T # {}
    BY <1>2, <1>3 DEF U
  <2> QED BY ONLY <2>1, Smallest
<1> HIDE DEF T
<1>5. PICK n \in Lower : x = 0 .. n
  BY DEF T
<1>6. ASSUME NEW m \in N, m < n
      PROVE  FALSE
  <2>1. m \in Lower /\ m \in Nat /\ n \in Nat
    BY <1>1, <1>6
  <2>2. 0 .. m \in T
    BY <2>1 DEF T
  <2>3. 0 .. m \subseteq x /\ n \in x /\ n \notin 0 .. m
    BY <1>5, <1>6, <2>1
  <2> QED BY <1>4, <2>2, <2>3
<1> QED BY <1>5, <1>6, <1>1

-----------------------------------------------------------------------------
(* The recursion of SumFunctionOnSet. *)

Chosen(s) == CHOOSE x \in s : TRUE

SumStep(g, f, s) == IF s = {} THEN 0 ELSE f[Chosen(s)] + g[s \ {Chosen(s)}]

IsSumTable(g, f, S) == g = [s \in SUBSET S |-> SumStep(g, f, s)]

LEMMA SumIsRecursive ==
    ASSUME NEW f, NEW S
    PROVE  SumFunctionOnSet(f, S) = (CHOOSE g : IsSumTable(g, f, S))[S]
<1> QED BY DEF SumFunctionOnSet, FoldFunctionOnSet, MapThenFoldSet, IsSumTable, SumStep, Chosen

LEMMA ChosenIn == ASSUME NEW s, s # {} PROVE Chosen(s) \in s
<1> QED BY DEF Chosen

(* Two tables agree where both are defined. *)
LEMMA SumTablesAgree ==
    ASSUME NEW S, IsFiniteSet(S), NEW A \in SUBSET S, NEW B \in SUBSET S, NEW f, NEW g, NEW h,
           IsSumTable(g, f, A), IsSumTable(h, f, B)
    PROVE  \A s \in SUBSET (A \cap B) : g[s] = h[s]
<1> DEFINE T == {s \in SUBSET (A \cap B) : g[s] # h[s]}
<1>1. SUFFICES ASSUME T # {} PROVE FALSE
  OBVIOUS
<1>2. PICK x \in T : \A y \in T : y \subseteq x => y = x
  <2>1. T \in SUBSET (SUBSET S)
    OBVIOUS
  <2> HIDE DEF T
  <2> QED BY <1>1, <2>1, Smallest
<1>3. g[x] = SumStep(g, f, x) /\ h[x] = SumStep(h, f, x)
  BY DEF IsSumTable
<1>4. x # {}
  BY <1>3 DEF SumStep
<1>5. x \ {Chosen(x)} \notin T
  BY <1>2, <1>4, ChosenIn
<1>6. g[x \ {Chosen(x)}] = h[x \ {Chosen(x)}]
  BY <1>5
<1> QED BY <1>3, <1>4, <1>6 DEF SumStep

(* Every finite set has a table. *)
LEMMA SumTableExists ==
    ASSUME NEW S, IsFiniteSet(S), NEW f
    PROVE  \E g : IsSumTable(g, f, S)
<1> DEFINE Table(s) == CHOOSE g : IsSumTable(g, f, s)
           Has(s) == \E g : IsSumTable(g, f, s)
           T == {s \in SUBSET S : ~Has(s)}
<1>1. SUFFICES ASSUME T # {} PROVE FALSE
  OBVIOUS
<1>2. PICK t \in T : \A y \in T : y \subseteq t => y = t
  <2>1. T \in SUBSET (SUBSET S)
    OBVIOUS
  <2> HIDE DEF T
  <2> QED BY <1>1, <2>1, Smallest
<1> HIDE DEF Table
<1>3. \A s \in SUBSET t : s # t => IsSumTable(Table(s), f, s)
  BY <1>2 DEF Table
<1>4. ASSUME NEW s \in SUBSET t, s # t, NEW u \in SUBSET s
      PROVE  Table(s)[u] = Table(u)[u]
  <2>1. u # t /\ IsSumTable(Table(s), f, s) /\ IsSumTable(Table(u), f, u)
    BY <1>3, <1>4
  <2> QED BY <2>1, SumTablesAgree
<1> DEFINE last == IF t = {} THEN 0 ELSE f[Chosen(t)] + Table(t \ {Chosen(t)})[t \ {Chosen(t)}]
           h == [s \in SUBSET t |-> IF s = t THEN last ELSE Table(s)[s]]
<1>5. ASSUME NEW s \in SUBSET t
      PROVE  h[s] = SumStep(h, f, s)
  <2>1. CASE s = {}
    <3>1. CASE s = t
      BY <2>1, <3>1 DEF SumStep
    <3>2. CASE s # t
      BY <1>3, <2>1, <3>2 DEF SumStep, IsSumTable
    <3> QED BY <3>1, <3>2
  <2>2. CASE s # {}
    <3> DEFINE r == s \ {Chosen(s)}
    <3>1. r \in SUBSET s /\ r # s /\ r # t /\ r \in SUBSET t
      BY <2>2, ChosenIn
    <3>2. h[r] = Table(r)[r]
      BY <3>1
    <3>3. h[s] = f[Chosen(s)] + Table(r)[r]
      <4>1. CASE s = t
        BY <2>2, <4>1
      <4>2. CASE s # t
        <5>1. Table(s)[s] = f[Chosen(s)] + Table(s)[r]
          BY <1>3, <2>2, <4>2, <3>1 DEF IsSumTable, SumStep
        <5>2. Table(s)[r] = Table(r)[r]
          BY <1>4, <3>1, <4>2
        <5> QED BY <4>2, <5>1, <5>2
      <4> QED BY <4>1, <4>2
    <3> QED BY <2>2, <3>2, <3>3 DEF SumStep
  <2> QED BY <2>1, <2>2
<1>6. IsSumTable(h, f, t)
  BY <1>5 DEF IsSumTable
<1> QED BY <1>2, <1>6

(* The sum takes an arbitrary element, and then what is left. *)
LEMMA SumDefined ==
    ASSUME NEW S, IsFiniteSet(S), NEW f
    PROVE  SumFunctionOnSet(f, S) = IF S = {} THEN 0
                           ELSE f[Chosen(S)] + SumFunctionOnSet(f, S \ {Chosen(S)})
<1> DEFINE Table(s) == CHOOSE g : IsSumTable(g, f, s)
           r == S \ {Chosen(S)}
<1>1. IsFiniteSet(r) /\ r \in SUBSET S
  BY FS_Subset
<1>2. IsSumTable(Table(S), f, S) /\ IsSumTable(Table(r), f, r)
  BY <1>1, SumTableExists
<1>3. SumFunctionOnSet(f, S) = Table(S)[S] /\ SumFunctionOnSet(f, r) = Table(r)[r]
  BY SumIsRecursive
<1> HIDE DEF Table
<1>4. Table(S)[S] = SumStep(Table(S), f, S)
  BY <1>2 DEF IsSumTable
<1>5. Table(S)[r] = Table(r)[r]
  <2>1. r \in SUBSET (S \cap r)
    OBVIOUS
  <2> HIDE DEF r
  <2> QED BY <1>1, <1>2, <2>1, SumTablesAgree
<1> QED BY <1>3, <1>4, <1>5 DEF SumStep

LEMMA SumEmpty == ASSUME NEW f PROVE SumFunctionOnSet(f, {}) = 0
<1> QED BY SumDefined, FS_EmptySet

Summable(f, S) == IsFiniteSet(S) /\ \A x \in S : f[x] \in Int

LEMMA SumType ==
    ASSUME NEW f, NEW S, Summable(f, S)
    PROVE  SumFunctionOnSet(f, S) \in Int
<1> DEFINE T == {s \in SUBSET S : SumFunctionOnSet(f, s) \notin Int}
<1>1. SUFFICES ASSUME T # {} PROVE FALSE
  OBVIOUS
<1>2. IsFiniteSet(S) /\ T \in SUBSET (SUBSET S)
  BY DEF Summable
<1>3. PICK t \in T : \A y \in T : y \subseteq t => y = t
  <2> HIDE DEF T
  <2> QED BY <1>1, <1>2, Smallest
<1>4. IsFiniteSet(t)
  BY <1>2, FS_Subset
<1>5. SumFunctionOnSet(f, t) = IF t = {} THEN 0
                               ELSE f[Chosen(t)] + SumFunctionOnSet(f, t \ {Chosen(t)})
  BY <1>4, SumDefined
<1>6. CASE t = {}
  BY <1>5, <1>6
<1>7. CASE t # {}
  <2>1. Chosen(t) \in t /\ f[Chosen(t)] \in Int
    BY <1>7, ChosenIn DEF Summable
  <2>2. SumFunctionOnSet(f, t \ {Chosen(t)}) \in Int
    BY <1>3, <2>1
  <2> QED BY <1>5, <1>7, <2>1, <2>2
<1> QED BY <1>6, <1>7

(* The order in which elements are taken does not matter. *)
LEMMA SumRemove ==
    ASSUME NEW f, NEW S, Summable(f, S), NEW x \in S
    PROVE  SumFunctionOnSet(f, S) = f[x] + SumFunctionOnSet(f, S \ {x})
<1> DEFINE Good(s) == \A z \in s : SumFunctionOnSet(f, s) = f[z] + SumFunctionOnSet(f, s \ {z})
           T == {s \in SUBSET S : ~Good(s)}
<1>1. SUFFICES ASSUME T # {} PROVE FALSE
  OBVIOUS
<1>2. IsFiniteSet(S) /\ T \in SUBSET (SUBSET S)
  BY DEF Summable
<1>3. PICK t \in T : \A y \in T : y \subseteq t => y = t
  <2> HIDE DEF T
  <2> QED BY <1>1, <1>2, Smallest
<1>4. PICK z \in t : SumFunctionOnSet(f, t) # f[z] + SumFunctionOnSet(f, t \ {z})
  BY <1>3
<1>5. /\ SumFunctionOnSet(f, t) = f[Chosen(t)] + SumFunctionOnSet(f, t \ {Chosen(t)})
      /\ Chosen(t) \in t
  BY <1>2, <1>4, SumDefined, FS_Subset, ChosenIn
<1>6. z # Chosen(t)
  BY <1>4, <1>5
<1> DEFINE c == Chosen(t)
           rest == (t \ {c}) \ {z}
<1> HIDE DEF c
<1>7. SumFunctionOnSet(f, t \ {c}) = f[z] + SumFunctionOnSet(f, rest)
  <2>1. t \ {c} \in SUBSET S /\ t \ {c} \notin T /\ z \in t \ {c}
    BY <1>3, <1>5, <1>6 DEF c
  <2> QED BY <2>1
<1>8. SumFunctionOnSet(f, t \ {z}) = f[c] + SumFunctionOnSet(f, rest)
  <2>1. t \ {z} \in SUBSET S /\ t \ {z} \notin T /\ c \in t \ {z}
    BY <1>3, <1>4, <1>5, <1>6 DEF c
  <2>2. rest = (t \ {z}) \ {c}
    OBVIOUS
  <2> QED BY <2>1, <2>2
<1>9. f[z] \in Int /\ f[c] \in Int /\ SumFunctionOnSet(f, rest) \in Int
  <2>1. Summable(f, rest)
    BY <1>2, FS_Subset DEF Summable
  <2> QED BY <1>5, <2>1, SumType DEF Summable, c
<1> QED BY <1>4, <1>5, <1>7, <1>8, <1>9 DEF c

LEMMA SumInsert ==
    ASSUME NEW f, NEW S, Summable(f, S), NEW x, x \notin S, f[x] \in Int
    PROVE  SumFunctionOnSet(f, S \cup {x}) = f[x] + SumFunctionOnSet(f, S)
<1>1. Summable(f, S \cup {x})
  BY FS_AddElement DEF Summable
<1>2. (S \cup {x}) \ {x} = S
  OBVIOUS
<1> QED BY <1>1, <1>2, SumRemove

-----------------------------------------------------------------------------
(* Sums of related functions.  Pointwise relations carry over. *)

LEMMA SumLinear ==
    ASSUME NEW f, NEW g, NEW h, NEW S, Summable(f, S), Summable(g, S), Summable(h, S),
           \A x \in S : f[x] = g[x] + h[x]
    PROVE  SumFunctionOnSet(f, S) = SumFunctionOnSet(g, S) + SumFunctionOnSet(h, S)
<1> DEFINE T == {s \in SUBSET S :
                    SumFunctionOnSet(f, s) # SumFunctionOnSet(g, s) + SumFunctionOnSet(h, s)}
<1>1. SUFFICES ASSUME T # {} PROVE FALSE
  OBVIOUS
<1>2. IsFiniteSet(S) /\ T \in SUBSET (SUBSET S)
  BY DEF Summable
<1>3. PICK t \in T : \A y \in T : y \subseteq t => y = t
  <2> HIDE DEF T
  <2> QED BY <1>1, <1>2, Smallest
<1>4. PICK x \in t : TRUE
  <2>1. SumFunctionOnSet(f, {}) = SumFunctionOnSet(g, {}) + SumFunctionOnSet(h, {})
    BY SumEmpty
  <2>2. t # {}
    BY <1>3, <2>1
  <2> QED BY <2>2
<1> DEFINE r == t \ {x}
<1>5. SumFunctionOnSet(f, r) = SumFunctionOnSet(g, r) + SumFunctionOnSet(h, r)
  BY <1>3, <1>4
<1>6. /\ Summable(f, t) /\ Summable(g, t) /\ Summable(h, t)
      /\ Summable(f, r) /\ Summable(g, r) /\ Summable(h, r)
  BY FS_Subset DEF Summable
<1>7. /\ SumFunctionOnSet(f, t) = f[x] + SumFunctionOnSet(f, r)
      /\ SumFunctionOnSet(g, t) = g[x] + SumFunctionOnSet(g, r)
      /\ SumFunctionOnSet(h, t) = h[x] + SumFunctionOnSet(h, r)
  BY <1>4, <1>6, SumRemove
<1>8. /\ SumFunctionOnSet(g, r) \in Int /\ SumFunctionOnSet(h, r) \in Int
      /\ f[x] = g[x] + h[x] /\ g[x] \in Int /\ h[x] \in Int
  BY <1>6, SumType DEF Summable
<1> QED BY <1>3, <1>5, <1>7, <1>8

LEMMA SumSame ==
    ASSUME NEW f, NEW g, NEW S, IsFiniteSet(S), \A x \in S : f[x] = g[x]
    PROVE  SumFunctionOnSet(f, S) = SumFunctionOnSet(g, S)
<1> DEFINE T == {s \in SUBSET S : SumFunctionOnSet(f, s) # SumFunctionOnSet(g, s)}
<1>1. SUFFICES ASSUME T # {} PROVE FALSE
  OBVIOUS
<1>2. T \in SUBSET (SUBSET S)
  OBVIOUS
<1>3. PICK t \in T : \A y \in T : y \subseteq t => y = t
  <2> HIDE DEF T
  <2> QED BY <1>1, <1>2, Smallest
<1>4. IsFiniteSet(t)
  BY <1>2, FS_Subset
<1>5. t # {}
  BY <1>3, SumEmpty
<1>6. /\ SumFunctionOnSet(f, t) = f[Chosen(t)] + SumFunctionOnSet(f, t \ {Chosen(t)})
      /\ SumFunctionOnSet(g, t) = g[Chosen(t)] + SumFunctionOnSet(g, t \ {Chosen(t)})
      /\ Chosen(t) \in t
  BY <1>4, <1>5, SumDefined, ChosenIn
<1>7. SumFunctionOnSet(f, t \ {Chosen(t)}) = SumFunctionOnSet(g, t \ {Chosen(t)})
  BY <1>3, <1>6
<1> QED BY <1>3, <1>6, <1>7

LEMMA SumZero ==
    ASSUME NEW f, NEW S, IsFiniteSet(S), \A x \in S : f[x] = 0
    PROVE  SumFunctionOnSet(f, S) = 0
<1>1. Summable(f, S)
  BY DEF Summable
<1>2. SumFunctionOnSet(f, S) = SumFunctionOnSet(f, S) + SumFunctionOnSet(f, S)
  BY <1>1, SumLinear
<1> QED BY <1>1, <1>2, SumType

(* One term changes. *)
LEMMA SumChange ==
    ASSUME NEW f, NEW g, NEW S, Summable(f, S), Summable(g, S), NEW x \in S,
           \A y \in S \ {x} : g[y] = f[y]
    PROVE  SumFunctionOnSet(g, S) = SumFunctionOnSet(f, S) + (g[x] - f[x])
<1>1. /\ SumFunctionOnSet(f, S) = f[x] + SumFunctionOnSet(f, S \ {x})
      /\ SumFunctionOnSet(g, S) = g[x] + SumFunctionOnSet(g, S \ {x})
  BY SumRemove
<1>2. IsFiniteSet(S \ {x}) /\ Summable(f, S \ {x})
  BY FS_Subset DEF Summable
<1>3. SumFunctionOnSet(g, S \ {x}) = SumFunctionOnSet(f, S \ {x})
  BY <1>2, SumSame
<1>4. SumFunctionOnSet(f, S \ {x}) \in Int
  BY <1>2, SumType
<1> QED BY <1>1, <1>3, <1>4 DEF Summable

LEMMA SumNat ==
    ASSUME NEW f, NEW S, IsFiniteSet(S), \A x \in S : f[x] \in Nat
    PROVE  /\ SumFunctionOnSet(f, S) \in Nat
           /\ \A x \in S : f[x] <= SumFunctionOnSet(f, S)
<1>1. Summable(f, S)
  BY DEF Summable
<1> DEFINE T == {s \in SUBSET S : SumFunctionOnSet(f, s) \notin Nat}
<1>2. T = {}
  <2>1. SUFFICES ASSUME T # {} PROVE FALSE
    OBVIOUS
  <2>2. T \in SUBSET (SUBSET S)
    OBVIOUS
  <2>3. PICK t \in T : \A y \in T : y \subseteq t => y = t
    <3> HIDE DEF T
    <3> QED BY <2>1, <2>2, Smallest
  <2>4. PICK x \in t : TRUE
    <3>1. SumFunctionOnSet(f, {}) \in Nat
      BY SumEmpty
    <3>2. t # {}
      BY <2>3, <3>1
    <3> QED BY <3>2
  <2>5. SumFunctionOnSet(f, t) = f[x] + SumFunctionOnSet(f, t \ {x})
    <3>1. Summable(f, t)
      BY <1>1, FS_Subset DEF Summable
    <3> QED BY <2>4, <3>1, SumRemove
  <2>6. SumFunctionOnSet(f, t \ {x}) \in Nat
    BY <2>3, <2>4
  <2> QED BY <2>3, <2>5, <2>6
<1>3. ASSUME NEW x \in S
      PROVE  f[x] <= SumFunctionOnSet(f, S)
  <2>1. SumFunctionOnSet(f, S) = f[x] + SumFunctionOnSet(f, S \ {x})
    BY <1>1, SumRemove
  <2>2. SumFunctionOnSet(f, S \ {x}) \in Nat
    BY <1>2
  <2> QED BY <2>1, <2>2
<1> QED BY <1>2, <1>3

(* Zero terms can be left out. *)
LEMMA SumOfPart ==
    ASSUME NEW f, NEW S, Summable(f, S), NEW Z \in SUBSET S, \A x \in S \ Z : f[x] = 0
    PROVE  SumFunctionOnSet(f, S) = SumFunctionOnSet(f, Z)
<1> DEFINE T == {s \in SUBSET S : SumFunctionOnSet(f, s) # SumFunctionOnSet(f, s \cap Z)}
<1>1. SUFFICES ASSUME T # {} PROVE FALSE
  <2>1. S \cap Z = Z
    OBVIOUS
  <2> QED BY <2>1
<1>2. IsFiniteSet(S) /\ T \in SUBSET (SUBSET S)
  BY DEF Summable
<1>3. PICK t \in T : \A y \in T : y \subseteq t => y = t
  <2> HIDE DEF T
  <2> QED BY <1>1, <1>2, Smallest
<1>4. PICK x \in t : TRUE
  <2>1. t # {}
    BY <1>3
  <2> QED BY <2>1
<1> DEFINE r == t \ {x}
<1>5. SumFunctionOnSet(f, r) = SumFunctionOnSet(f, r \cap Z)
  BY <1>3, <1>4
<1>6. /\ Summable(f, t) /\ Summable(f, t \cap Z)
      /\ Summable(f, r \cap Z)
  BY <1>2, FS_Subset DEF Summable
<1>7. SumFunctionOnSet(f, t) = f[x] + SumFunctionOnSet(f, r)
  BY <1>4, <1>6, SumRemove
<1>8. SumFunctionOnSet(f, r \cap Z) \in Int
  BY <1>6, SumType
<1>9. CASE x \in Z
  <2>1. (t \cap Z) \ {x} = r \cap Z
    OBVIOUS
  <2>2. SumFunctionOnSet(f, t \cap Z) = f[x] + SumFunctionOnSet(f, r \cap Z)
    BY <1>6, <1>9, <2>1, SumRemove
  <2> QED BY <1>3, <1>5, <1>7, <2>2
<1>10. CASE x \notin Z
  <2>1. t \cap Z = r \cap Z /\ f[x] = 0
    BY <1>10
  <2> QED BY <1>3, <1>5, <1>7, <1>8, <2>1
<1> QED BY <1>9, <1>10

LEMMA SumNext ==
    ASSUME NEW f, NEW S, Summable(f, S), NEW x, x \notin S, f[x] \in Int,
           NEW Z, Z = S \cup {x}
    PROVE  Summable(f, Z) /\ SumFunctionOnSet(f, Z) = SumFunctionOnSet(f, S) + f[x]
<1>1. Summable(f, Z)
  BY FS_AddElement DEF Summable
<1>2. SumFunctionOnSet(f, S) \in Int
  BY SumType
<1> QED BY <1>1, <1>2, SumInsert

LEMMA SumFour ==
    ASSUME NEW f, f[1] \in Int, f[2] \in Int, f[3] \in Int, f[4] \in Int
    PROVE  SumFunctionOnSet(f, {1, 2, 3, 4}) = f[1] + f[2] + f[3] + f[4]
<1>1. Summable(f, {}) /\ SumFunctionOnSet(f, {}) = 0
  BY FS_EmptySet, SumEmpty DEF Summable
<1>2. /\ {1} = {} \cup {1} /\ {1, 2} = {1} \cup {2}
      /\ {1, 2, 3} = {1, 2} \cup {3} /\ {1, 2, 3, 4} = {1, 2, 3} \cup {4}
      /\ 1 \notin {} /\ 2 \notin {1} /\ 3 \notin {1, 2} /\ 4 \notin {1, 2, 3}
  OBVIOUS
<1>3. Summable(f, {1}) /\ SumFunctionOnSet(f, {1}) = f[1]
  BY <1>1, <1>2, SumNext
<1>4. Summable(f, {1, 2}) /\ SumFunctionOnSet(f, {1, 2}) = f[1] + f[2]
  BY <1>2, <1>3, SumNext
<1>5. Summable(f, {1, 2, 3}) /\ SumFunctionOnSet(f, {1, 2, 3}) = f[1] + f[2] + f[3]
  BY <1>2, <1>4, SumNext
<1> QED BY <1>2, <1>5, SumNext

(* A sum over positions is the sum over what stands there. *)
LEMMA SumReindexed ==
    ASSUME NEW I, IsFiniteSet(I), NEW q, \A i, j \in I : q[i] = q[j] => i = j,
           NEW f, NEW g, \A i \in I : g[i] = f[q[i]] /\ f[q[i]] \in Int
    PROVE  SumFunctionOnSet(g, I) = SumFunctionOnSet(f, {q[i] : i \in I})
<1> DEFINE Image(s) == {q[i] : i \in s}
           T == {s \in SUBSET I : SumFunctionOnSet(g, s) # SumFunctionOnSet(f, Image(s))}
<1>1. SUFFICES ASSUME T # {} PROVE FALSE
  OBVIOUS
<1>2. T \in SUBSET (SUBSET I)
  OBVIOUS
<1>3. PICK t \in T : \A y \in T : y \subseteq t => y = t
  <2> HIDE DEF T
  <2> QED BY <1>1, <1>2, Smallest
<1>4. PICK x \in t : TRUE
  <2>1. Image({}) = {} /\ SumFunctionOnSet(g, {}) = SumFunctionOnSet(f, {})
    BY SumEmpty
  <2>2. t # {}
    BY <1>3, <2>1
  <2> QED BY <2>2
<1> DEFINE r == t \ {x}
<1>5. SumFunctionOnSet(g, r) = SumFunctionOnSet(f, Image(r))
  BY <1>3, <1>4
<1>6. /\ Summable(g, t) /\ Summable(f, Image(t))
      /\ Image(t) \ {q[x]} = Image(r) /\ q[x] \in Image(t)
  <2>1. IsFiniteSet(t)
    BY <1>2, FS_Subset
  <2>2. IsFiniteSet(Image(t))
    <3> DEFINE onto == [i \in t |-> q[i]]
    <3>1. onto \in Surjection(t, Image(t))
      BY DEF Surjection
    <3> HIDE DEF onto, Image
    <3> QED BY <2>1, <3>1, FS_Surjection
  <2> QED BY <1>4, <2>1, <2>2 DEF Summable
<1>7. SumFunctionOnSet(g, t) = g[x] + SumFunctionOnSet(g, r)
  BY <1>4, <1>6, SumRemove
<1>8. SumFunctionOnSet(f, Image(t)) = f[q[x]] + SumFunctionOnSet(f, Image(r))
  <2> HIDE DEF Image
  <2> QED BY <1>6, SumRemove
<1> QED BY <1>3, <1>4, <1>5, <1>7, <1>8

-----------------------------------------------------------------------------
(* A finite set of numbers in ascending order.                              *)

LEMMA Largest ==
    ASSUME NEW S, S \subseteq Int, IsFiniteSet(S), S # {}
    PROVE  \E m \in S : \A x \in S : x <= m
<1> DEFINE Above(x) == {y \in S : y >= x}
           T == {Above(x) : x \in S}
<1>1. IsFiniteSet(S) /\ T \in SUBSET (SUBSET S) /\ T # {}
  OBVIOUS
<1>2. PICK t \in T : \A y \in T : y \subseteq t => y = t
  <2> HIDE DEF T
  <2> QED BY ONLY <1>1, Smallest
<1>3. PICK m \in S : t = Above(m)
  OBVIOUS
<1>4. ASSUME NEW x \in S, x > m PROVE FALSE
  <2>1. m \in Int /\ x \in Int
    OBVIOUS
  <2>2. \A y \in S : y \in Int
    OBVIOUS
  <2>3. m \in Above(m) /\ m \notin Above(x)
    BY <1>4, <2>1
  <2>5. ASSUME NEW y \in S, y >= x PROVE y >= m
    BY <1>4, <2>1, <2>2, <2>5
  <2>4. Above(x) \in T
    OBVIOUS
  <2> QED BY <1>2, <1>3, <2>3, <2>4, <2>5
<1>5. \A x \in S : ~(x > m)
  BY <1>4
<1> QED BY <1>5

Ascends(q, S) ==
    /\ q \in [1 .. Cardinality(S) -> S]
    /\ \A x \in S : \E i \in DOMAIN q : q[i] = x
    /\ \A i, j \in DOMAIN q : i < j => q[i] < q[j]

LEMMA AscendingExists ==
    ASSUME NEW S, S \subseteq Int, IsFiniteSet(S)
    PROVE  \E q : Ascends(q, S)
<1> DEFINE T == {s \in SUBSET S : \A q : ~Ascends(q, s)}
<1>1. SUFFICES ASSUME T # {} PROVE FALSE
  OBVIOUS
<1>2. IsFiniteSet(S) /\ T \in SUBSET (SUBSET S) /\ T # {}
  BY <1>1
<1>3. PICK t \in T : \A y \in T : y \subseteq t => y = t
  <2> HIDE DEF T
  <2> QED BY ONLY <1>2, Smallest
<1>4. t # {}
  <2>1. Cardinality({}) = 0
    BY FS_EmptySet
  <2>2. Ascends(<<>>, {})
    BY <2>1 DEF Ascends
  <2> QED BY <1>3, <2>2
<1>5. IsFiniteSet(t) /\ Cardinality(t) \in Nat
  BY FS_Subset, FS_CardinalityType
<1>6. PICK m \in t : \A x \in t : x <= m
  BY <1>4, <1>5, Largest
<1> DEFINE r == t \ {m}
<1>7. PICK n \in Nat : n = Cardinality(t)
  BY <1>5
<1>8. n >= 1 /\ Cardinality(r) = n - 1
  BY <1>4, <1>5, <1>6, <1>7, FS_RemoveElement, FS_EmptySet
<1>9. PICK p : Ascends(p, r)
  <2>1. r \in SUBSET S /\ r \subseteq t /\ r # t
    OBVIOUS
  <2>2. r \notin T
    BY <1>3, <2>1
  <2> QED BY <2>1, <2>2
<1>10. /\ p \in [1 .. n - 1 -> r]
       /\ \A x \in r : \E i \in 1 .. n - 1 : p[i] = x
       /\ \A i, j \in 1 .. n - 1 : i < j => p[i] < p[j]
  BY <1>8, <1>9 DEF Ascends
<1> DEFINE q == [i \in 1 .. n |-> IF i = n THEN m ELSE p[i]]
<1>11. q \in [1 .. n -> t]
  <2>1. ASSUME NEW i \in 1 .. n PROVE q[i] \in t
    BY <1>7, <1>8, <1>10
  <2> QED BY <2>1
<1>12. ASSUME NEW x \in t PROVE \E i \in 1 .. n : q[i] = x
  <2>1. CASE x = m
    BY <1>7, <1>8, <2>1
  <2>2. CASE x # m
    <3>1. PICK i \in 1 .. n - 1 : p[i] = x
      BY <1>10, <2>2
    <3>2. i \in 1 .. n /\ i # n
      BY <1>7, <1>8
    <3> QED BY <3>1, <3>2
  <2> QED BY <2>1, <2>2
<1>13. ASSUME NEW i \in 1 .. n, NEW j \in 1 .. n, i < j PROVE q[i] < q[j]
  <2>1. i \in 1 .. n - 1 /\ q[i] = p[i]
    BY <1>7, <1>8, <1>13
  <2>2. CASE j = n
    <3>1. p[i] \in r /\ p[i] \in Int /\ m \in Int
      BY <1>10, <2>1
    <3>2. q[j] = m /\ p[i] # m /\ p[i] <= m
      BY <1>6, <2>2, <3>1
    <3> QED BY <2>1, <3>1, <3>2
  <2>3. CASE j # n
    <3>1. j \in 1 .. n - 1 /\ q[j] = p[j]
      BY <1>7, <1>8, <2>3
    <3> QED BY <1>10, <1>13, <2>1, <3>1
  <2> QED BY <2>2, <2>3
<1>14. Ascends(q, t)
  <2>1. DOMAIN q = 1 .. Cardinality(t)
    BY <1>7
  <2> HIDE DEF q
  <2> QED BY <1>7, <1>11, <1>12, <1>13, <2>1 DEF Ascends
<1> QED BY <1>3, <1>14

-----------------------------------------------------------------------------
(* Numbers. *)

LEMMA MinOfTwo ==
    ASSUME NEW a \in Int, NEW b \in Int
    PROVE  Min({a, b}) = IF a <= b THEN a ELSE b
<1> DEFINE m == IF a <= b THEN a ELSE b
<1>1. m \in {a, b} /\ \A x \in {a, b} : m <= x
  OBVIOUS
<1>2. \A x \in {a, b} : (\A y \in {a, b} : x <= y) => x = m
  OBVIOUS
<1> HIDE DEF m
<1> QED BY <1>1, <1>2 DEF Min, m

LEMMA Division ==
    ASSUME NEW a \in Int, NEW d \in Nat, d > 0
    PROVE  a \div d \in Int /\ (a \div d) * d <= a /\ a < (a \div d) * d + d
<1> QED OBVIOUS

LEMMA Scaled ==
    ASSUME NEW t \in Int, NEW u \in Int, NEW d \in Nat, d > 0
    PROVE  /\ t * d \in Int /\ u * d \in Int
           /\ t <= u => t * d <= u * d
           /\ t < u => t * d < u * d
           /\ (t + 1) * d = t * d + d
<1> QED OBVIOUS

LEMMA MinOfThree ==
    ASSUME NEW a \in Int, NEW b \in Int, NEW c \in Int
    PROVE  Min({a, b, c}) \in Int /\ Min({a, b, c}) <= b /\ Min({a, b, c}) <= c
<1> DEFINE S == {a, b, c}
<1>1. \E x \in S : \A y \in S : x <= y
  OBVIOUS
<1>2. Min(S) \in S /\ \A y \in S : Min(S) <= y
  BY <1>1 DEF Min
<1>3. b \in S /\ c \in S /\ \A x \in S : x \in Int
  OBVIOUS
<1> HIDE DEF S
<1> QED BY <1>2, <1>3 DEF S

LEMMA MaxOfThree ==
    ASSUME NEW a \in Int, NEW b \in Int, NEW c \in Int
    PROVE  Max({a, b, c}) \in Int /\ Max({a, b, c}) >= b /\ Max({a, b, c}) >= c
<1> DEFINE S == {a, b, c}
<1>1. \E x \in S : \A y \in S : x >= y
  OBVIOUS
<1>2. Max(S) \in S /\ \A y \in S : Max(S) >= y
  BY <1>1 DEF Max
<1>3. b \in S /\ c \in S /\ \A x \in S : x \in Int
  OBVIOUS
<1> HIDE DEF S
<1> QED BY <1>2, <1>3 DEF S

-----------------------------------------------------------------------------
(* Sequences. *)

LEMMA SequencesEqual ==
    ASSUME NEW S, NEW s \in Seq(S), NEW T, NEW t \in Seq(T), Len(s) = Len(t),
           \A i \in 1 .. Len(s) : s[i] = t[i]
    PROVE  s = t
<1>1. s = [i \in 1 .. Len(s) |-> s[i]] /\ t = [i \in 1 .. Len(t) |-> t[i]]
  OBVIOUS
<1> QED BY <1>1

LEMMA RemovedAt ==
    ASSUME NEW S, NEW s \in Seq(S), NEW p \in 1 .. Len(s)
    PROVE  /\ RemoveAt(s, p) \in Seq(S) /\ Len(RemoveAt(s, p)) = Len(s) - 1
           /\ \A j \in 1 .. Len(s) - 1 :
                 RemoveAt(s, p)[j] = IF j < p THEN s[j] ELSE s[j + 1]
<1> DEFINE a == SubSeq(s, 1, p - 1)
           b == SubSeq(s, p + 1, Len(s))
<1>1. /\ Len(s) \in Nat /\ p \in Nat
      /\ a \in Seq(S) /\ b \in Seq(S) /\ Len(a) = p - 1 /\ Len(b) = Len(s) - p
      /\ \A j \in 1 .. p - 1 : a[j] = s[j]
      /\ \A j \in 1 .. Len(s) - p : b[j] = s[p + j]
  OBVIOUS
<1>2. RemoveAt(s, p) = a \o b
  BY DEF RemoveAt
<1> HIDE DEF a, b
<1>3. a \o b \in Seq(S) /\ Len(a \o b) = Len(s) - 1
  <2>1. a \o b \in Seq(S) /\ Len(a \o b) = Len(a) + Len(b)
    BY <1>1, ConcatProperties
  <2> QED BY <1>1, <2>1
<1>4. ASSUME NEW j \in 1 .. Len(s) - 1
      PROVE  (a \o b)[j] = IF j < p THEN s[j] ELSE s[j + 1]
  <2>1. CASE j < p
    BY <1>1, <2>1
  <2>2. CASE ~(j < p)
    <3>1. (a \o b)[j] = b[j - (p - 1)]
      BY <1>1, <2>2
    <3>2. b[j - (p - 1)] = s[j + 1]
      <4>1. j - (p - 1) \in 1 .. Len(s) - p /\ p + (j - (p - 1)) = j + 1
        BY <1>1, <2>2
      <4> QED BY <1>1, <4>1
    <3> QED BY <2>2, <3>1, <3>2
  <2> QED BY <2>1, <2>2
<1> QED BY <1>2, <1>3, <1>4

LEMMA Appended ==
    ASSUME NEW S, NEW s \in Seq(S), NEW x \in S
    PROVE  /\ Append(s, x) \in Seq(S) /\ Len(Append(s, x)) = Len(s) + 1
           /\ Append(s, x)[Len(s) + 1] = x
           /\ \A i \in 1 .. Len(s) : Append(s, x)[i] = s[i]
           /\ ToSet(Append(s, x)) = ToSet(s) \cup {x}
<1>1. /\ Append(s, x) \in Seq(S) /\ Len(Append(s, x)) = Len(s) + 1 /\ Len(s) \in Nat
      /\ Append(s, x)[Len(s) + 1] = x
      /\ \A i \in 1 .. Len(s) : Append(s, x)[i] = s[i]
  OBVIOUS
<1>2. ToSet(Append(s, x)) = ToSet(s) \cup {x}
  <2>1. ASSUME NEW i \in 1 .. Len(s) + 1 PROVE Append(s, x)[i] \in ToSet(s) \cup {x}
    <3>1. i \in 1 .. Len(s) \/ i = Len(s) + 1
      BY <1>1
    <3> QED BY <1>1, <3>1 DEF ToSet
  <2>2. ASSUME NEW i \in 1 .. Len(s) PROVE s[i] \in ToSet(Append(s, x))
    <3>1. i \in 1 .. Len(Append(s, x)) /\ Append(s, x)[i] = s[i]
      BY <1>1
    <3> QED BY <1>1, <3>1 DEF ToSet
  <2>3. x \in ToSet(Append(s, x))
    <3>1. Len(s) + 1 \in 1 .. Len(Append(s, x))
      BY <1>1
    <3> QED BY <1>1, <3>1 DEF ToSet
  <2> QED BY <1>1, <2>1, <2>2, <2>3 DEF ToSet
<1> QED BY <1>1, <1>2

LEMMA ConcatThree ==
    ASSUME NEW a \in Seq(Nat), NEW b \in Seq(Nat), NEW c \in Seq(Nat)
    PROVE  (a \o b) \o c = a \o (b \o c)
<1> DEFINE l == (a \o b) \o c
           r == a \o (b \o c)
<1>1. /\ l \in Seq(Nat) /\ r \in Seq(Nat) /\ Len(l) = Len(a) + Len(b) + Len(c)
      /\ Len(r) = Len(l) /\ Len(a) \in Nat /\ Len(b) \in Nat /\ Len(c) \in Nat
  OBVIOUS
<1>2. ASSUME NEW i \in 1 .. Len(l) PROVE l[i] = r[i]
  <2>1. CASE i <= Len(a)
    BY <1>1, <2>1
  <2>2. CASE i > Len(a) /\ i <= Len(a) + Len(b)
    BY <1>1, <2>2
  <2>3. CASE i > Len(a) + Len(b)
    BY <1>1, <2>3
  <2> QED BY <1>1, <2>1, <2>2, <2>3
<1> HIDE DEF l, r
<1>3. l = [i \in 1 .. Len(l) |-> l[i]] /\ r = [i \in 1 .. Len(r) |-> r[i]]
  BY <1>1
<1>4. l = r
  BY <1>1, <1>2, <1>3
<1> QED BY <1>4 DEF l, r

LEMMA Listed ==
    ASSUME NEW S, NEW p, NEW m \in Nat, \A i \in 1 .. m : p[i] \in S
    PROVE  /\ [i \in 1 .. m |-> p[i]] \in Seq(S) /\ Len([i \in 1 .. m |-> p[i]]) = m
           /\ \A i \in 1 .. m : [j \in 1 .. m |-> p[j]][i] = p[i]
<1> QED OBVIOUS

LEMMA AppendConcat ==
    ASSUME NEW a \in Seq(Nat), NEW b \in Seq(Nat), NEW x \in Nat
    PROVE  Append(a \o b, x) = a \o Append(b, x)
<1> DEFINE l == Append(a \o b, x)
           r == a \o Append(b, x)
<1>1. /\ l \in Seq(Nat) /\ r \in Seq(Nat) /\ Len(l) = Len(a) + Len(b) + 1 /\ Len(r) = Len(l)
      /\ Len(a) \in Nat /\ Len(b) \in Nat
  OBVIOUS
<1>2. ASSUME NEW i \in 1 .. Len(l) PROVE l[i] = r[i]
  <2>1. CASE i <= Len(a)
    BY <1>1, <2>1
  <2>2. CASE i > Len(a) /\ i <= Len(a) + Len(b)
    BY <1>1, <2>2
  <2>3. CASE i = Len(a) + Len(b) + 1
    BY <1>1, <2>3
  <2> QED BY <1>1, <2>1, <2>2, <2>3
<1> HIDE DEF l, r
<1>3. l = [i \in 1 .. Len(l) |-> l[i]] /\ r = [i \in 1 .. Len(r) |-> r[i]]
  BY <1>1
<1>4. l = r
  BY <1>1, <1>2, <1>3
<1> QED BY <1>4 DEF l, r

(* Without repetition. *)
Distinct(q) == \A i, j \in 1 .. Len(q) : q[i] = q[j] => i = j

LEMMA DistinctCount ==
    ASSUME NEW S, NEW q \in Seq(S), Distinct(q)
    PROVE  Cardinality(ToSet(q)) = Len(q)
<1>1. Len(q) \in Nat /\ DOMAIN q = 1 .. Len(q)
  OBVIOUS
<1>2. q \in [1 .. Len(q) -> ToSet(q)]
  BY <1>1 DEF ToSet
<1>3. q \in Bijection(1 .. Len(q), ToSet(q))
  BY <1>1, <1>2 DEF Bijection, Injection, Surjection, IsInjective, Distinct, ToSet
<1> QED BY <1>1, <1>3, FS_CountingElements DEF ExistsBijection

(* What is left of a sequence without one of its elements.                  *)
LeftOf(q, w, n, S) ==
    /\ w \in Seq(S) /\ Len(w) = n /\ Distinct(w)
    /\ \A i \in 1 .. Len(w) : \E j \in 1 .. Len(q) : w[i] = q[j]

LEMMA RemovedFirst ==
    ASSUME NEW S, NEW q \in Seq(S), Distinct(q), NEW x, Contains(q, x)
    PROVE  /\ LeftOf(q, RemoveFirst(q, x), Len(q) - 1, S)
           /\ ~Contains(RemoveFirst(q, x), x)
<1> DEFINE I == {i \in 1 .. Len(q) : q[i] = x}
<1>1. PICK k \in 1 .. Len(q) : q[k] = x
  BY DEF Contains
<1>2. I = {k}
  BY <1>1 DEF Distinct
<1>3. Min(I) = k
  <2>1. k \in {k} /\ \A y \in {k} : k <= y
    OBVIOUS
  <2>2. \A y \in {k} : y = k
    OBVIOUS
  <2> HIDE DEF I
  <2> QED BY <1>2, <2>1, <2>2 DEF Min
<1>4. RemoveFirst(q, x) = RemoveAt(q, k)
  <2>1. SelectInSeq(q, LAMBDA v : v = x) = k
    BY <1>2, <1>3 DEF SelectInSeq
  <2> QED BY <1>1, <2>1 DEF RemoveFirst
<1> DEFINE w == RemoveAt(q, k)
<1>5. /\ w \in Seq(S) /\ Len(w) = Len(q) - 1
      /\ \A j \in 1 .. Len(q) - 1 : w[j] = IF j < k THEN q[j] ELSE q[j + 1]
  BY <1>1, RemovedAt
<1> HIDE DEF w, I
<1>6. Len(q) \in Nat /\ k \in Nat
  BY <1>1
<1>7. ASSUME NEW i \in 1 .. Len(w)
      PROVE  \E j \in 1 .. Len(q) : w[i] = q[j] /\ j # k /\ j = IF i < k THEN i ELSE i + 1
  <2>1. CASE i < k
    BY <1>5, <1>6, <2>1
  <2>2. CASE ~(i < k)
    <3>1. i + 1 \in 1 .. Len(q) /\ i + 1 # k /\ w[i] = q[i + 1]
      BY <1>5, <1>6, <2>2
    <3> QED BY <2>2, <3>1
  <2> QED BY <2>1, <2>2
<1>8. Distinct(w)
  <2> SUFFICES ASSUME NEW i \in 1 .. Len(w), NEW j \in 1 .. Len(w), w[i] = w[j] PROVE i = j
    BY DEF Distinct
  <2>1. PICK a \in 1 .. Len(q) : w[i] = q[a] /\ a = IF i < k THEN i ELSE i + 1
    BY <1>7
  <2>2. PICK b \in 1 .. Len(q) : w[j] = q[b] /\ b = IF j < k THEN j ELSE j + 1
    BY <1>7
  <2>3. a = b
    BY <2>1, <2>2 DEF Distinct
  <2> QED BY <1>5, <1>6, <2>1, <2>2, <2>3
<1>9. ~Contains(w, x)
  <2> SUFFICES ASSUME NEW i \in 1 .. Len(w), w[i] = x PROVE FALSE
    BY DEF Contains
  <2>1. PICK a \in 1 .. Len(q) : w[i] = q[a] /\ a # k
    BY <1>7
  <2> QED BY <1>1, <2>1 DEF Distinct
<1>10. LeftOf(q, w, Len(q) - 1, S)
  BY <1>5, <1>7, <1>8 DEF LeftOf
<1> QED BY <1>4, <1>9, <1>10 DEF w

LEMMA TailLeft ==
    ASSUME NEW S, NEW q \in Seq(S), Distinct(q), Len(q) > 0
    PROVE  LeftOf(q, Tail(q), Len(q) - 1, S)
<1>1. /\ Tail(q) \in Seq(S) /\ Len(Tail(q)) = Len(q) - 1 /\ Len(q) \in Nat
      /\ \A i \in 1 .. Len(q) - 1 : Tail(q)[i] = q[i + 1]
  OBVIOUS
<1> DEFINE w == Tail(q)
<1> HIDE DEF w
<1>2. ASSUME NEW i \in 1 .. Len(w) PROVE i + 1 \in 1 .. Len(q) /\ w[i] = q[i + 1]
  BY <1>1 DEF w
<1>3. Distinct(w)
  <2> SUFFICES ASSUME NEW i \in 1 .. Len(w), NEW j \in 1 .. Len(w), w[i] = w[j] PROVE i = j
    BY DEF Distinct
  <2>1. i + 1 = j + 1
    BY <1>2 DEF Distinct
  <2> QED BY <1>1, <2>1 DEF w
<1>4. LeftOf(q, w, Len(q) - 1, S)
  BY <1>1, <1>2, <1>3 DEF LeftOf, w
<1> QED BY <1>4 DEF w

-----------------------------------------------------------------------------
(* Functions defined by recursion on 0 .. n: G[i] makes the value at i of   *)
(* the value at i - 1.                                                      *)

Recursive(f, V, base, G, n) ==
    /\ f \in [0 .. n -> V] /\ f[0] = base
    /\ \A i \in 1 .. n : f[i] = G[i][f[i - 1]]

Steps(V, G) == \A i \in Nat : G[i] \in [V -> V]

LEMMA RecursionExists ==
    ASSUME NEW V, NEW base \in V, NEW G, Steps(V, G), NEW n \in Nat
    PROVE  \E f : Recursive(f, V, base, G, n)
<1> DEFINE T == {k \in Nat : ~\E f : Recursive(f, V, base, G, k)}
<1>1. SUFFICES ASSUME T # {} PROVE FALSE
  OBVIOUS
<1>2. PICK k \in T : \A m \in T : k <= m
  <2>1. T \in SUBSET Nat
    OBVIOUS
  <2> HIDE DEF T
  <2> QED BY <1>1, <2>1, Least
<1>3. k \in Nat /\ ~\E f : Recursive(f, V, base, G, k)
  OBVIOUS
<1>4. CASE k = 0
  <2>1. Recursive([i \in 0 .. 0 |-> base], V, base, G, 0)
    BY DEF Recursive
  <2> QED BY <1>3, <1>4, <2>1
<1>5. CASE k # 0
  <2>1. k - 1 \in Nat /\ k - 1 \notin T
    BY <1>2, <1>3, <1>5
  <2>2. PICK f : Recursive(f, V, base, G, k - 1)
    BY <2>1
  <2> DEFINE h == [i \in 0 .. k |-> IF i = k THEN G[k][f[k - 1]] ELSE f[i]]
  <2>3. f[k - 1] \in V /\ G[k][f[k - 1]] \in V /\ k - 1 \in 0 .. k - 1
    <3>1. f[k - 1] \in V
      BY <1>3, <1>5, <2>2 DEF Recursive
    <3>2. G[k] \in [V -> V]
      BY <1>3 DEF Steps
    <3> QED BY <1>3, <1>5, <3>1, <3>2
  <2>4. h \in [0 .. k -> V]
    <3>1. ASSUME NEW i \in 0 .. k PROVE h[i] \in V
      <4>1. CASE i = k
        BY <2>3, <4>1
      <4>2. CASE i # k
        <5>1. i \in 0 .. k - 1
          BY <1>3, <4>2
        <5> QED BY <2>2, <4>2, <5>1 DEF Recursive
      <4> QED BY <4>1, <4>2
    <3> QED BY <3>1
  <2>5. h[0] = base
    BY <1>3, <1>5, <2>2 DEF Recursive
  <2>6. ASSUME NEW i \in 1 .. k PROVE h[i] = G[i][h[i - 1]]
    <3>1. i - 1 \in 0 .. k /\ i - 1 # k /\ h[i - 1] = f[i - 1] /\ i \in 0 .. k
      BY <1>3
    <3>2. CASE i = k
      BY <3>1, <3>2
    <3>3. CASE i # k
      <4>1. i \in 1 .. k - 1
        BY <1>3, <3>3
      <4> QED BY <2>2, <3>1, <3>3, <4>1 DEF Recursive
    <3> QED BY <3>2, <3>3
  <2>7. Recursive(h, V, base, G, k)
    <3> HIDE DEF h
    <3> QED BY <2>4, <2>5, <2>6 DEF Recursive
  <2> QED BY <1>3, <2>7
<1> QED BY <1>4, <1>5

LEMMA RecursionAgrees ==
    ASSUME NEW V, NEW base, NEW G, NEW n \in Nat, NEW m \in Nat, NEW f, NEW h,
           Recursive(f, V, base, G, n), Recursive(h, V, base, G, m),
           NEW k \in Nat, k <= n, k <= m
    PROVE  f[k] = h[k]
<1> DEFINE T == {j \in Nat : j <= n /\ j <= m /\ f[j] # h[j]}
<1>1. SUFFICES ASSUME T # {} PROVE FALSE
  OBVIOUS
<1>2. PICK j \in T : \A i \in T : j <= i
  <2>1. T \in SUBSET Nat
    OBVIOUS
  <2> HIDE DEF T
  <2> QED BY <1>1, <2>1, Least
<1>3. j # 0
  BY DEF Recursive
<1>4. j - 1 \in Nat /\ j - 1 \notin T /\ j \in 1 .. n /\ j \in 1 .. m
  BY <1>2, <1>3
<1>5. f[j - 1] = h[j - 1]
  BY <1>4
<1>6. f[j] = G[j][f[j - 1]] /\ h[j] = G[j][h[j - 1]]
  BY <1>4 DEF Recursive
<1> QED BY <1>2, <1>5, <1>6

-----------------------------------------------------------------------------
(* The elements of a sequence of sequences, one after the other: the fold   *)
(* of FlattenSeq is the recursion FlatStep.                                 *)

IsFlat(g, seqs) ==
    g = [i \in 1 .. Len(seqs) |-> IF i = 1 THEN seqs[i] ELSE g[i - 1] \o seqs[i]]

LEMMA FlatIs ==
    ASSUME NEW seqs, Len(seqs) # 0
    PROVE  FlattenSeq(seqs) = (CHOOSE g : IsFlat(g, seqs))[Len(seqs)]
<1> QED BY DEF FlattenSeq, IsFlat

FlatStep(seqs) ==
    [i \in Nat |-> [q \in Seq(Nat) |-> IF i \in 1 .. Len(seqs) THEN q \o seqs[i] ELSE q]]

LEMMA FlatStepType ==
    ASSUME NEW seqs \in Seq(Seq(Nat)) PROVE Steps(Seq(Nat), FlatStep(seqs))
<1> SUFFICES ASSUME NEW i \in Nat PROVE FlatStep(seqs)[i] \in [Seq(Nat) -> Seq(Nat)]
  BY DEF Steps
<1>1. ASSUME NEW q \in Seq(Nat), i \in 1 .. Len(seqs) PROVE q \o seqs[i] \in Seq(Nat)
  <2>1. seqs[i] \in Seq(Nat)
    BY <1>1
  <2> QED BY <2>1
<1>2. \A q \in Seq(Nat) : (IF i \in 1 .. Len(seqs) THEN q \o seqs[i] ELSE q) \in Seq(Nat)
  BY <1>1
<1> QED BY <1>2 DEF FlatStep

FlatTable(g, seqs) == Recursive(g, Seq(Nat), <<>>, FlatStep(seqs), Len(seqs))

LEMMA FlatTableIs ==
    ASSUME NEW seqs \in Seq(Seq(Nat)), Len(seqs) # 0, NEW g, IsFlat(g, seqs)
    PROVE  FlatTable([i \in 0 .. Len(seqs) |-> IF i = 0 THEN <<>> ELSE g[i]], seqs)
<1> DEFINE n == Len(seqs)
           h == [i \in 0 .. n |-> IF i = 0 THEN <<>> ELSE g[i]]
<1>1. n \in Nat /\ n >= 1
  OBVIOUS
<1>2. ASSUME NEW i \in 1 .. n PROVE g[i] = IF i = 1 THEN seqs[i] ELSE g[i - 1] \o seqs[i]
  <2> DEFINE val(j) == IF j = 1 THEN seqs[j] ELSE g[j - 1] \o seqs[j]
  <2>1. g = [j \in 1 .. n |-> val(j)]
    BY DEF IsFlat
  <2> HIDE DEF val
  <2>2. g[i] = val(i)
    BY <2>1
  <2> QED BY <2>2 DEF val
<1>3. ASSUME NEW i \in 1 .. n PROVE seqs[i] \in Seq(Nat)
  OBVIOUS
<1> DEFINE T == {i \in Nat : i \in 1 .. n /\ g[i] \notin Seq(Nat)}
<1>4. T = {}
  <2>1. SUFFICES ASSUME T # {} PROVE FALSE
    OBVIOUS
  <2>2. PICK j \in T : \A i \in T : j <= i
    <3>1. T \in SUBSET Nat
      OBVIOUS
    <3> HIDE DEF T
    <3> QED BY <2>1, <3>1, Least
  <2>3. j \in 1 .. n /\ g[j] \notin Seq(Nat) /\ seqs[j] \in Seq(Nat)
    BY <1>3
  <2>4. j # 1
    BY ONLY <1>2, <2>3
  <2>5. j - 1 \in 1 .. n /\ j - 1 \notin T
    BY <1>1, <2>2, <2>3, <2>4
  <2>6. g[j - 1] \in Seq(Nat)
    BY <2>5
  <2>7. g[j] = g[j - 1] \o seqs[j]
    BY ONLY <1>2, <2>3, <2>4
  <2> QED BY <2>3, <2>6, <2>7
<1>5. ASSUME NEW i \in 1 .. n PROVE g[i] \in Seq(Nat)
  <2>1. i \in Nat /\ i \notin T
    BY <1>1, <1>4
  <2> QED BY <2>1
<1> HIDE DEF T
<1>6. h \in [0 .. n -> Seq(Nat)]
  <2>1. ASSUME NEW i \in 0 .. n PROVE h[i] \in Seq(Nat)
    <3>1. CASE i = 0
      BY <3>1
    <3>2. CASE i # 0
      <4>1. i \in 1 .. n
        BY <1>1, <3>2
      <4> QED BY <1>5, <3>2, <4>1
    <3> QED BY <3>1, <3>2
  <2> QED BY <2>1
<1>7. h[0] = <<>>
  BY <1>1
<1>8. ASSUME NEW i \in 1 .. n PROVE h[i] = FlatStep(seqs)[i][h[i - 1]]
  <2>1. i \in 0 .. n /\ i - 1 \in 0 .. n /\ i # 0 /\ i \in Nat
    BY <1>1
  <2>2. h[i] = g[i] /\ h[i - 1] \in Seq(Nat)
    BY <1>6, <2>1
  <2>3. FlatStep(seqs)[i][h[i - 1]] = h[i - 1] \o seqs[i]
    <3> HIDE DEF h
    <3> QED BY <2>1, <2>2 DEF FlatStep
  <2>4. CASE i = 1
    <3>1. h[i - 1] = <<>> /\ <<>> \o seqs[i] = seqs[i]
      BY <1>3, <1>7, <2>4
    <3> QED BY <1>2, <2>2, <2>3, <2>4, <3>1
  <2>5. CASE i # 1
    <3>1. h[i - 1] = g[i - 1]
      BY <1>1, <2>1, <2>5
    <3> QED BY <1>2, <2>2, <2>3, <2>5, <3>1
  <2> QED BY <2>4, <2>5
<1> HIDE DEF h
<1>9. FlatTable(h, seqs)
  BY <1>6, <1>7, <1>8 DEF FlatTable, Recursive
<1> QED BY <1>9 DEF h

LEMMA FlatTableExists ==
    ASSUME NEW seqs \in Seq(Seq(Nat))
    PROVE  \E g : FlatTable(g, seqs) /\ FlattenSeq(seqs) = g[Len(seqs)]
<1> DEFINE n == Len(seqs)
<1>1. PICK h : FlatTable(h, seqs)
  <2>1. n \in Nat /\ <<>> \in Seq(Nat)
    OBVIOUS
  <2>2. Steps(Seq(Nat), FlatStep(seqs))
    BY FlatStepType
  <2> QED BY <2>1, <2>2, RecursionExists DEF FlatTable
<1>2. CASE n = 0
  <2>1. seqs = <<>> /\ FlattenSeq(seqs) = seqs
    BY <1>2 DEF FlattenSeq
  <2>2. h[0] = <<>>
    BY <1>1 DEF FlatTable, Recursive
  <2> QED BY <1>1, <1>2, <2>1, <2>2
<1>3. CASE n # 0
  <2>1. IsFlat([i \in 1 .. n |-> h[i]], seqs)
    <3> DEFINE g == [i \in 1 .. n |-> h[i]]
    <3>1. ASSUME NEW i \in 1 .. n
          PROVE  h[i] = IF i = 1 THEN seqs[i] ELSE g[i - 1] \o seqs[i]
      <4>1. i \in 0 .. n /\ i - 1 \in 0 .. n /\ i \in Nat /\ seqs[i] \in Seq(Nat)
        OBVIOUS
      <4>2. h[i] = FlatStep(seqs)[i][h[i - 1]] /\ h[i - 1] \in Seq(Nat) /\ h[0] = <<>>
        BY <1>1, <4>1 DEF FlatTable, Recursive
      <4>3. h[i] = h[i - 1] \o seqs[i]
        BY <4>1, <4>2 DEF FlatStep
      <4>4. CASE i = 1
        <5>1. h[i] = <<>> \o seqs[i]
          <6>1. i - 1 = 0
            BY <4>4
          <6> QED BY <4>2, <4>3, <6>1
        <5> QED BY <4>1, <4>4, <5>1
      <4>5. CASE i # 1
        <5>1. i - 1 \in 1 .. n
          BY <4>5
        <5>2. g[i - 1] = h[i - 1]
          BY <5>1
        <5> QED BY <4>3, <4>5, <5>2
      <4> QED BY <4>4, <4>5
    <3> QED BY <3>1 DEF IsFlat
  <2>2. IsFlat(CHOOSE g : IsFlat(g, seqs), seqs)
    BY <2>1
  <2> DEFINE c == CHOOSE g : IsFlat(g, seqs)
             k == [i \in 0 .. n |-> IF i = 0 THEN <<>> ELSE c[i]]
  <2>3. FlattenSeq(seqs) = c[n]
    BY <1>3, FlatIs
  <2>4. IsFlat(c, seqs)
    BY <2>2
  <2> HIDE DEF c
  <2>5. FlatTable(k, seqs)
    BY <1>3, <2>4, FlatTableIs
  <2>6. k[n] = c[n]
    BY <1>3
  <2> QED BY <2>3, <2>5, <2>6
<1> QED BY <1>2, <1>3

(* A part more adds its rows at the end. *)
FlatMore(p, q) ==
    FlattenSeq(p) \in Seq(Nat) /\ FlattenSeq(Append(p, q)) = FlattenSeq(p) \o q

LEMMA FlatAppend ==
    ASSUME NEW p \in Seq(Seq(Nat)), NEW q \in Seq(Nat)
    PROVE  FlatMore(p, q)
<1> DEFINE n == Len(p)
           pq == Append(p, q)
<1>1. /\ n \in Nat /\ pq \in Seq(Seq(Nat)) /\ Len(pq) = n + 1 /\ pq[n + 1] = q
      /\ \A i \in 1 .. n : pq[i] = p[i]
  OBVIOUS
<1>2. PICK g : FlatTable(g, p) /\ FlattenSeq(p) = g[n]
  BY FlatTableExists
<1> HIDE DEF pq
<1>3. PICK h : FlatTable(h, pq) /\ FlattenSeq(pq) = h[n + 1]
  BY <1>1, FlatTableExists
<1>4. /\ h \in [0 .. n + 1 -> Seq(Nat)] /\ h[0] = <<>>
      /\ \A i \in 1 .. n + 1 : h[i] = FlatStep(pq)[i][h[i - 1]]
  BY <1>1, <1>3 DEF FlatTable, Recursive
<1>5. ASSUME NEW i \in 1 .. n + 1 PROVE h[i] = h[i - 1] \o pq[i]
  <2>1. i \in Nat /\ i \in 1 .. Len(pq) /\ i - 1 \in 0 .. n + 1
    BY <1>1
  <2>2. h[i - 1] \in Seq(Nat) /\ h[i] = FlatStep(pq)[i][h[i - 1]]
    BY <1>4, <2>1
  <2> QED BY <2>1, <2>2 DEF FlatStep
<1> DEFINE r == [i \in 0 .. n |-> h[i]]
<1>6. FlatTable(r, p)
  <2>1. r \in [0 .. n -> Seq(Nat)] /\ r[0] = <<>>
    <3>1. \A i \in 0 .. n : i \in 0 .. n + 1
      BY <1>1
    <3> QED BY <1>1, <1>4, <3>1
  <2>2. ASSUME NEW i \in 1 .. n PROVE r[i] = FlatStep(p)[i][r[i - 1]]
    <3>1. i \in 1 .. n + 1 /\ i \in 0 .. n /\ i - 1 \in 0 .. n /\ i \in Nat
      BY <1>1
    <3>2. h[i] = h[i - 1] \o pq[i] /\ pq[i] = p[i]
      BY <1>1, <1>5, <3>1
    <3>3. r[i] = h[i] /\ r[i - 1] = h[i - 1] /\ r[i - 1] \in Seq(Nat)
      BY <2>1, <3>1
    <3>4. FlatStep(p)[i][r[i - 1]] = r[i - 1] \o p[i]
      <4> HIDE DEF r
      <4> QED BY <3>1, <3>3 DEF FlatStep
    <3> QED BY <3>2, <3>3, <3>4
  <2> HIDE DEF r
  <2> QED BY <2>1, <2>2 DEF FlatTable, Recursive
<1>7. r[n] = g[n]
  <2> HIDE DEF r
  <2>1. n <= n
    BY <1>1
  <2> QED BY <1>1, <1>2, <1>6, <2>1, RecursionAgrees DEF FlatTable
<1>8. n \in 0 .. n /\ n + 1 \in 1 .. n + 1 /\ (n + 1) - 1 = n
  BY <1>1
<1>9. r[n] = h[n] /\ g[n] \in Seq(Nat) /\ h[n + 1] = h[n] \o q
  <2>1. g[n] \in Seq(Nat)
    BY <1>2, <1>8 DEF FlatTable, Recursive
  <2> QED BY <1>1, <1>5, <1>8, <2>1
<1>10. FlattenSeq(pq) = FlattenSeq(p) \o q
  BY <1>2, <1>3, <1>7, <1>9
<1> QED BY <1>2, <1>9, <1>10 DEF FlatMore, pq

(* A batch at the end of the last part adds its rows at the end. *)
LEMMA FlatExtended ==
    ASSUME NEW p \in Seq(Seq(Nat)), p # <<>>, NEW q \in Seq(Nat)
    PROVE  FlattenSeq([p EXCEPT ![Len(p)] = @ \o q]) = FlattenSeq(p) \o q
<1> DEFINE n == Len(p)
           f == [i \in 1 .. n - 1 |-> p[i]]
           z == p[n]
           l == [p EXCEPT ![n] = @ \o q]
<1>1. n \in Nat /\ n >= 1 /\ \A i \in 1 .. n : p[i] \in Seq(Nat)
  OBVIOUS
<1>2. DOMAIN p = 1 .. n /\ p = [i \in 1 .. n |-> p[i]]
  OBVIOUS
<1>3. z \in Seq(Nat) /\ z \o q \in Seq(Nat)
  BY <1>1
<1> HIDE DEF n
<1>4. f \in Seq(Seq(Nat)) /\ Len(f) = n - 1 /\ \A i \in 1 .. n - 1 : f[i] = p[i]
  <2>1. n - 1 \in Nat /\ \A i \in 1 .. n - 1 : p[i] \in Seq(Nat)
    BY <1>1
  <2> QED BY <2>1, Listed
<1>5. DOMAIN l = 1 .. n /\ l[n] = z \o q /\ \A i \in 1 .. n - 1 : l[i] = p[i]
  BY <1>1, <1>2
<1> HIDE DEF f, z, l
<1>6. ASSUME NEW x \in Seq(Nat), NEW w, DOMAIN w = 1 .. n, w = [i \in 1 .. n |-> w[i]],
             w[n] = x, \A i \in 1 .. n - 1 : w[i] = p[i]
      PROVE  w = Append(f, x)
  <2> DEFINE v == Append(f, x)
  <2>1. /\ v \in Seq(Seq(Nat)) /\ Len(v) = n /\ v[n] = x
        /\ \A i \in 1 .. n - 1 : v[i] = f[i]
    BY <1>1, <1>4
  <2> HIDE DEF v
  <2>2. v = [i \in 1 .. n |-> v[i]]
    BY <2>1
  <2>3. ASSUME NEW i \in 1 .. n PROVE w[i] = v[i]
    <3>1. i \in 1 .. n - 1 \/ i = n
      BY <1>1
    <3> QED BY <1>4, <1>6, <2>1, <3>1
  <2>4. w = v
    BY <1>6, <2>2, <2>3
  <2> QED BY <2>4 DEF v
<1>7. p = Append(f, z)
  <2>1. p[n] = z
    BY DEF z
  <2> QED BY <1>2, <1>3, <1>6, <2>1
<1>8. l = Append(f, z \o q)
  <2>1. l = [i \in 1 .. n |-> l[i]]
    BY <1>2, <1>5 DEF l
  <2> QED BY <1>3, <1>5, <1>6, <2>1
<1>9. FlatMore(f, z) /\ FlatMore(f, z \o q)
  BY <1>3, <1>4, FlatAppend
<1>10. FlattenSeq(f) \in Seq(Nat)
  BY <1>9 DEF FlatMore
<1>11. (FlattenSeq(f) \o z) \o q = FlattenSeq(f) \o (z \o q)
  <2> DEFINE a == FlattenSeq(f)
  <2>1. a \in Seq(Nat)
    BY <1>10
  <2> HIDE DEF a
  <2>2. (a \o z) \o q = a \o (z \o q)
    BY <1>3, <2>1, ConcatThree
  <2> QED BY <2>2 DEF a
<1>12. FlattenSeq(l) = FlattenSeq(p) \o q
  BY <1>7, <1>8, <1>9, <1>11 DEF FlatMore
<1> QED BY <1>12 DEF l, n
===============================================================================
