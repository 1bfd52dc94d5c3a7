---------------------------- MODULE SumTheorems ----------------------------
(***************************************************************************)
(* Finite sets, their sums and their orders: what the proofs about         *)
(* balances, schedules and limits need to know of SumFunctionOnSet and of  *)
(* folds over sequences.                                                   *)
(*                                                                         *)
(* Induction on finite sets and on numbers is stated as the minimality of  *)
(* a counterexample: of the sets, or numbers, of which a claim is false,   *)
(* one contains no other (SmallestSet, SmallestNumber). A fold is a CHOOSE *)
(* of a function that satisfies its recursion, so it is shown first that   *)
(* there is one (FoldExists).                                              *)
(***************************************************************************)
EXTENDS Integers, Functions, FiniteSetsExt, FiniteSetTheorems, TLAPS

(* Some finite subsets of S.                                               *)
FiniteFamily(T, S) == T # {} /\ \A t \in T : t \subseteq S /\ IsFiniteSet(t)

(* Of some finite sets, one contains no other.                             *)
LEMMA SmallestSet ==
    ASSUME NEW S, NEW T, FiniteFamily(T, S)
    PROVE  \E t \in T : \A u \in T : u \subseteq t => u = t
  <1>1. IsWellFoundedOn(StrictSubsetOrdering(S), FiniteSubsetsOf(S))
    BY FS_StrictSubsetOrderingWellFounded
  <1>2. T \subseteq FiniteSubsetsOf(S)
    BY DEF FiniteSubsetsOf, FiniteFamily
  <1>3. PICK t \in T : \A u \in T : <<u, t>> \notin StrictSubsetOrdering(S)
    BY <1>1, <1>2, WFMin DEF FiniteFamily
  <1> QED
    BY <1>2, <1>3 DEF StrictSubsetOrdering, FiniteSubsetsOf

(* Of some numbers, one is the smallest.                                   *)
LEMMA SmallestNumber ==
    ASSUME NEW S \in SUBSET Nat, S # {}
    PROVE  \E n \in S : \A m \in S : n <= m
  <1> DEFINE T == {0..n : n \in S}
  <1>0. \A n \in Nat : 0..n \subseteq Nat /\ IsFiniteSet(0..n)
    BY FS_Interval
  <1>2. FiniteFamily(T, Nat)
    BY <1>0 DEF FiniteFamily
  <1> HIDE DEF T
  <1>3. PICK t \in T : \A u \in T : u \subseteq t => u = t
    BY <1>2, SmallestSet
  <1> USE DEF T
  <1>4. PICK n \in S : t = 0..n
    OBVIOUS
  <1>5. ASSUME NEW m \in S, m < n
        PROVE  FALSE
    <2>1. 0..m \in T /\ 0..m \subseteq 0..n /\ n \in 0..n /\ n \notin 0..m
      BY <1>5
    <2> HIDE DEF T
    <2> QED
      BY <2>1, <1>3, <1>4
  <1> QED
    BY <1>5

(* A function with numbers for values has a greatest one on a finite set.  *)
LEMMA GreatestValue ==
    ASSUME NEW S, IsFiniteSet(S), S # {}, NEW f, \A x \in S : f[x] \in Nat
    PROVE  \E x \in S : \A y \in S : f[y] <= f[x]
  <1> DEFINE Above(x) == {y \in S : f[y] > f[x]}
             T == {Above(x) : x \in S}
  <1>1. FiniteFamily(T, S)
    <2>1. \A x \in S : Above(x) \subseteq S /\ IsFiniteSet(Above(x))
      BY FS_Subset
    <2> HIDE DEF Above
    <2> QED
      BY <2>1 DEF FiniteFamily
  <1>2. PICK t \in T : \A u \in T : u \subseteq t => u = t
    <2> HIDE DEF T
    <2> QED
      BY <1>1, SmallestSet
  <1>3. PICK x \in S : t = Above(x)
    OBVIOUS
  <1>4. ASSUME NEW y \in S, f[y] > f[x]
        PROVE  FALSE
    <2>1. Above(y) \in T /\ Above(y) \subseteq Above(x)
      BY <1>4
    <2>2. Above(y) = Above(x)
      <3> HIDE DEF T, Above
      <3> QED
        BY <2>1, <1>2, <1>3
    <2>3. y \in Above(x) /\ y \notin Above(y)
      BY <1>4
    <2> QED
      BY <2>2, <2>3
  <1> QED
    BY <1>4

(* Max is the largest number of a bounded set.                             *)
LEMMA LargestNumber ==
    ASSUME NEW n \in Nat, NEW S \in SUBSET (1..n), S # {}
    PROVE  Max(S) \in S /\ \A y \in S : y <= Max(S)
  <1> DEFINE Below == {n - x : x \in S}
  <1>0. \A x \in S : x \in Nat /\ n - x \in Nat
    OBVIOUS
  <1>1. PICK b \in Below : \A m \in Below : b <= m
    <2>1. Below \in SUBSET Nat /\ Below # {}
      BY <1>0
    <2> HIDE DEF Below
    <2> QED
      BY <2>1, SmallestNumber
  <1>2. PICK x \in S : b = n - x
    OBVIOUS
  <1>3. ASSUME NEW y \in S
        PROVE  x >= y
    <2>1. n - x <= n - y
      BY <1>1, <1>2
    <2> QED
      BY <1>0, <2>1
  <1> QED
    BY <1>3 DEF Max

(* A fold over the finite set S: it starts with base, a member of T, and   *)
(* takes pick[s] out of each part s.                                       *)
FoldData(S, T, base, pick, op) ==
    /\ IsFiniteSet(S)
    /\ base \in T
    /\ \A s \in SUBSET S : s # {} => pick[s] \in s
    /\ \A x \in S, y \in T : op[x][y] \in T

(* The values of such a fold on all parts of S.                            *)
IsFold(it, S, T, base, pick, op) ==
    /\ it \in [SUBSET S -> T]
    /\ \A s \in SUBSET S :
          it[s] = IF s = {} THEN base ELSE op[pick[s]][it[s \ {pick[s]}]]

(* Some function satisfies the recursion of a fold, whichever element it   *)
(* takes out of each set.                                                  *)
LEMMA FoldExists ==
    ASSUME NEW S, NEW T, NEW base, NEW pick, NEW op, FoldData(S, T, base, pick, op)
    PROVE  \E it : IsFold(it, S, T, base, pick, op)
  <1> USE DEF FoldData, IsFold
  <1> DEFINE Upto(n) == {s \in SUBSET S : Cardinality(s) <= n}
             Folds(it, n) == \A s \in Upto(n) :
                 it[s] = IF s = {} THEN base ELSE op[pick[s]][it[s \ {pick[s]}]]
             Bad == {n \in Nat : ~\E it \in [SUBSET S -> T] : Folds(it, n)}
  <1>0. \A s \in SUBSET S : IsFiniteSet(s) /\ Cardinality(s) \in Nat
    BY FS_Subset, FS_CardinalityType
  <1>1. ASSUME Bad # {}
        PROVE  FALSE
    <2>1. PICK n \in Bad : \A m \in Bad : n <= m
      BY <1>1, SmallestNumber
    <2>2. n # 0
      <3>1. [s \in SUBSET S |-> base] \in [SUBSET S -> T]
        OBVIOUS
      <3>2. ASSUME NEW s \in Upto(0)
            PROVE  s = {}
        <4>1. IsFiniteSet(s) /\ Cardinality(s) = 0
          BY <1>0
        <4> QED
          BY <4>1, FS_EmptySet
      <3>3. Folds([s \in SUBSET S |-> base], 0)
        BY <3>2
      <3> HIDE DEF Folds
      <3> QED
        BY <3>1, <3>3
    <2>a. n \in Nat
      OBVIOUS
    <2>3. n - 1 \in Nat /\ n - 1 \notin Bad
      <3> HIDE DEF Bad
      <3> QED
        BY <2>1, <2>2, <2>a
    <2>4. PICK it \in [SUBSET S -> T] : Folds(it, n - 1)
      BY <2>3
    <2> DEFINE next == [s \in SUBSET S |-> IF s = {} THEN base ELSE op[pick[s]][it[s \ {pick[s]}]]]
    <2>5. next \in [SUBSET S -> T]
      OBVIOUS
    <2>6. ASSUME NEW s \in Upto(n), s # {}
          PROVE  next[s \ {pick[s]}] = it[s \ {pick[s]}]
      <3>1. pick[s] \in s
        BY <2>6
      <3>2. Cardinality(s \ {pick[s]}) = Cardinality(s) - 1
        BY <1>0, <3>1, FS_RemoveElement
      <3>3. s \ {pick[s]} \in Upto(n - 1)
        BY <3>2, <2>3, <1>0
      <3> HIDE DEF Upto
      <3> QED
        BY <3>3, <2>4 DEF Upto
    <2>7. Folds(next, n)
      <3> SUFFICES ASSUME NEW s \in Upto(n)
                   PROVE  next[s] = IF s = {} THEN base ELSE op[pick[s]][next[s \ {pick[s]}]]
        OBVIOUS
      <3>1. next[s] = IF s = {} THEN base ELSE op[pick[s]][it[s \ {pick[s]}]]
        OBVIOUS
      <3> HIDE DEF next
      <3> QED BY <3>1, <2>6
    <2> HIDE DEF next, Folds
    <2> QED
      BY <2>5, <2>7, <2>1
  <1>2. Cardinality(S) \in Nat /\ Cardinality(S) \notin Bad
    BY <1>0, <1>1
  <1>3. PICK it \in [SUBSET S -> T] : Folds(it, Cardinality(S))
    BY <1>2
  <1>4. \A s \in SUBSET S : s \in Upto(Cardinality(S))
    BY FS_Subset
  <1> QED
    BY <1>3, <1>4

(* The element that SumFunctionOnSet takes first.                          *)
Chosen(S) == CHOOSE x \in S : TRUE

(* The values of a sum on all parts of S.                                  *)
Sums(it, f, S) ==
    \A s \in SUBSET S :
          it[s] = IF s = {} THEN 0 ELSE f[Chosen(s)] + it[s \ {Chosen(s)}]

(* SumFunctionOnSet satisfies the recursion that defines it.               *)
LEMMA SumIsIterated ==
    ASSUME NEW S, IsFiniteSet(S), NEW f, \A x \in S : f[x] \in Int
    PROVE  \E it : Sums(it, f, S) /\ SumFunctionOnSet(f, S) = it[S]
  <1> DEFINE pick == [s \in SUBSET S |-> Chosen(s)]
             add == [x \in S |-> [y \in Int |-> f[x] + y]]
             Body(it) == [s \in SUBSET S |-> IF s = {} THEN 0
                                             ELSE f[Chosen(s)] + it[s \ {Chosen(s)}]]
  <1>1. \A s \in SUBSET S : s # {} => Chosen(s) \in s
    BY DEF Chosen
  <1>2. PICK it \in [SUBSET S -> Int] : \A s \in SUBSET S :
            it[s] = IF s = {} THEN 0 ELSE add[pick[s]][it[s \ {pick[s]}]]
    <2>1. \A s \in SUBSET S : s # {} => pick[s] \in s
      BY <1>1
    <2>2. \A x \in S, y \in Int : add[x][y] \in Int
      OBVIOUS
    <2> HIDE DEF pick, add
    <2>3. FoldData(S, Int, 0, pick, add)
      BY <2>1, <2>2 DEF FoldData
    <2> QED
      <3>1. PICK it : IsFold(it, S, Int, 0, pick, add)
        BY <2>3, FoldExists
      <3> QED
        BY <3>1 DEF IsFold
  <1>3. \A s \in SUBSET S : it[s] = IF s = {} THEN 0 ELSE f[Chosen(s)] + it[s \ {Chosen(s)}]
    BY <1>1, <1>2
  <1>4. it = Body(it)
    BY <1>3
  <1>5. Sums(CHOOSE i : i = Body(i), f, S)
    <2> DEFINE c == CHOOSE i : i = Body(i)
    <2>1. c = Body(c)
      BY <1>4, Zenon
    <2> HIDE DEF c
    <2> QED
      BY <2>1 DEF Sums
  <1>6. SumFunctionOnSet(f, S) = (CHOOSE i : i = Body(i))[S]
    BY DEF SumFunctionOnSet, FoldFunctionOnSet, MapThenFoldSet, Chosen
  <1> QED
    BY <1>5, <1>6

(* A sum does not depend on the set it is a part of.                       *)
LEMMA SumsAgree ==
    ASSUME NEW S, IsFiniteSet(S), NEW R \in SUBSET S, NEW f, NEW a, NEW b,
           Sums(a, f, S), Sums(b, f, R)
    PROVE  a[R] = b[R]
  <1> DEFINE Bad == {s \in SUBSET R : a[s] # b[s]}
  <1>1. ASSUME Bad # {}
        PROVE  FALSE
    <2>1. FiniteFamily(Bad, S)
      BY <1>1, FS_Subset DEF FiniteFamily
    <2>2. PICK s \in Bad : \A u \in Bad : u \subseteq s => u = s
      <3> HIDE DEF Bad
      <3> QED
        BY <2>1, SmallestSet
    <2>3. CASE s = {}
      BY <2>3 DEF Sums
    <2>4. CASE s # {}
      <3>1. Chosen(s) \in s
        BY <2>4 DEF Chosen
      <3>2. a[s \ {Chosen(s)}] = b[s \ {Chosen(s)}]
        BY <3>1, <2>2
      <3> QED
        BY <3>2, <2>4 DEF Sums
    <2> QED
      BY <2>3, <2>4
  <1> QED
    BY <1>1

(* What can be added up.                                                   *)
Summable(f, S) == IsFiniteSet(S) /\ \A x \in S : f[x] \in Int

(* One step of the recursion.                                              *)
LEMMA SumStep ==
    ASSUME NEW S, NEW f, Summable(f, S)
    PROVE  SumFunctionOnSet(f, S) =
               IF S = {} THEN 0 ELSE f[Chosen(S)] + SumFunctionOnSet(f, S \ {Chosen(S)})
  <1> USE DEF Summable
  <1>1. PICK a : Sums(a, f, S) /\ SumFunctionOnSet(f, S) = a[S]
    BY SumIsIterated
  <1>2. CASE S # {}
    <2> DEFINE R == S \ {Chosen(S)}
    <2>1. R \in SUBSET S /\ IsFiniteSet(R) /\ \A x \in R : f[x] \in Int
      BY FS_Subset
    <2> HIDE DEF R
    <2>2. PICK b : Sums(b, f, R) /\ SumFunctionOnSet(f, R) = b[R]
      BY <2>1, SumIsIterated
    <2>3. a[R] = b[R]
      BY <2>1, <2>2, <1>1, SumsAgree
    <2> USE DEF R
    <2> QED
      BY <2>2, <2>3, <1>1, <1>2 DEF Sums
  <1> QED
    BY <1>1, <1>2 DEF Sums

(* A sum of integers is an integer.                                        *)
LEMMA SumInt ==
    ASSUME NEW S, NEW f, Summable(f, S)
    PROVE  SumFunctionOnSet(f, S) \in Int
  <1> DEFINE Bad == {s \in SUBSET S : SumFunctionOnSet(f, s) \notin Int}
  <1>1. ASSUME Bad # {}
        PROVE  FALSE
    <2>1. FiniteFamily(Bad, S)
      BY <1>1, FS_Subset DEF FiniteFamily, Summable
    <2>2. PICK s \in Bad : \A u \in Bad : u \subseteq s => u = s
      <3> HIDE DEF Bad
      <3> QED
        BY <2>1, SmallestSet
    <2>3. Summable(f, s) /\ \A x \in s : f[x] \in Int
      BY FS_Subset DEF Summable
    <2>4. s # {} => Chosen(s) \in s
      BY DEF Chosen
    <2>5. s # {} => SumFunctionOnSet(f, s \ {Chosen(s)}) \in Int
      BY <2>4, <2>2
    <2>6. SumFunctionOnSet(f, s) =
              IF s = {} THEN 0 ELSE f[Chosen(s)] + SumFunctionOnSet(f, s \ {Chosen(s)})
      BY <2>3, SumStep
    <2> QED
      BY <2>3, <2>4, <2>5, <2>6
  <1> QED
    BY <1>1

(* Any element may be taken out first, whichever the fold takes.           *)
LEMMA SumRemove ==
    ASSUME NEW S, NEW f, Summable(f, S), NEW x \in S
    PROVE  SumFunctionOnSet(f, S) = f[x] + SumFunctionOnSet(f, S \ {x})
  <1> DEFINE Sum(s) == SumFunctionOnSet(f, s)
             Bad == {s \in SUBSET S : \E y \in s : Sum(s) # f[y] + Sum(s \ {y})}
  <1>0. \A s \in SUBSET S : IsFiniteSet(s) /\ Summable(f, s) /\ (\A y \in s : f[y] \in Int) /\ Sum(s) \in Int
    BY FS_Subset, SumInt DEF Summable
  <1>1. ASSUME Bad # {}
        PROVE  FALSE
    <2>1. FiniteFamily(Bad, S)
      BY <1>0, <1>1 DEF FiniteFamily
    <2>2. PICK s \in Bad : \A u \in Bad : u \subseteq s => u = s
      <3> HIDE DEF Bad
      <3> QED
        BY <2>1, SmallestSet
    <2>3. PICK y \in s : Sum(s) # f[y] + Sum(s \ {y})
      OBVIOUS
    <2> DEFINE c == Chosen(s)
    <2>4. c \in s
      BY DEF Chosen
    <2>5. Sum(s) = f[c] + Sum(s \ {c})
      BY <1>0, SumStep
    <2>6. c # y
      BY <2>3, <2>5
    <2>7. Sum(s \ {c}) = f[y] + Sum((s \ {c}) \ {y})
      <3>1. s \ {c} \in SUBSET S /\ s \ {c} \notin Bad /\ y \in s \ {c}
        BY <2>2, <2>4, <2>6
      <3> HIDE DEF Sum, c
      <3> QED
        BY <3>1
    <2>8. Sum(s \ {y}) = f[c] + Sum((s \ {y}) \ {c})
      <3>1. s \ {y} \in SUBSET S /\ s \ {y} \notin Bad /\ c \in s \ {y}
        BY <2>2, <2>4, <2>6
      <3> HIDE DEF Sum, c
      <3> QED
        BY <3>1
    <2>9. (s \ {y}) \ {c} = (s \ {c}) \ {y}
      OBVIOUS
    <2>10. f[y] \in Int /\ f[c] \in Int /\ Sum((s \ {c}) \ {y}) \in Int
      BY <1>0, <2>4
    <2>11. Sum(s) = f[y] + Sum(s \ {y})
      <3> DEFINE rest == Sum((s \ {c}) \ {y})
      <3>1. Sum(s \ {y}) = f[c] + rest
        BY <2>8, <2>9
      <3>2. Sum(s \ {c}) = f[y] + rest
        BY <2>7
      <3>3. f[y] \in Int /\ f[c] \in Int /\ rest \in Int
        BY <2>10
      <3>4. Sum(s) = f[c] + Sum(s \ {c})
        BY <2>5
      <3> HIDE DEF c, Sum, rest
      <3> QED
        BY <3>1, <3>2, <3>3, <3>4
    <2> QED
      BY <2>3, <2>11
  <1> QED
    BY <1>1

(* The sum over nothing.                                                   *)
LEMMA SumEmpty ==
    ASSUME NEW f
    PROVE  SumFunctionOnSet(f, {}) = 0
  BY SumStep, FS_EmptySet DEF Summable

(* A part of what can be added up can be added up.                         *)
LEMMA SummablePart ==
    ASSUME NEW S, NEW f, Summable(f, S), NEW R \in SUBSET S
    PROVE  Summable(f, R)
  BY FS_Subset DEF Summable

(* One element more.                                                       *)
LEMMA SumAdd ==
    ASSUME NEW S, NEW f, Summable(f, S), NEW x, x \notin S, f[x] \in Int
    PROVE  /\ Summable(f, S \cup {x})
           /\ SumFunctionOnSet(f, S \cup {x}) = f[x] + SumFunctionOnSet(f, S)
  <1>1. Summable(f, S \cup {x})
    BY FS_AddElement DEF Summable
  <1>2. (S \cup {x}) \ {x} = S
    OBVIOUS
  <1> QED
    BY <1>1, <1>2, SumRemove

(* Sums are compared element by element. *)
LEMMA SumSame ==
    ASSUME NEW S, NEW f, NEW g, Summable(f, S), \A x \in S : g[x] = f[x]
    PROVE  Summable(g, S) /\ SumFunctionOnSet(g, S) = SumFunctionOnSet(f, S)
  <1> DEFINE Bad == {s \in SUBSET S : SumFunctionOnSet(g, s) # SumFunctionOnSet(f, s)}
  <1>0. Summable(g, S)
    BY DEF Summable
  <1>1. ASSUME Bad # {}
        PROVE  FALSE
    <2>1. FiniteFamily(Bad, S)
      BY <1>1, FS_Subset DEF FiniteFamily, Summable
    <2>2. PICK s \in Bad : \A u \in Bad : u \subseteq s => u = s
      <3> HIDE DEF Bad
      <3> QED
        BY <2>1, SmallestSet
    <2>3. s # {}
      BY SumEmpty
    <2>4. PICK x \in s : TRUE
      BY <2>3
    <2>5. SumFunctionOnSet(g, s \ {x}) = SumFunctionOnSet(f, s \ {x})
      BY <2>2
    <2>6. Summable(f, s) /\ Summable(g, s)
      BY <1>0, SummablePart
    <2> QED
      BY <2>5, <2>6, SumRemove
  <1> QED
    BY <1>0, <1>1

(* A sum of which one term changes.                                        *)
DiffersAt(f, g, S, x) ==
    x \in S /\ g[x] \in Int /\ \A y \in S \ {x} : g[y] = f[y]

(* Changing one term changes the sum by as much.                           *)
LEMMA SumChange ==
    ASSUME NEW S, NEW f, NEW g, NEW x, Summable(f, S), DiffersAt(f, g, S, x)
    PROVE  /\ Summable(g, S)
           /\ SumFunctionOnSet(g, S) = SumFunctionOnSet(f, S) + g[x] - f[x]
  <1> USE DEF DiffersAt
  <1>1. Summable(g, S)
    BY DEF Summable
  <1>2. Summable(f, S \ {x})
    BY SummablePart
  <1>3. SumFunctionOnSet(g, S \ {x}) = SumFunctionOnSet(f, S \ {x})
    BY <1>2, SumSame
  <1>4. /\ SumFunctionOnSet(g, S) = g[x] + SumFunctionOnSet(g, S \ {x})
        /\ SumFunctionOnSet(f, S) = f[x] + SumFunctionOnSet(f, S \ {x})
    BY <1>1, SumRemove
  <1>5. f[x] \in Int /\ SumFunctionOnSet(f, S \ {x}) \in Int
    BY <1>2, SumInt DEF Summable
  <1> QED
    BY <1>1, <1>3, <1>4, <1>5

(* A sum of naturals is a natural.                                         *)
LEMMA SumNat ==
    ASSUME NEW S, NEW f, Summable(f, S), \A x \in S : f[x] \in Nat
    PROVE  SumFunctionOnSet(f, S) \in Nat
  <1> DEFINE Bad == {s \in SUBSET S : SumFunctionOnSet(f, s) \notin Nat}
  <1>1. ASSUME Bad # {}
        PROVE  FALSE
    <2>1. FiniteFamily(Bad, S)
      BY <1>1, FS_Subset DEF FiniteFamily, Summable
    <2>2. PICK s \in Bad : \A u \in Bad : u \subseteq s => u = s
      <3> HIDE DEF Bad
      <3> QED
        BY <2>1, SmallestSet
    <2>3. PICK x \in s : TRUE
      BY SumEmpty
    <2>4. SumFunctionOnSet(f, s \ {x}) \in Nat
      BY <2>2
    <2>5. SumFunctionOnSet(f, s) = f[x] + SumFunctionOnSet(f, s \ {x})
      BY SummablePart, SumRemove
    <2> QED
      BY <2>4, <2>5
  <1> QED
    BY <1>1

(* A sum is the sum over its two parts.                                    *)
LEMMA SumSplit ==
    ASSUME NEW S, NEW f, Summable(f, S), NEW A
    PROVE  SumFunctionOnSet(f, S) = SumFunctionOnSet(f, S \cap A) + SumFunctionOnSet(f, S \ A)
  <1> DEFINE Sum(s) == SumFunctionOnSet(f, s)
             Bad == {s \in SUBSET S : Sum(s) # Sum(s \cap A) + Sum(s \ A)}
  <1>0. ASSUME NEW s \in SUBSET S
        PROVE  Summable(f, s) /\ Sum(s) \in Int
    BY SummablePart, SumInt
  <1>1. ASSUME Bad # {}
        PROVE  FALSE
    <2>1. FiniteFamily(Bad, S)
      BY <1>0, <1>1 DEF FiniteFamily, Summable
    <2>2. PICK s \in Bad : \A u \in Bad : u \subseteq s => u = s
      <3> HIDE DEF Bad
      <3> QED
        BY <2>1, SmallestSet
    <2>3. s # {}
      <3>1. {} \cap A = {} /\ {} \ A = {} /\ Sum({}) = 0
        BY SumEmpty
      <3>2. Sum({}) = Sum({} \cap A) + Sum({} \ A)
        BY <3>1
      <3> HIDE DEF Sum
      <3> QED
        BY <3>2
    <2>4. PICK x \in s : TRUE
      BY <2>3
    <2> DEFINE r == s \ {x}
    <2>5. Sum(r) = Sum(r \cap A) + Sum(r \ A)
      <3>1. r \in SUBSET S /\ r \notin Bad
        BY <2>2
      <3> HIDE DEF Sum, r
      <3> QED
        BY <3>1
    <2>6. f[x] \in Int /\ Sum(r \cap A) \in Int /\ Sum(r \ A) \in Int
      BY <1>0 DEF Summable
    <2>7. Sum(s) = f[x] + Sum(r)
      BY <1>0, SumRemove
    <2>8. CASE x \in A
      <3>1. s \ A = r \ A /\ (s \cap A) \ {x} = r \cap A /\ x \in s \cap A
        BY <2>8
      <3>2. Sum(s \cap A) = f[x] + Sum(r \cap A)
        BY <3>1, <1>0, SumRemove
      <3>3. Sum(s) = Sum(s \cap A) + Sum(s \ A)
        <4> DEFINE p == Sum(r \cap A)
                   q == Sum(r \ A)
        <4>1. Sum(s \ A) = q
          BY <3>1
        <4>2. Sum(s \cap A) = f[x] + p
          BY <3>2
        <4>3. Sum(s) = f[x] + (p + q)
          BY <2>5, <2>7
        <4>4. p \in Int /\ q \in Int /\ f[x] \in Int
          BY <2>6
        <4> HIDE DEF Sum, p, q
        <4> QED
          BY <4>1, <4>2, <4>3, <4>4
      <3> QED
        BY <3>3
    <2>9. CASE x \notin A
      <3>1. s \cap A = r \cap A /\ (s \ A) \ {x} = r \ A /\ x \in s \ A
        BY <2>9
      <3>2. Sum(s \ A) = f[x] + Sum(r \ A)
        BY <3>1, <1>0, SumRemove
      <3>3. Sum(s) = Sum(s \cap A) + Sum(s \ A)
        <4> DEFINE p == Sum(r \cap A)
                   q == Sum(r \ A)
        <4>1. Sum(s \cap A) = p
          BY <3>1
        <4>2. Sum(s \ A) = f[x] + q
          BY <3>2
        <4>3. Sum(s) = f[x] + (p + q)
          BY <2>5, <2>7
        <4>4. p \in Int /\ q \in Int /\ f[x] \in Int
          BY <2>6
        <4> HIDE DEF Sum, p, q
        <4> QED
          BY <4>1, <4>2, <4>3, <4>4
      <3> QED
        BY <3>3
    <2> QED
      BY <2>8, <2>9
  <1> QED
    BY <1>1

(* A sum of equal terms.                                                   *)
LEMMA SumConst ==
    ASSUME NEW S, IsFiniteSet(S), NEW k \in Int, NEW f, \A x \in S : f[x] = k
    PROVE  SumFunctionOnSet(f, S) = k * Cardinality(S)
  <1> DEFINE Sum(s) == SumFunctionOnSet(f, s)
             Bad == {s \in SUBSET S : Sum(s) # k * Cardinality(s)}
  <1>0. \A s \in SUBSET S : IsFiniteSet(s) /\ Cardinality(s) \in Nat /\ Summable(f, s)
    BY FS_Subset, FS_CardinalityType DEF Summable
  <1>1. ASSUME Bad # {}
        PROVE  FALSE
    <2>1. FiniteFamily(Bad, S)
      BY <1>0, <1>1 DEF FiniteFamily
    <2>2. PICK s \in Bad : \A u \in Bad : u \subseteq s => u = s
      <3> HIDE DEF Bad
      <3> QED
        BY <2>1, SmallestSet
    <2>3. PICK x \in s : TRUE
      <3>1. Sum({}) = 0 /\ Cardinality({}) = 0
        BY SumEmpty, FS_EmptySet
      <3> HIDE DEF Sum
      <3> QED
        BY <3>1
    <2>4. Sum(s \ {x}) = k * Cardinality(s \ {x})
      <3> HIDE DEF Sum
      <3> QED
        BY <2>2, <2>3
    <2>5. Sum(s) = k + Sum(s \ {x})
      BY <1>0, <2>3, SumRemove
    <2>6. Cardinality(s \ {x}) = Cardinality(s) - 1
      BY <1>0, <2>3, FS_RemoveElement
    <2> DEFINE n == Cardinality(s)
    <2>7. n \in Nat /\ Sum(s) = k + k * (n - 1) /\ Sum(s) # k * n
      BY <1>0, <2>4, <2>5, <2>6
    <2> HIDE DEF Sum, n
    <2> QED
      BY <2>7
  <1> QED
    BY <1>1

(* A sum is the sum over two parts that cover it and do not overlap.       *)
LEMMA SumParts ==
    ASSUME NEW S, NEW f, Summable(f, S), NEW A \in SUBSET S, NEW B \in SUBSET S,
           S = A \cup B, A \cap B = {}
    PROVE  SumFunctionOnSet(f, S) = SumFunctionOnSet(f, A) + SumFunctionOnSet(f, B)
  <1>1. S \cap A = A /\ S \ A = B
    OBVIOUS
  <1> QED
    BY <1>1, SumSplit

(* A part of a sum of naturals is no more than the whole.                  *)
LEMMA SumOfPart ==
    ASSUME NEW S, NEW f, Summable(f, S), \A x \in S : f[x] \in Nat, NEW A \in SUBSET S
    PROVE  SumFunctionOnSet(f, A) <= SumFunctionOnSet(f, S)
  <1>1. Summable(f, A) /\ Summable(f, S \ A)
    BY SummablePart
  <1>2. SumFunctionOnSet(f, A) \in Nat /\ SumFunctionOnSet(f, S \ A) \in Nat
    BY <1>1, SumNat
  <1>3. S \cap A = A
    OBVIOUS
  <1>4. SumFunctionOnSet(f, S) = SumFunctionOnSet(f, S \cap A) + SumFunctionOnSet(f, S \ A)
    BY SumSplit
  <1> QED
    BY <1>2, <1>3, <1>4

(* cls sorts S into the classes of R, and g has the sum of each.           *)
Sorted(cls, S, R, f, g) ==
    /\ \A x \in S : cls[x] \in R
    /\ \A r \in R : g[r] = SumFunctionOnSet(f, {x \in S : cls[x] = r})

(* The sums of the classes add up to the sum of all.                       *)
LEMMA SumByClass ==
    ASSUME NEW S, NEW f, Summable(f, S), NEW R, IsFiniteSet(R), NEW cls, NEW g,
           Sorted(cls, S, R, f, g)
    PROVE  Summable(g, R) /\ SumFunctionOnSet(g, R) = SumFunctionOnSet(f, S)
  <1> DEFINE Of(q) == {x \in S : cls[x] \in q}
             Sum(q) == SumFunctionOnSet(f, Of(q))
             Bad == {q \in SUBSET R : Sum(q) # SumFunctionOnSet(g, q)}
  <1>0. ASSUME NEW q \in SUBSET S
        PROVE  Summable(f, q) /\ SumFunctionOnSet(f, q) \in Int
    BY SummablePart, SumInt
  <1>s. Summable(g, R)
    <2>1. ASSUME NEW r \in R PROVE g[r] \in Int
      <3>1. {x \in S : cls[x] = r} \in SUBSET S
        OBVIOUS
      <3> QED
        BY <1>0, <3>1 DEF Sorted
    <2> QED
      BY <2>1 DEF Summable
  <1>1. ASSUME Bad # {}
        PROVE  FALSE
    <2>1. FiniteFamily(Bad, R)
      BY <1>1, FS_Subset DEF FiniteFamily
    <2>2. PICK q \in Bad : \A u \in Bad : u \subseteq q => u = q
      <3> HIDE DEF Bad
      <3> QED
        BY <2>1, SmallestSet
    <2>3. q # {}
      <3>1. Of({}) = {}
        OBVIOUS
      <3>2. Sum({}) = 0 /\ SumFunctionOnSet(g, {}) = 0
        BY <3>1, SumEmpty
      <3> HIDE DEF Sum
      <3> QED
        BY <3>2
    <2>4. PICK r \in q : TRUE
      BY <2>3
    <2>5. Sum(q \ {r}) = SumFunctionOnSet(g, q \ {r})
      <3> HIDE DEF Sum
      <3> QED
        BY <2>2, <2>4
    <2> DEFINE C == {x \in S : cls[x] = r}
    <2>6. /\ Of(q) \in SUBSET S /\ C \in SUBSET Of(q) /\ Of(q \ {r}) \in SUBSET Of(q)
          /\ Of(q) = C \cup Of(q \ {r}) /\ C \cap Of(q \ {r}) = {}
      OBVIOUS
    <2>7. Sum(q) = SumFunctionOnSet(f, C) + Sum(q \ {r})
      <3>1. Summable(f, Of(q))
        BY <1>0, <2>6
      <3> HIDE DEF Of, C
      <3>2. \A A, B \in SUBSET Of(q) : Of(q) = A \cup B /\ A \cap B = {} =>
                SumFunctionOnSet(f, Of(q)) = SumFunctionOnSet(f, A) + SumFunctionOnSet(f, B)
        BY <3>1, SumParts
      <3> QED
        BY <2>6, <3>2
    <2>8. g[r] = SumFunctionOnSet(f, C)
      BY <2>4 DEF Sorted
    <2>9. SumFunctionOnSet(g, q) = g[r] + SumFunctionOnSet(g, q \ {r})
      BY <1>s, <2>4, SummablePart, SumRemove
    <2> HIDE DEF Sum, C
    <2> QED
      BY <2>2, <2>5, <2>7, <2>8, <2>9 
  <1>2. Of(R) = S
    BY DEF Sorted
  <1>3. Sum(R) = SumFunctionOnSet(g, R)
    <2> HIDE DEF Sum
    <2> QED
      BY <1>1
  <1> QED
    BY <1>s, <1>2, <1>3

(* A count is a sum of ones.                                               *)
LEMMA CountIsSum ==
    ASSUME NEW S, IsFiniteSet(S)
    PROVE  Cardinality(S) = SumFunctionOnSet([x \in S |-> 1], S)
  <1>1. Cardinality(S) \in Nat
    BY FS_CardinalityType
  <1>2. SumFunctionOnSet([x \in S |-> 1], S) = 1 * Cardinality(S)
    BY SumConst
  <1> QED
    BY <1>1, <1>2

(* g has the number in each class.                                         *)
Counted(cls, S, R, g) ==
    /\ \A x \in S : cls[x] \in R
    /\ \A r \in R : g[r] = Cardinality({x \in S : cls[x] = r})

LEMMA CountByClass ==
    ASSUME NEW S, IsFiniteSet(S), NEW R, IsFiniteSet(R), NEW cls, NEW g,
           Counted(cls, S, R, g)
    PROVE  SumFunctionOnSet(g, R) = Cardinality(S)
  <1> DEFINE one == [x \in S |-> 1]
  <1>1. Summable(one, S)
    BY DEF Summable
  <1>2. ASSUME NEW r \in R
        PROVE  g[r] = SumFunctionOnSet(one, {x \in S : cls[x] = r})
    <2> DEFINE C == {x \in S : cls[x] = r}
    <2>1. IsFiniteSet(C)
      BY FS_Subset
    <2>2. Cardinality(C) = SumFunctionOnSet([x \in C |-> 1], C)
      BY <2>1, CountIsSum
    <2>3. Summable([x \in C |-> 1], C)
      BY <2>1 DEF Summable
    <2>4. SumFunctionOnSet(one, C) = SumFunctionOnSet([x \in C |-> 1], C)
      BY <2>3, SumSame
    <2> QED
      BY <2>2, <2>4 DEF Counted
  <1>3. Sorted(cls, S, R, one, g)
    BY <1>2 DEF Sorted, Counted
  <1>4. SumFunctionOnSet(g, R) = SumFunctionOnSet(one, S)
    BY <1>1, <1>3, SumByClass
  <1> QED
    BY <1>4, CountIsSum

(* Sums are subtracted term by term.                                       *)
Difference(h, f, g, S) == \A x \in S : h[x] = f[x] - g[x]

LEMMA SumDifference ==
    ASSUME NEW S, NEW f, NEW g, NEW h, Summable(f, S), Summable(g, S),
           Difference(h, f, g, S)
    PROVE  SumFunctionOnSet(h, S) = SumFunctionOnSet(f, S) - SumFunctionOnSet(g, S)
  <1> DEFINE F(s) == SumFunctionOnSet(f, s)
             G(s) == SumFunctionOnSet(g, s)
             H(s) == SumFunctionOnSet(h, s)
             Bad == {s \in SUBSET S : H(s) # F(s) - G(s)}
  <1>1. Summable(h, S)
    BY DEF Summable, Difference
  <1>2. ASSUME Bad # {}
        PROVE  FALSE
    <2>1. FiniteFamily(Bad, S)
      BY <1>2, FS_Subset DEF FiniteFamily, Summable
    <2>2. PICK s \in Bad : \A u \in Bad : u \subseteq s => u = s
      <3> HIDE DEF Bad
      <3> QED
        BY <2>1, SmallestSet
    <2>3. PICK x \in s : TRUE
      <3>1. F({}) = 0 /\ G({}) = 0 /\ H({}) = 0
        BY SumEmpty
      <3> HIDE DEF F, G, H
      <3> QED
        BY <3>1
    <2>4. H(s \ {x}) = F(s \ {x}) - G(s \ {x})
      <3> HIDE DEF F, G, H
      <3> QED
        BY <2>2, <2>3
    <2>5. /\ F(s) = f[x] + F(s \ {x}) /\ F(s \ {x}) \in Int
          /\ G(s) = g[x] + G(s \ {x}) /\ G(s \ {x}) \in Int
      BY <2>3, SummablePart, SumRemove, SumInt
    <2>6. H(s) = h[x] + H(s \ {x})
      BY <1>1, <2>3, SummablePart, SumRemove
    <2>7. f[x] \in Int /\ g[x] \in Int /\ h[x] = f[x] - g[x]
      BY <2>2, <2>3 DEF Summable, Difference
    <2>8. H(s) # F(s) - G(s)
      BY <2>2
    <2> HIDE DEF F, G, H
    <2> QED
      BY <2>4, <2>5, <2>6, <2>7, <2>8
  <1>3. H(S) = F(S) - G(S)
    <2> HIDE DEF F, G, H
    <2> QED
      BY <1>2
  <1> QED
    BY <1>3

(* A sum may be taken in any numbering of its elements.                    *)
Lists(g, S, R, h, f) ==
    /\ \A i \in S : g[i] \in R /\ h[i] = f[g[i]]
    /\ \A i, j \in S : g[i] = g[j] => i = j
    /\ R = {g[i] : i \in S}
    /\ \A y \in R : f[y] \in Int

(* Both numberings have the same sum.                                      *)
LEMMA SumReindex ==
    ASSUME NEW S, IsFiniteSet(S), NEW R, NEW g, NEW h, NEW f, Lists(g, S, R, h, f)
    PROVE  SumFunctionOnSet(h, S) = SumFunctionOnSet(f, R)
  <1> USE DEF Lists
  <1> DEFINE Image(s) == {g[i] : i \in s}
             Bad == {s \in SUBSET S : SumFunctionOnSet(h, s) # SumFunctionOnSet(f, Image(s))}
  <1>1. ASSUME NEW s \in SUBSET S
        PROVE  Summable(h, s) /\ Summable(f, Image(s))
    <2>1. IsFiniteSet(s)
      BY FS_Subset
    <2>2. IsFiniteSet(Image(s))
      <3> DEFINE onto == [i \in s |-> g[i]]
      <3>1. onto \in Surjection(s, Image(s))
        BY DEF Surjection
      <3> HIDE DEF onto, Image
      <3> QED
        BY <2>1, <3>1, FS_Surjection
    <2> QED
      BY <2>1, <2>2 DEF Summable
  <1>2. ASSUME Bad # {}
        PROVE  FALSE
    <2>1. FiniteFamily(Bad, S)
      BY <1>1, <1>2 DEF FiniteFamily, Summable
    <2>2. PICK s \in Bad : \A u \in Bad : u \subseteq s => u = s
      <3> HIDE DEF Bad
      <3> QED
        BY <2>1, SmallestSet
    <2>3. PICK x \in s : TRUE
      <3>1. Image({}) = {}
        OBVIOUS
      <3>2. SumFunctionOnSet(h, {}) = 0 /\ SumFunctionOnSet(f, {}) = 0
        BY SumEmpty
      <3> HIDE DEF Image
      <3> QED
        BY <3>1, <3>2
    <2>4. SumFunctionOnSet(h, s \ {x}) = SumFunctionOnSet(f, Image(s \ {x}))
      <3> HIDE DEF Image
      <3> QED
        BY <2>2, <2>3
    <2>5. SumFunctionOnSet(h, s) = h[x] + SumFunctionOnSet(h, s \ {x})
      <3> QED
        BY <1>1, SumRemove
    <2>6. Image(s) \ {g[x]} = Image(s \ {x}) /\ g[x] \in Image(s)
      OBVIOUS
    <2>7. SumFunctionOnSet(f, Image(s)) = f[g[x]] + SumFunctionOnSet(f, Image(s \ {x}))
      <3>1. Summable(f, Image(s))
        BY <1>1, <2>1
      <3> HIDE DEF Image, Bad
      <3>2. SumFunctionOnSet(f, Image(s)) = f[g[x]] + SumFunctionOnSet(f, Image(s) \ {g[x]})
        BY <2>6, <3>1, SumRemove
      <3> QED
        BY <2>6, <3>2
    <2>8. h[x] = f[g[x]]
      OBVIOUS
    <2> HIDE DEF Image
    <2> QED
      BY <2>4, <2>5, <2>7, <2>8
  <1>3. S \notin Bad
    BY <1>2
  <1> QED
    BY <1>3

(* Differences add up to the difference of the ends.                       *)
LEMMA SumTelescope ==
    ASSUME NEW n \in Nat, NEW h, \A i \in 0..n : h[i] \in Int,
           NEW f, \A i \in 1..n : f[i] = h[i] - h[i - 1]
    PROVE  SumFunctionOnSet(f, 1..n) = h[n] - h[0]
  <1> DEFINE Sum(m) == SumFunctionOnSet(f, 1..m)
             Bad == {m \in 0..n : Sum(m) # h[m] - h[0]}
  <1>0. \A i \in 1..n : f[i] \in Int
    <2> SUFFICES ASSUME NEW i \in 1..n PROVE f[i] \in Int
      OBVIOUS
    <2>1. i \in 0..n /\ i - 1 \in 0..n
      OBVIOUS
    <2> QED
      BY <2>1
  <1>1. ASSUME Bad # {}
        PROVE  FALSE
    <2>1. PICK m \in Bad : \A k \in Bad : m <= k
      <3>1. Bad \in SUBSET Nat
        OBVIOUS
      <3> HIDE DEF Bad
      <3> QED
        BY <1>1, <3>1, SmallestNumber
    <2>2. m # 0
      <3>1. 1..0 = {} /\ SumFunctionOnSet(f, {}) = 0
        BY SumEmpty
      <3>2. Sum(0) = 0 /\ h[0] \in Int
        BY <3>1
      <3> HIDE DEF Sum
      <3> QED
        BY <3>2
    <2>3. m \in 1..n /\ m - 1 \in 0..n
      BY <2>2
    <2>4. Sum(m - 1) = h[m - 1] - h[0]
      <3>1. m - 1 \notin Bad
        <4> HIDE DEF Bad
        <4> QED
          BY <2>1, <2>3
      <3> HIDE DEF Sum
      <3> QED
        BY <2>3, <3>1
    <2>5. (1..m) \ {m} = 1..(m - 1) /\ m \in 1..m
      BY <2>3
    <2>6. Summable(f, 1..m)
      BY <1>0, <2>3, FS_Interval DEF Summable
    <2>7. Sum(m) = f[m] + Sum(m - 1)
      <3>1. SumFunctionOnSet(f, 1..m) = f[m] + SumFunctionOnSet(f, (1..m) \ {m})
        BY <2>5, <2>6, SumRemove
      <3> QED
        BY <2>5, <3>1
    <2>8. /\ f[m] = h[m] - h[m - 1] /\ h[m] \in Int /\ h[m - 1] \in Int /\ h[0] \in Int
          /\ Sum(m) # h[m] - h[0]
      BY <2>3
    <2> HIDE DEF Sum
    <2> QED
      BY <2>4, <2>7, <2>8
  <1>2. n \notin Bad /\ n \in 0..n
    BY <1>1
  <1> QED
    BY <1>2

(* A fold that takes the last index first, as those over sequences do.     *)
Walkable(n, T, base, op) ==
    n \in Nat /\ base \in T /\ \A i \in 1..n, y \in T : op[i][y] \in T

(* The values of such a fold.                                              *)
Walked(it, n, T, base, op) ==
    /\ it \in [SUBSET (1..n) -> T]
    /\ \A s \in SUBSET (1..n) :
          it[s] = IF s = {} THEN base ELSE op[Max(s)][it[s \ {Max(s)}]]

(* There are such values.                                                  *)
LEMMA FoldOnMax ==
    ASSUME NEW n, NEW T, NEW base, NEW op, Walkable(n, T, base, op)
    PROVE  \E it : Walked(it, n, T, base, op)
  <1> DEFINE D == 1..n
             pick == [s \in SUBSET D |-> Max(s)]
  <1>0. n \in Nat /\ base \in T
    BY DEF Walkable
  <1>1. \A s \in SUBSET D : s # {} => pick[s] \in s /\ pick[s] = Max(s)
    BY <1>0, LargestNumber
  <1>2. IsFiniteSet(D)
    BY <1>0, FS_Interval
  <1>3. \A i \in D, y \in T : op[i][y] \in T
    BY DEF Walkable
  <1> HIDE DEF pick, D
  <1>4. FoldData(D, T, base, pick, op)
    BY <1>0, <1>1, <1>2, <1>3 DEF FoldData
  <1>5. PICK it : IsFold(it, D, T, base, pick, op)
    BY <1>4, FoldExists
  <1>6. \A s \in SUBSET D : it[s] = IF s = {} THEN base ELSE op[Max(s)][it[s \ {Max(s)}]]
    BY <1>1, <1>5 DEF IsFold
  <1> QED
    BY <1>5, <1>6 DEF IsFold, Walked, D

(* What such a fold makes of the first elements.                           *)
LEMMA LastFirst ==
    ASSUME NEW n \in Nat, NEW m \in 1..n
    PROVE  /\ 1..m \in SUBSET (1..n) /\ 1..m # {}
           /\ Max(1..m) = m
           /\ (1..m) \ {m} = 1..(m - 1)
  <1>1. m \in Nat /\ (1..m) \in SUBSET (1..m) /\ 1..m # {} /\ m \in 1..m
    OBVIOUS
  <1>2. Max(1..m) \in 1..m /\ m <= Max(1..m)
    BY <1>1, LargestNumber
  <1> QED
    BY <1>2

----------------------------------------------------------------------------
(* Finite sets in the order of a number                                    *)

(* The sequence s lists S in the order of the numbers f.                   *)
InOrder(s, f, S) ==
    /\ s \in [1..Cardinality(S) -> S]
    /\ \A i, j \in 1..Cardinality(S) : i < j => f[s[i]] < f[s[j]]

(* A finite set with different numbers can be put in their order.          *)
LEMMA OrderExists ==
    ASSUME NEW S, IsFiniteSet(S), NEW f, \A x \in S : f[x] \in Nat,
           \A x, y \in S : x # y => f[x] # f[y]
    PROVE  \E s : InOrder(s, f, S)
  <1> DEFINE Bad == {R \in SUBSET S : ~\E s : InOrder(s, f, R)}
  <1>0. \A R \in SUBSET S : IsFiniteSet(R) /\ Cardinality(R) \in Nat
    BY FS_Subset, FS_CardinalityType
  <1>1. ASSUME Bad # {}
        PROVE  FALSE
    <2>1. FiniteFamily(Bad, S)
      BY <1>0, <1>1 DEF FiniteFamily
    <2>2. PICK R \in Bad : \A u \in Bad : u \subseteq R => u = R
      <3> HIDE DEF Bad
      <3> QED
        BY <2>1, SmallestSet
    <2>3. R # {}
      <3>1. Cardinality({}) = 0 /\ 1..0 = {}
        BY FS_EmptySet
      <3>2. InOrder([i \in {} |-> 0], f, {})
        BY <3>1 DEF InOrder
      <3> HIDE DEF InOrder
      <3> QED
        BY <3>2
    <2>4. PICK x \in R : \A y \in R : f[y] <= f[x]
      BY <1>0, <2>3, GreatestValue
    <2> DEFINE Rest == R \ {x}
               n == Cardinality(R)
    <2>5. PICK t : InOrder(t, f, Rest)
      <3>1. Rest \in SUBSET S /\ Rest \notin Bad
        BY <2>2
      <3> HIDE DEF Rest, InOrder
      <3> QED
        BY <3>1
    <2>6. Cardinality(Rest) = n - 1 /\ n \in Nat \ {0}
      BY <1>0, <2>3, FS_RemoveElement, FS_EmptySet
    <2>a. /\ t \in [1..(n - 1) -> Rest]
          /\ \A i, j \in 1..(n - 1) : i < j => f[t[i]] < f[t[j]]
      BY <2>5, <2>6 DEF InOrder
    <2> HIDE DEF n
    <2> DEFINE s == [i \in 1..n |-> IF i = n THEN x ELSE t[i]]
    <2>b. \A i \in 1..n : i # n => i \in 1..(n - 1)
      BY <2>6
    <2>7. s \in [1..n -> R]
      BY <2>a, <2>b
    <2>8. ASSUME NEW i \in 1..n, NEW j \in 1..n, i < j
          PROVE  f[s[i]] < f[s[j]]
      <3>1. i \in 1..(n - 1) /\ s[i] = t[i] /\ t[i] \in Rest
        BY <2>a, <2>b, <2>6, <2>8
      <3>2. CASE j = n
        <4>1. s[j] = x /\ f[t[i]] <= f[x] /\ f[t[i]] # f[x]
          BY <2>4, <3>1, <3>2
        <4>2. f[t[i]] \in Nat /\ f[x] \in Nat
          BY <3>1
        <4> QED
          BY <3>1, <4>1, <4>2
      <3>3. CASE j # n
        <4>1. j \in 1..(n - 1) /\ s[j] = t[j]
          BY <3>3, <2>6
        <4> QED
          BY <2>a, <2>8, <3>1, <4>1
      <3> QED
        BY <3>2, <3>3
    <2>9. InOrder(s, f, R)
      <3> HIDE DEF s
      <3> QED
        BY <2>7, <2>8 DEF InOrder, n
    <2> QED
      BY <2>9
  <1> QED
    BY <1>1

(* Such an order names every element once.                                 *)
LEMMA OrderIsOneToOne ==
    ASSUME NEW S, IsFiniteSet(S), NEW f, \A x \in S : f[x] \in Nat,
           NEW s, InOrder(s, f, S)
    PROVE  /\ \A i, j \in 1..Cardinality(S) : s[i] = s[j] => i = j
           /\ {s[i] : i \in 1..Cardinality(S)} = S
  <1> DEFINE n == Cardinality(S)
             D == 1..n
  <1>0. n \in Nat /\ IsFiniteSet(D) /\ Cardinality(D) = n
    BY FS_CardinalityType, FS_Interval
  <1>1. ASSUME NEW i \in D, NEW j \in D, s[i] = s[j]
        PROVE  i = j
    <2>1. f[s[i]] \in Nat
      BY DEF InOrder
    <2>2. ~(i < j) /\ ~(j < i)
      BY <1>1, <2>1 DEF InOrder
    <2> QED
      BY <1>0, <2>2
  <1>2. s \in Injection(D, S)
    BY <1>1 DEF InOrder, Injection, IsInjective
  <1>3. s \in Surjection(D, S)
    BY <1>0, <1>2, FS_Injection
  <1> QED
    BY <1>1, <1>3 DEF Surjection
============================================================================
