----------------------------- MODULE SumProofs -----------------------------
(***************************************************************************)
(* Sums over finite sets, which what a ledger has for a due, what a space  *)
(* is owed and what a checkout's dues come to all are.                     *)
(*                                                                         *)
(* A sum over a finite set is a fold whose value the community module      *)
(* chooses as the function that satisfies an equation: that there is one   *)
(* for every finite set, and that it adds the elements up in any order, is *)
(* shown by way of a smallest set for which it fails.                      *)
(***************************************************************************)
EXTENDS Integers, Functions, FiniteSetTheorems, WellFoundedInduction, TLAPS

-----------------------------------------------------------------------------
(* Least elements                                                          *)

(* Of a collection of finite sets, one contains no other.                   *)
LEMMA SmallestSubset ==
  ASSUME NEW S, IsFiniteSet(S), NEW C, C \subseteq SUBSET S, C # {}
  PROVE  \E T \in C : \A U \in C : U \subseteq T => U = T
<1>1. IsWellFoundedOn(StrictSubsetOrdering(S), SUBSET S)
  BY FS_StrictSubsetOrderingWellFounded, FS_FiniteSubsetsOfFinite
<1>2. PICK T \in C : \A U \in C : <<U, T>> \notin StrictSubsetOrdering(S)
  BY <1>1, WFMin
<1>3. \A U \in C : U \subseteq T => U = T
  BY <1>2 DEF StrictSubsetOrdering
<1> QED BY <1>3

(* Of some natural numbers, one is the least.                               *)
LEMMA LeastNumber ==
  ASSUME NEW C, C \subseteq Nat, C # {}
  PROVE  \E n \in C : \A m \in C : n <= m
<1>1. PICK n \in C : \A m \in C : <<m, n>> \notin OpToRel(<, Nat)
  BY NatLessThanWellFounded, WFMin
<1>2. \A m \in C : ~(m < n)
  BY <1>1 DEF OpToRel
<1> QED BY <1>2

-----------------------------------------------------------------------------
(* Sums                                                                    *)

Pick(s) == CHOOSE x \in s : TRUE

(* The sums of f over the subsets of S.                                     *)
Adds(iter, f, S) == iter = [s \in SUBSET S |-> IF s = {} THEN 0 ELSE f[Pick(s)] + iter[s \ {Pick(s)}]]

Sums(f, S) == CHOOSE iter : iter = [s \in SUBSET S |-> IF s = {} THEN 0 ELSE f[Pick(s)] + iter[s \ {Pick(s)}]]

(* The fold is the recursion over all subsets, at the whole set.            *)
LEMMA SumIsFold == ASSUME NEW f, NEW S PROVE SumFunctionOnSet(f, S) = Sums(f, S)[S]
  BY DEF SumFunctionOnSet, FoldFunctionOnSet, MapThenFoldSet, Sums, Pick

(* Where some function satisfies the equation, the chosen one does.         *)
LEMMA SumsAdds ==
  ASSUME NEW f, NEW S, NEW g, Adds(g, f, S)
  PROVE  Adds(Sums(f, S), f, S)
<1>1. \E iter : iter = [s \in SUBSET S |-> IF s = {} THEN 0 ELSE f[Pick(s)] + iter[s \ {Pick(s)}]]
  BY DEF Adds
<1> QED BY <1>1 DEF Sums, Adds

(* What the equation says, subset by subset.                                *)
LEMMA AddsAt ==
  ASSUME NEW f, NEW S, NEW g, Adds(g, f, S)
  PROVE  /\ g[{}] = 0
         /\ \A s \in SUBSET S : s # {} => g[s] = f[Pick(s)] + g[s \ {Pick(s)}]
<1>1. \A s \in SUBSET S : g[s] = IF s = {} THEN 0 ELSE f[Pick(s)] + g[s \ {Pick(s)}]
  BY DEF Adds
<1> QED BY <1>1

(* The element taken out is one of the set.                                 *)
LEMMA PickIsIn == ASSUME NEW s, s # {} PROVE Pick(s) \in s
  BY DEF Pick

(* Two such functions agree on a finite set.                                *)
LEMMA AddsAgree ==
  ASSUME NEW f, NEW S, NEW T, IsFiniteSet(T), T \subseteq S,
         NEW g, Adds(g, f, S), NEW h, Adds(h, f, T)
  PROVE  g[T] = h[T]
<1> DEFINE C == {s \in SUBSET T : g[s] # h[s]}
<1> SUFFICES ASSUME C # {} PROVE FALSE
  OBVIOUS
<1>1. PICK s \in C : \A u \in C : u \subseteq s => u = s
  <2>1. C \subseteq SUBSET T
    OBVIOUS
  <2> HIDE DEF C
  <2> QED BY <2>1, SmallestSubset
<1>2. s # {}
  BY <1>1, AddsAt
<1>3. s \ {Pick(s)} \in SUBSET T /\ s \ {Pick(s)} \notin C
  BY <1>1, <1>2, PickIsIn
<1>4. g[s \ {Pick(s)}] = h[s \ {Pick(s)}]
  BY <1>3
<1>5. g[s] = h[s]
  BY <1>1, <1>2, <1>4, AddsAt
<1> QED BY <1>1, <1>5

(* A finite set has its sums.                                               *)
LEMMA SumsExist ==
  ASSUME NEW f, NEW S, IsFiniteSet(S)
  PROVE  Adds(Sums(f, S), f, S)
<1> DEFINE C == {T \in SUBSET S : ~Adds(Sums(f, T), f, T)}
<1> SUFFICES ASSUME C # {} PROVE FALSE
  OBVIOUS
<1>1. PICK T \in C : \A U \in C : U \subseteq T => U = T
  <2>1. C \subseteq SUBSET S
    OBVIOUS
  <2> HIDE DEF C
  <2> QED BY <2>1, SmallestSubset
<1>2. \A U \in SUBSET T : IsFiniteSet(U) /\ (U # T => Adds(Sums(f, U), f, U))
  BY <1>1, FS_Subset
<1> DEFINE Last == IF T = {} THEN 0 ELSE f[Pick(T)] + Sums(f, T \ {Pick(T)})[T \ {Pick(T)}]
           g == [s \in SUBSET T |-> IF s = T THEN Last ELSE Sums(f, s)[s]]
<1>3. ASSUME NEW s \in SUBSET T, s # {}
      PROVE  g[s] = f[Pick(s)] + g[s \ {Pick(s)}]
  <2> DEFINE u == s \ {Pick(s)}
  <2>1. u \in SUBSET T /\ u # T /\ u \subseteq s
    BY <1>3, PickIsIn
  <2>2. g[u] = Sums(f, u)[u]
    BY <2>1
  <2>3. CASE s = T
    BY <1>3, <2>2, <2>3
  <2>4. CASE s # T
    <3>1. Adds(Sums(f, s), f, s) /\ Adds(Sums(f, u), f, u) /\ IsFiniteSet(u)
      BY <1>2, <2>1, <2>4
    <3> HIDE DEF u
    <3>2. u \subseteq s
      BY <2>1
    <3>3. Sums(f, s)[u] = Sums(f, u)[u]
      BY <3>1, <3>2, AddsAgree
    <3>4. Sums(f, s)[s] = f[Pick(s)] + Sums(f, s)[u]
      <4>1. \A v \in SUBSET s : v # {} => Sums(f, s)[v] = f[Pick(v)] + Sums(f, s)[v \ {Pick(v)}]
        BY <3>1, AddsAt
      <4> QED BY <1>3, <4>1 DEF u
    <3>5. g[s] = Sums(f, s)[s]
      BY <2>4
    <3> QED BY <2>2, <3>3, <3>4, <3>5 DEF u
  <2> QED BY <2>3, <2>4
<1>4. g[{}] = 0
  <2>1. CASE T = {}
    BY <2>1
  <2>2. CASE T # {}
    <3>1. Adds(Sums(f, {}), f, {})
      BY <1>2, <2>2
    <3>2. Sums(f, {})[{}] = 0
      BY <3>1, AddsAt
    <3> QED BY <2>2, <3>2
  <2> QED BY <2>1, <2>2
<1>5. Adds(g, f, T)
  <2>1. g = [s \in SUBSET T |-> g[s]]
    OBVIOUS
  <2> HIDE DEF g
  <2>2. \A s \in SUBSET T : g[s] = IF s = {} THEN 0 ELSE f[Pick(s)] + g[s \ {Pick(s)}]
    BY <1>3, <1>4
  <2>3. g = [s \in SUBSET T |-> IF s = {} THEN 0 ELSE f[Pick(s)] + g[s \ {Pick(s)}]]
    BY <2>1, <2>2
  <2> QED BY <2>3 DEF Adds
<1>6. Adds(Sums(f, T), f, T)
  <2> HIDE DEF g
  <2> QED BY <1>5, SumsAdds
<1> QED BY <1>1, <1>6

(* A set's sum is the same within any larger finite set.                    *)
LEMMA SumsAgree ==
  ASSUME NEW f, NEW S, IsFiniteSet(S), NEW T, T \subseteq S
  PROVE  Sums(f, S)[T] = Sums(f, T)[T]
<1>1. IsFiniteSet(T)
  BY FS_Subset
<1>2. Adds(Sums(f, S), f, S) /\ Adds(Sums(f, T), f, T)
  BY <1>1, SumsExist
<1> QED BY <1>1, <1>2, AddsAgree

(* The sum over nothing is 0, and any element may be taken first.           *)
LEMMA SumsAnyOrder ==
  ASSUME NEW S, IsFiniteSet(S), NEW f, \A x \in S : f[x] \in Int
  PROVE  \A T \in SUBSET S :
            /\ Sums(f, S)[T] \in Int
            /\ \A y \in T : Sums(f, S)[T] = f[y] + Sums(f, S)[T \ {y}]
<1> DEFINE g == Sums(f, S)
           Fine(T) == g[T] \in Int /\ \A y \in T : g[T] = f[y] + g[T \ {y}]
           C == {T \in SUBSET S : ~Fine(T)}
<1>0. /\ g[{}] = 0
      /\ \A s \in SUBSET S : s # {} => g[s] = f[Pick(s)] + g[s \ {Pick(s)}]
  BY SumsExist, AddsAt
<1> HIDE DEF g
<1>a. SUFFICES ASSUME C # {} PROVE FALSE
  BY DEF g
<1>1. PICK T \in C : \A U \in C : U \subseteq T => U = T
  <2>1. C \subseteq SUBSET S
    OBVIOUS
  <2> HIDE DEF C
  <2> QED BY <1>a, <2>1, SmallestSubset
<1>2. \A U \in SUBSET T : U # T => Fine(U)
  <2> HIDE DEF Fine
  <2> QED BY <1>1
<1>3. T # {}
  <2> SUFFICES ASSUME T = {} PROVE Fine(T)
    BY <1>1
  <2> QED BY <1>0
<1> DEFINE p == Pick(T)
<1>4. p \in T /\ T \in SUBSET S
  BY <1>1, <1>3, PickIsIn
<1> HIDE DEF p
<1>5. g[T] = f[p] + g[T \ {p}]
  BY <1>0, <1>3, <1>4 DEF p
<1>6. Fine(T \ {p})
  BY <1>2, <1>4
<1>7. ASSUME NEW y \in T PROVE g[T] = f[y] + g[T \ {y}]
  <2>1. CASE y = p
    BY <1>5, <2>1
  <2>2. CASE y # p
    <3>1. y \in T \ {p} /\ p \in T \ {y} /\ (T \ {p}) \ {y} = (T \ {y}) \ {p}
      BY <1>4, <2>2
    <3>2. Fine(T \ {y}) /\ Fine((T \ {y}) \ {p})
      BY <1>2, <1>4, <3>1
    <3>3. g[T \ {p}] = f[y] + g[(T \ {y}) \ {p}]
      BY <1>6, <3>1
    <3>4. g[T \ {y}] = f[p] + g[(T \ {y}) \ {p}]
      BY <3>1, <3>2
    <3>5. f[y] \in Int /\ f[p] \in Int /\ g[(T \ {y}) \ {p}] \in Int
      BY <1>4, <3>2
    <3> QED BY <1>5, <3>3, <3>4, <3>5
  <2> QED BY <2>1, <2>2
<1>8. g[T] \in Int
  BY <1>4, <1>5, <1>6
<1> QED BY <1>1, <1>7, <1>8

(* The sum of nothing is 0.                                                 *)
LEMMA SumOfNone == ASSUME NEW f PROVE SumFunctionOnSet(f, {}) = 0
<1>1. Adds(Sums(f, {}), f, {})
  BY SumsExist, FS_EmptySet
<1> QED BY <1>1, AddsAt, SumIsFold

(* A sum of integers is one.                                                *)
LEMMA SumIsInt ==
  ASSUME NEW S, IsFiniteSet(S), NEW f, \A x \in S : f[x] \in Int
  PROVE  SumFunctionOnSet(f, S) \in Int
  BY SumsAnyOrder, SumIsFold

(* The sum with one element more.                                           *)
LEMMA SumWith ==
  ASSUME NEW S, IsFiniteSet(S), NEW f, \A y \in S : f[y] \in Int,
         NEW x, x \notin S, f[x] \in Int
  PROVE  SumFunctionOnSet(f, S \cup {x}) = SumFunctionOnSet(f, S) + f[x]
<1> DEFINE U == S \cup {x}
<1>1. IsFiniteSet(U) /\ (\A y \in U : f[y] \in Int) /\ S \subseteq U /\ x \in U /\ U \ {x} = S
  BY FS_AddElement
<1> HIDE DEF U
<1>2. Sums(f, U)[U] = f[x] + Sums(f, U)[U \ {x}] /\ Sums(f, U)[S] \in Int
  BY <1>1, SumsAnyOrder
<1>3. Sums(f, U)[S] = Sums(f, S)[S]
  BY <1>1, SumsAgree
<1>4. PICK n \in Int : n = Sums(f, S)[S]
  BY <1>2, <1>3
<1>5. Sums(f, U)[U] = n + f[x]
  <2>1. Sums(f, U)[U] = f[x] + n
    BY <1>1, <1>2, <1>3, <1>4
  <2> QED BY <2>1
<1> QED BY <1>4, <1>5, SumIsFold DEF U

(* The sum depends on the values in the set only.                           *)
LEMMA SumSame ==
  ASSUME NEW S, IsFiniteSet(S), NEW f, NEW g, \A x \in S : f[x] = g[x]
  PROVE  SumFunctionOnSet(f, S) = SumFunctionOnSet(g, S)
<1> DEFINE C == {T \in SUBSET S : Sums(f, S)[T] # Sums(g, S)[T]}
<1> SUFFICES ASSUME C # {} PROVE FALSE
  BY SumIsFold
<1>1. PICK T \in C : \A U \in C : U \subseteq T => U = T
  <2>1. C \subseteq SUBSET S
    OBVIOUS
  <2> HIDE DEF C
  <2> QED BY <2>1, SmallestSubset
<1>2. Adds(Sums(f, S), f, S) /\ Adds(Sums(g, S), g, S)
  BY SumsExist
<1>3. T # {}
  BY <1>1, <1>2, AddsAt, ZenonT(60)
<1> DEFINE x == Pick(T)
           U == T \ {x}
<1>4. x \in T /\ T \in SUBSET S
  BY <1>1, <1>3, PickIsIn
<1>5. Sums(f, S)[T] = f[x] + Sums(f, S)[U]
  <2>1. \A s \in SUBSET S : s # {} => Sums(f, S)[s] = f[Pick(s)] + Sums(f, S)[s \ {Pick(s)}]
    BY <1>2, AddsAt
  <2> QED BY <1>3, <1>4, <2>1
<1>6. Sums(g, S)[T] = g[x] + Sums(g, S)[U]
  <2>1. \A s \in SUBSET S : s # {} => Sums(g, S)[s] = g[Pick(s)] + Sums(g, S)[s \ {Pick(s)}]
    BY <1>2, AddsAt
  <2> QED BY <1>3, <1>4, <2>1
<1> HIDE DEF x
<1>7. f[x] = g[x] /\ U \in SUBSET S /\ U \subseteq T /\ U # T
  BY <1>4
<1>8. Sums(f, S)[U] = Sums(g, S)[U]
  BY <1>1, <1>7
<1>9. Sums(f, S)[T] = Sums(g, S)[T]
  BY <1>5, <1>6, <1>7, <1>8
<1> QED BY <1>1, <1>9

(* The sum after one element has changed.                                   *)
LEMMA SumChanges ==
  ASSUME NEW S, IsFiniteSet(S), NEW x \in S,
         NEW f, \A y \in S : f[y] \in Int,
         NEW g, \A y \in S \ {x} : g[y] = f[y], g[x] \in Int
  PROVE  SumFunctionOnSet(g, S) = SumFunctionOnSet(f, S) + (g[x] - f[x])
<1> DEFINE T == S \ {x}
<1>1. IsFiniteSet(T) /\ T \cup {x} = S /\ x \notin T /\ f[x] \in Int
  BY FS_Subset
<1>2. (\A y \in T : f[y] \in Int) /\ (\A y \in T : g[y] \in Int) /\ (\A y \in T : g[y] = f[y])
  OBVIOUS
<1> HIDE DEF T
<1>3. SumFunctionOnSet(f, T \cup {x}) = SumFunctionOnSet(f, T) + f[x]
  BY <1>1, <1>2, SumWith
<1>4. SumFunctionOnSet(g, T \cup {x}) = SumFunctionOnSet(g, T) + g[x]
  BY <1>1, <1>2, SumWith
<1>5. SumFunctionOnSet(g, T) = SumFunctionOnSet(f, T)
  BY <1>1, <1>2, SumSame
<1>6. PICK n \in Int : SumFunctionOnSet(f, T) = n
  BY <1>1, <1>2, SumIsInt
<1>7. SumFunctionOnSet(f, S) = n + f[x] /\ SumFunctionOnSet(g, S) = n + g[x]
  BY <1>1, <1>3, <1>4, <1>5, <1>6
<1>8. n + g[x] = (n + f[x]) + (g[x] - f[x])
  BY <1>1
<1> QED BY <1>7, <1>8

(* Sums add up element by element.                                          *)
LEMMA SumOfSums ==
  ASSUME NEW S, IsFiniteSet(S),
         NEW f, \A x \in S : f[x] \in Int,
         NEW g, \A x \in S : g[x] \in Int,
         NEW h, \A x \in S : h[x] = f[x] + g[x]
  PROVE  SumFunctionOnSet(h, S) = SumFunctionOnSet(f, S) + SumFunctionOnSet(g, S)
<1> DEFINE Fine(T) == SumFunctionOnSet(h, T) = SumFunctionOnSet(f, T) + SumFunctionOnSet(g, T)
           C == {T \in SUBSET S : ~Fine(T)}
<1> HIDE DEF Fine
<1>a. SUFFICES ASSUME C # {} PROVE FALSE
  BY DEF Fine
<1>1. PICK T \in C : \A U \in C : U \subseteq T => U = T
  <2>1. C \subseteq SUBSET S
    OBVIOUS
  <2> HIDE DEF C
  <2> QED BY <1>a, <2>1, SmallestSubset
<1>2. CASE T = {}
  <2>1. Fine({})
    BY SumOfNone DEF Fine
  <2> QED BY <1>1, <1>2, <2>1
<1>3. ASSUME NEW x \in T PROVE FALSE
  <2> DEFINE U == T \ {x}
  <2>1. U \in SUBSET S /\ U \cup {x} = T /\ x \notin U /\ x \in S /\ Fine(U)
    BY <1>1, <1>3
  <2>2. IsFiniteSet(U)
    BY <2>1, FS_Subset
  <2>3. \A y \in U : f[y] \in Int /\ g[y] \in Int /\ h[y] \in Int
    BY <2>1
  <2>4. f[x] \in Int /\ g[x] \in Int /\ h[x] = f[x] + g[x] /\ h[x] \in Int
    BY <2>1
  <2> HIDE DEF U
  <2>5. SumFunctionOnSet(f, U \cup {x}) = SumFunctionOnSet(f, U) + f[x] /\ SumFunctionOnSet(f, U) \in Int
    BY <2>1, <2>2, <2>3, <2>4, SumWith, SumIsInt
  <2>6. SumFunctionOnSet(g, U \cup {x}) = SumFunctionOnSet(g, U) + g[x] /\ SumFunctionOnSet(g, U) \in Int
    BY <2>1, <2>2, <2>3, <2>4, SumWith, SumIsInt
  <2>7. SumFunctionOnSet(h, U \cup {x}) = SumFunctionOnSet(h, U) + h[x]
    BY <2>1, <2>2, <2>3, <2>4, SumWith
  <2>8. SumFunctionOnSet(h, U) = SumFunctionOnSet(f, U) + SumFunctionOnSet(g, U)
    BY <2>1 DEF Fine
  <2>9. PICK m \in Int, n \in Int : SumFunctionOnSet(f, U) = m /\ SumFunctionOnSet(g, U) = n
    BY <2>5, <2>6
  <2>10. SumFunctionOnSet(h, T) = (m + n) + (f[x] + g[x])
    BY <2>1, <2>4, <2>7, <2>8, <2>9
  <2>11. SumFunctionOnSet(f, T) = m + f[x] /\ SumFunctionOnSet(g, T) = n + g[x]
    BY <2>1, <2>5, <2>6, <2>9
  <2>12. (m + n) + (f[x] + g[x]) = (m + f[x]) + (n + g[x])
    BY <2>4
  <2>13. Fine(T)
    BY <2>10, <2>11, <2>12 DEF Fine
  <2> QED BY <1>1, <2>13
<1> QED BY <1>2, <1>3

(* A sum of zeros is 0.                                                     *)
LEMMA SumOfZeros ==
  ASSUME NEW S, IsFiniteSet(S), NEW f, \A x \in S : f[x] = 0
  PROVE  SumFunctionOnSet(f, S) = 0
<1>1. SumFunctionOnSet(f, S) = SumFunctionOnSet(f, S) + SumFunctionOnSet(f, S)
  BY SumOfSums
<1>2. SumFunctionOnSet(f, S) \in Int
  BY SumIsInt
<1>3. \A n \in Int : n = n + n => n = 0
  OBVIOUS
<1> QED BY <1>1, <1>2, <1>3

(* A sum of naturals is one.                                                *)
LEMMA SumOfNaturals ==
  ASSUME NEW S, IsFiniteSet(S), NEW f, \A x \in S : f[x] \in Nat
  PROVE  SumFunctionOnSet(f, S) \in Nat
<1> DEFINE Fine(T) == SumFunctionOnSet(f, T) \in Nat
           C == {T \in SUBSET S : ~Fine(T)}
<1> HIDE DEF Fine
<1>a. SUFFICES ASSUME C # {} PROVE FALSE
  BY DEF Fine
<1>1. PICK T \in C : \A U \in C : U \subseteq T => U = T
  <2>1. C \subseteq SUBSET S
    OBVIOUS
  <2> HIDE DEF C
  <2> QED BY <1>a, <2>1, SmallestSubset
<1>2. CASE T = {}
  <2>1. Fine({})
    BY SumOfNone DEF Fine
  <2> QED BY <1>1, <1>2, <2>1
<1>3. ASSUME NEW x \in T PROVE FALSE
  <2> DEFINE U == T \ {x}
  <2>1. U \in SUBSET S /\ U \cup {x} = T /\ x \notin U /\ x \in S /\ Fine(U)
    BY <1>1, <1>3
  <2>2. IsFiniteSet(U) /\ (\A y \in U : f[y] \in Int) /\ f[x] \in Nat
    BY <2>1, FS_Subset
  <2> HIDE DEF U
  <2>3. SumFunctionOnSet(f, U \cup {x}) = SumFunctionOnSet(f, U) + f[x]
    BY <2>1, <2>2, SumWith
  <2>4. PICK n \in Nat, k \in Nat : SumFunctionOnSet(f, U) = n /\ f[x] = k
    BY <2>1, <2>2 DEF Fine
  <2>5. SumFunctionOnSet(f, T) = n + k
    BY <2>1, <2>3, <2>4
  <2> QED BY <1>1, <2>5 DEF Fine
<1> QED BY <1>2, <1>3

(* A sum is at most that of what is nowhere less.                           *)
LEMMA SumIsMonotonic ==
  ASSUME NEW S, IsFiniteSet(S),
         NEW f, \A x \in S : f[x] \in Int,
         NEW g, \A x \in S : g[x] \in Int /\ f[x] <= g[x]
  PROVE  SumFunctionOnSet(f, S) <= SumFunctionOnSet(g, S)
<1> DEFINE h == [x \in S |-> g[x] - f[x]]
<1>1. \A x \in S : h[x] \in Nat /\ h[x] \in Int /\ g[x] = f[x] + h[x]
  OBVIOUS
<1> HIDE DEF h
<1>2. SumFunctionOnSet(g, S) = SumFunctionOnSet(f, S) + SumFunctionOnSet(h, S)
  BY <1>1, SumOfSums
<1>3. PICK m \in Int, n \in Nat : SumFunctionOnSet(f, S) = m /\ SumFunctionOnSet(h, S) = n
  BY <1>1, SumIsInt, SumOfNaturals
<1> QED BY <1>2, <1>3

(* The sum of naturals is at least any of them.                             *)
LEMMA SumIsAtLeast ==
  ASSUME NEW S, IsFiniteSet(S), NEW f, \A y \in S : f[y] \in Nat, NEW x \in S
  PROVE  f[x] <= SumFunctionOnSet(f, S)
<1> DEFINE T == S \ {x}
<1>1. IsFiniteSet(T) /\ T \cup {x} = S /\ x \notin T /\ (\A y \in T : f[y] \in Nat /\ f[y] \in Int)
      /\ f[x] \in Nat /\ f[x] \in Int
  BY FS_Subset
<1> HIDE DEF T
<1>2. SumFunctionOnSet(f, T \cup {x}) = SumFunctionOnSet(f, T) + f[x]
  BY <1>1, SumWith
<1>3. PICK n \in Nat, k \in Nat : SumFunctionOnSet(f, T) = n /\ f[x] = k
  BY <1>1, SumOfNaturals
<1>4. SumFunctionOnSet(f, S) = n + k
  BY <1>1, <1>2, <1>3
<1> QED BY <1>3, <1>4

(* A constant factor comes out of a sum.                                    *)
LEMMA SumOfMultiples ==
  ASSUME NEW S, IsFiniteSet(S), NEW c \in Int,
         NEW f, \A x \in S : f[x] \in Int,
         NEW g, \A x \in S : g[x] = c * f[x]
  PROVE  SumFunctionOnSet(g, S) = c * SumFunctionOnSet(f, S)
<1> DEFINE Fine(T) == SumFunctionOnSet(g, T) = c * SumFunctionOnSet(f, T)
           C == {T \in SUBSET S : ~Fine(T)}
<1> HIDE DEF Fine
<1>a. SUFFICES ASSUME C # {} PROVE FALSE
  BY DEF Fine
<1>1. PICK T \in C : \A U \in C : U \subseteq T => U = T
  <2>1. C \subseteq SUBSET S
    OBVIOUS
  <2> HIDE DEF C
  <2> QED BY <1>a, <2>1, SmallestSubset
<1>2. CASE T = {}
  <2>1. Fine({})
    BY SumOfNone DEF Fine
  <2> QED BY <1>1, <1>2, <2>1
<1>3. ASSUME NEW x \in T PROVE FALSE
  <2> DEFINE U == T \ {x}
  <2>1. U \in SUBSET S /\ U \cup {x} = T /\ x \notin U /\ x \in S /\ Fine(U)
    BY <1>1, <1>3
  <2>2. /\ IsFiniteSet(U) /\ (\A y \in U : f[y] \in Int /\ g[y] \in Int)
        /\ f[x] \in Int /\ g[x] \in Int /\ g[x] = c * f[x]
    BY <2>1, FS_Subset
  <2> HIDE DEF U
  <2>3. SumFunctionOnSet(f, U \cup {x}) = SumFunctionOnSet(f, U) + f[x] /\ SumFunctionOnSet(f, U) \in Int
    BY <2>1, <2>2, SumWith, SumIsInt
  <2>4. SumFunctionOnSet(g, U \cup {x}) = SumFunctionOnSet(g, U) + g[x]
    BY <2>1, <2>2, SumWith
  <2>5. PICK n \in Int, k \in Int : SumFunctionOnSet(f, U) = n /\ f[x] = k
    BY <2>2, <2>3
  <2>6. SumFunctionOnSet(f, T) = n + k /\ SumFunctionOnSet(g, T) = c * n + c * k
    BY <2>1, <2>2, <2>3, <2>4, <2>5 DEF Fine
  <2>7. c * n + c * k = c * (n + k)
    OBVIOUS
  <2> QED BY <1>1, <2>6, <2>7 DEF Fine
<1> QED BY <1>2, <1>3

(* A sum of ones counts.                                                    *)
LEMMA SumCounts ==
  ASSUME NEW S, IsFiniteSet(S), NEW A \in SUBSET S,
         NEW f, \A x \in S : f[x] = IF x \in A THEN 1 ELSE 0
  PROVE  SumFunctionOnSet(f, S) = Cardinality(A)
<1> DEFINE Fine(T) == SumFunctionOnSet(f, T) = Cardinality(A \cap T)
           C == {T \in SUBSET S : ~Fine(T)}
<1> HIDE DEF Fine
<1>a. SUFFICES ASSUME C # {} PROVE FALSE
  <2>1. A \cap S = A
    OBVIOUS
  <2> QED BY <2>1 DEF Fine
<1>1. PICK T \in C : \A U \in C : U \subseteq T => U = T
  <2>1. C \subseteq SUBSET S
    OBVIOUS
  <2> HIDE DEF C
  <2> QED BY <1>a, <2>1, SmallestSubset
<1>2. CASE T = {}
  <2>1. A \cap {} = {}
    OBVIOUS
  <2>2. Fine({})
    BY <2>1, SumOfNone, FS_EmptySet DEF Fine
  <2> QED BY <1>1, <1>2, <2>2
<1>3. ASSUME NEW x \in T PROVE FALSE
  <2> DEFINE U == T \ {x}
  <2>1. U \in SUBSET S /\ U \cup {x} = T /\ x \notin U /\ x \in S /\ Fine(U)
    BY <1>1, <1>3
  <2>2. IsFiniteSet(U) /\ IsFiniteSet(A \cap U) /\ (\A y \in U : f[y] \in Int) /\ f[x] \in Int
    BY <2>1, FS_Subset
  <2>3. f[x] = IF x \in A THEN 1 ELSE 0
    BY <2>1
  <2>4. A \cap T = IF x \in A THEN (A \cap U) \cup {x} ELSE A \cap U
    BY <2>1
  <2>5. x \notin A \cap U
    OBVIOUS
  <2> HIDE DEF U
  <2>6. PICK n \in Nat : Cardinality(A \cap U) = n
    BY <2>2, FS_CardinalityType
  <2>7. Cardinality(A \cap T) = n + f[x]
    <3>1. CASE x \in A
      <4>1. Cardinality((A \cap U) \cup {x}) = n + 1
        BY <2>2, <2>5, <2>6, FS_AddElement
      <4> QED BY <2>3, <2>4, <3>1, <4>1
    <3>2. CASE x \notin A
      BY <2>3, <2>4, <2>6, <3>2
    <3> QED BY <3>1, <3>2
  <2>8. SumFunctionOnSet(f, U \cup {x}) = SumFunctionOnSet(f, U) + f[x]
    BY <2>1, <2>2, SumWith
  <2>9. SumFunctionOnSet(f, T) = n + f[x]
    BY <2>1, <2>6, <2>8 DEF Fine
  <2> QED BY <1>1, <2>7, <2>9 DEF Fine
<1> QED BY <1>2, <1>3
=============================================================================
