---------------------------- MODULE MoneyProofs ----------------------------
(***************************************************************************)
(* Proofs about the arithmetic of Money, for checkouts of any number of    *)
(* dues at any prices, any withdrawal and discount, and any text the       *)
(* provider may write.                                                     *)
(*                                                                         *)
(* The split of a fee is the part that is not linear.  What each due falls *)
(* short after division is its remainder, and all of them together are     *)
(* what is left over, times the face (LeftIsOwed): so there are fewer kobo *)
(* left than dues that fall short (LeftIsLess).  Ranking the remainders is *)
(* a bijection (PlacesAreBijection), hence exactly as many dues are topped *)
(* up as there are kobo left.                                              *)
(***************************************************************************)
EXTENDS Money, SumProofs

-----------------------------------------------------------------------------
(* The order in which what is left over is handed out                      *)

(* Those that come before i: a larger value, or an equal one further left.  *)
Ahead(S, r, i) == {j \in S : r[j] > r[i] \/ (r[j] = r[i] /\ j < i)}

Place(S, r, i) == Cardinality(Ahead(S, r, i))

(* Who comes earlier has fewer before it.                                   *)
LEMMA EarlierIsLower ==
  ASSUME NEW S, S \subseteq Int, IsFiniteSet(S), NEW r, \A i \in S : r[i] \in Int,
         NEW i \in S, NEW j \in S, j \in Ahead(S, r, i)
  PROVE  Place(S, r, j) < Place(S, r, i)
<1>1. j \notin Ahead(S, r, j)
  BY DEF Ahead
<1>2. Ahead(S, r, j) \subseteq Ahead(S, r, i)
  <2> SUFFICES ASSUME NEW k \in Ahead(S, r, j) PROVE k \in Ahead(S, r, i)
    OBVIOUS
  <2>1. k \in S /\ i \in Int /\ j \in Int /\ k \in Int
    BY DEF Ahead
  <2>2. r[i] \in Int /\ r[j] \in Int /\ r[k] \in Int
    BY <2>1
  <2>3. r[k] > r[j] \/ (r[k] = r[j] /\ k < j)
    BY DEF Ahead
  <2>4. r[j] > r[i] \/ (r[j] = r[i] /\ j < i)
    BY DEF Ahead
  <2>5. r[k] > r[i] \/ (r[k] = r[i] /\ k < i)
    BY <2>1, <2>2, <2>3, <2>4
  <2> QED BY <2>1, <2>5 DEF Ahead
<1>3. IsFiniteSet(Ahead(S, r, i)) /\ IsFiniteSet(Ahead(S, r, j))
  <2>1. Ahead(S, r, i) \in SUBSET S /\ Ahead(S, r, j) \in SUBSET S
    BY DEF Ahead
  <2> QED BY <2>1, FS_Subset
<1>4. /\ Cardinality(Ahead(S, r, j)) <= Cardinality(Ahead(S, r, i))
      /\ Cardinality(Ahead(S, r, i)) = Cardinality(Ahead(S, r, j)) => Ahead(S, r, i) = Ahead(S, r, j)
  <2>1. Ahead(S, r, j) \in SUBSET Ahead(S, r, i)
    BY <1>2
  <2> HIDE DEF Ahead
  <2> QED BY <1>3, <2>1, FS_Subset
<1>5. PICK m \in Nat, n \in Nat : Cardinality(Ahead(S, r, j)) = m /\ Cardinality(Ahead(S, r, i)) = n
  BY <1>3, FS_CardinalityType
<1>6. m <= n /\ m # n
  BY <1>1, <1>4, <1>5
<1>7. m < n
  BY <1>6
<1> QED BY <1>5, <1>7 DEF Place

(* The places are 0 to the last, one each.                                  *)
LEMMA PlacesAreBijection ==
  ASSUME NEW n \in Nat, NEW r, \A i \in 1..n : r[i] \in Int
  PROVE  [i \in 1..n |-> Place(1..n, r, i)] \in Bijection(1..n, 0..(n - 1))
<1> DEFINE S == 1..n
           R == [i \in S |-> Place(S, r, i)]
<1>1. S \subseteq Int /\ IsFiniteSet(S) /\ Cardinality(S) = n
  BY FS_Interval
<1>2. IsFiniteSet(0..(n - 1)) /\ Cardinality(0..(n - 1)) = n
  <2>1. IsFiniteSet(0..(n - 1)) /\ Cardinality(0..(n - 1)) = IF 0 > n - 1 THEN 0 ELSE (n - 1) - 0 + 1
    BY FS_Interval
  <2> QED BY <2>1
<1>3. ASSUME NEW i \in S PROVE Place(S, r, i) \in 0..(n - 1)
  <2>1. Ahead(S, r, i) \in SUBSET (S \ {i})
    BY DEF Ahead
  <2>2. IsFiniteSet(S \ {i}) /\ Cardinality(S \ {i}) = n - 1
    BY <1>1, FS_RemoveElement
  <2> HIDE DEF S
  <2>3. IsFiniteSet(Ahead(S, r, i)) /\ Cardinality(Ahead(S, r, i)) <= n - 1
    BY <2>1, <2>2, FS_Subset
  <2>4. Cardinality(Ahead(S, r, i)) \in Nat
    BY <2>3, FS_CardinalityType
  <2> QED BY <2>3, <2>4 DEF Place
<1>4. ASSUME NEW i \in S, NEW j \in S, i # j PROVE Place(S, r, i) # Place(S, r, j)
  <2>1. i \in Int /\ j \in Int /\ r[i] \in Int /\ r[j] \in Int
    BY <1>1
  <2>2. i \in Ahead(S, r, j) \/ j \in Ahead(S, r, i)
    BY <1>4, <2>1 DEF Ahead
  <2>3. Place(S, r, i) < Place(S, r, j) \/ Place(S, r, j) < Place(S, r, i)
    <3> HIDE DEF S
    <3>1. \A k \in S : r[k] \in Int
      BY DEF S
    <3> QED BY <1>1, <2>2, <3>1, EarlierIsLower
  <2>4. Place(S, r, i) \in Int /\ Place(S, r, j) \in Int
    BY <1>3
  <2> HIDE DEF S
  <2> QED BY <2>3, <2>4
<1> HIDE DEF S
<1>5. R \in Injection(S, 0..(n - 1))
  <2>1. R \in [S -> 0..(n - 1)]
    BY <1>3
  <2> QED BY <1>4, <2>1 DEF Injection, IsInjective
<1>6. R \in Surjection(S, 0..(n - 1))
  BY <1>1, <1>2, <1>5, FS_Injection
<1> QED BY <1>5, <1>6 DEF Bijection, S

(* So k of them have one of the first k places.                             *)
LEMMA FirstPlaces ==
  ASSUME NEW n \in Nat, NEW r, \A i \in 1..n : r[i] \in Int, NEW k \in 0..n
  PROVE  Cardinality({i \in 1..n : Place(1..n, r, i) < k}) = k
<1> DEFINE R == [i \in 1..n |-> Place(1..n, r, i)]
           A == {i \in 1..n : Place(1..n, r, i) < k}
           Q == [i \in A |-> R[i]]
<1>1. R \in Injection(1..n, 0..(n - 1)) /\ R \in Surjection(1..n, 0..(n - 1))
  BY PlacesAreBijection DEF Bijection
<1>2. \A i \in 1..n : R[i] = Place(1..n, r, i)
  OBVIOUS
<1>3. A \subseteq 1..n /\ \A i \in A : R[i] < k
  OBVIOUS
<1>4. \A i \in 1..n : R[i] < k => i \in A
  OBVIOUS
<1> HIDE DEF R, A
<1>5. \A i \in 1..n : R[i] \in 0..(n - 1)
  BY <1>1 DEF Injection, IsInjective
<1>6. Q \in [A -> 0..(k - 1)]
  BY <1>3, <1>5
<1>7. Q \in Injection(A, 0..(k - 1))
  <2>1. \A i, j \in A : Q[i] = Q[j] => i = j
    BY <1>1, <1>3 DEF Injection, IsInjective
  <2> QED BY <1>6, <2>1 DEF Injection, IsInjective
<1>8. Q \in Surjection(A, 0..(k - 1))
  <2>1. ASSUME NEW p \in 0..(k - 1) PROVE \E i \in A : Q[i] = p
    <3>1. p \in 0..(n - 1) /\ p < k
      OBVIOUS
    <3>2. PICK i \in 1..n : R[i] = p
      BY <1>1, <3>1 DEF Surjection
    <3>3. i \in A
      BY <1>4, <3>1, <3>2
    <3> QED BY <3>2, <3>3
  <2> QED BY <1>6, <2>1 DEF Surjection
<1>9. IsFiniteSet(0..(k - 1)) /\ Cardinality(0..(k - 1)) = k
  <2>1. IsFiniteSet(0..(k - 1)) /\ Cardinality(0..(k - 1)) = IF 0 > k - 1 THEN 0 ELSE (k - 1) - 0 + 1
    BY FS_Interval
  <2> QED BY <2>1
<1> HIDE DEF Q
<1>10. Cardinality(A) = Cardinality(0..(k - 1))
  BY <1>7, <1>8, <1>9, FS_Injection
<1> QED BY <1>9, <1>10 DEF A

-----------------------------------------------------------------------------
(* Division                                                                 *)

(* Division leaves a remainder below the divisor.                           *)
LEMMA Quotient ==
  ASSUME NEW a \in Nat, NEW b \in Nat \ {0}
  PROVE  /\ a \div b \in Nat /\ a % b \in 0..(b - 1)
         /\ a = b * (a \div b) + (a % b)
  OBVIOUS

(* A common positive factor does not change an order.                       *)
LEMMA Scaled ==
  ASSUME NEW c \in Nat \ {0}, NEW m \in Int, NEW n \in Int, c * m <= c * n
  PROVE  m <= n
<1> SUFFICES ASSUME m >= n + 1 PROVE FALSE
  OBVIOUS
<1>1. PICK d \in Nat : m = n + 1 + d
  <2>1. m - n - 1 \in Nat /\ m = n + 1 + (m - n - 1)
    OBVIOUS
  <2> QED BY <2>1
<1>2. c * m = c * n + c + c * d
  BY <1>1
<1>3. c * d \in Nat /\ c * n \in Int
  OBVIOUS
<1> QED BY <1>2, <1>3
-----------------------------------------------------------------------------
(* allocate                                                                 *)

(* What a due gets before the rest is handed out, and what it falls short.  *)
Parts(total, weights) == [i \in DOMAIN weights |-> (total * weights[i]) \div SumSeq(weights)]
Rems(total, weights) == [i \in DOMAIN weights |-> (total * weights[i]) % SumSeq(weights)]

(* What is left of the total.                                               *)
Left(total, weights) == total - SumSeq(Parts(total, weights))

(* Weights with something to spread over them.                              *)
Weights == UNION {[1..n -> Nat \ {0}] : n \in Nat \ {0}}

(* They come to something.                                                  *)
LEMMA SumOfWeights ==
  ASSUME NEW w \in Weights
  PROVE  /\ \E n \in Nat \ {0} : DOMAIN w = 1..n
         /\ IsFiniteSet(DOMAIN w) /\ \A i \in DOMAIN w : w[i] \in Nat \ {0} /\ w[i] \in Int
         /\ SumSeq(w) \in Nat \ {0}
<1>1. PICK n \in Nat \ {0} : w \in [1..n -> Nat \ {0}]
  BY DEF Weights
<1>2. DOMAIN w = 1..n /\ IsFiniteSet(DOMAIN w) /\ 1 \in DOMAIN w
  BY <1>1, FS_Interval
<1>3. \A i \in DOMAIN w : w[i] \in Nat \ {0} /\ w[i] \in Nat /\ w[i] \in Int
  BY <1>1
<1>4. SumFunctionOnSet(w, DOMAIN w) \in Nat /\ w[1] <= SumFunctionOnSet(w, DOMAIN w)
  BY <1>2, <1>3, SumOfNaturals, SumIsAtLeast
<1>5. SumSeq(w) \in Nat \ {0}
  BY <1>2, <1>3, <1>4 DEF SumSeq, SumFunction
<1> QED BY <1>2, <1>3, <1>5

(* Part and remainder make up the exact share.                              *)
LEMMA PartsAndRems ==
  ASSUME NEW w \in Weights, NEW total \in Nat, NEW i \in DOMAIN w
  PROVE  /\ Parts(total, w)[i] \in Nat
         /\ Rems(total, w)[i] \in 0..(SumSeq(w) - 1)
         /\ total * w[i] = SumSeq(w) * Parts(total, w)[i] + Rems(total, w)[i]
<1>1. total * w[i] \in Nat /\ SumSeq(w) \in Nat \ {0}
  BY SumOfWeights
<1>2. PICK a \in Nat, b \in Nat \ {0} : a = total * w[i] /\ b = SumSeq(w)
  BY <1>1
<1>3. Parts(total, w)[i] = a \div b /\ Rems(total, w)[i] = a % b
  BY <1>2 DEF Parts, Rems
<1> QED BY <1>2, <1>3, Quotient

(* Rank is the place among the remainders, the largest first.               *)
LEMMA RankIsPlace ==
  ASSUME NEW w, NEW total, NEW i \in DOMAIN w
  PROVE  Rank(total, w, i) = Place(DOMAIN w, Rems(total, w), i)
  BY DEF Rank, Place, Ahead, Rems

(* The shares are the parts, one more for those that come first.            *)
LEMMA AllocateAt ==
  ASSUME NEW w, NEW total
  PROVE  /\ DOMAIN Allocate(total, w) = DOMAIN w
         /\ \A i \in DOMAIN w :
              Allocate(total, w)[i] = IF Place(DOMAIN w, Rems(total, w), i) < Left(total, w)
                                      THEN Parts(total, w)[i] + 1 ELSE Parts(total, w)[i]
  BY RankIsPlace DEF Allocate, Left, Parts

(* What is left is the sum of what the dues fall short ...                  *)
LEMMA LeftIsOwed ==
  ASSUME NEW w \in Weights, NEW total \in Nat
  PROVE  /\ Left(total, w) \in Int
         /\ SumSeq(w) * Left(total, w) = SumFunctionOnSet(Rems(total, w), DOMAIN w)
<1> DEFINE S == DOMAIN w
           W == SumSeq(w)
           p == Parts(total, w)
           r == Rems(total, w)
           product == [i \in S |-> total * w[i]]
           multiple == [i \in S |-> W * p[i]]
<1>1. IsFiniteSet(S) /\ W \in Int /\ \A i \in S : w[i] \in Int
  BY SumOfWeights
<1>2. \A i \in S : p[i] \in Int /\ r[i] \in Int /\ total * w[i] = W * p[i] + r[i]
  <2> SUFFICES ASSUME NEW i \in S PROVE p[i] \in Int /\ r[i] \in Int /\ total * w[i] = W * p[i] + r[i]
    OBVIOUS
  <2>1. /\ Parts(total, w)[i] \in Nat /\ Rems(total, w)[i] \in 0..(SumSeq(w) - 1)
        /\ total * w[i] = SumSeq(w) * Parts(total, w)[i] + Rems(total, w)[i]
    BY PartsAndRems
  <2> QED BY <1>1, <2>1
<1>3. SumSeq(p) = SumFunctionOnSet(p, S)
  BY DEF SumSeq, SumFunction, Parts
<1>4. W = SumFunctionOnSet(w, S)
  BY DEF SumSeq, SumFunction
<1>5. \A i \in S : product[i] = total * w[i] /\ multiple[i] = W * p[i]
  OBVIOUS
<1> HIDE DEF S, W, p, r, product, multiple
<1>6. \A i \in S : multiple[i] \in Int /\ product[i] = multiple[i] + r[i]
  BY <1>1, <1>2, <1>5
<1>7. SumFunctionOnSet(product, S) = total * W
  BY <1>1, <1>4, <1>5, SumOfMultiples
<1>8. SumFunctionOnSet(multiple, S) = W * SumFunctionOnSet(p, S)
  BY <1>1, <1>2, <1>5, SumOfMultiples
<1>9. SumFunctionOnSet(product, S) = SumFunctionOnSet(multiple, S) + SumFunctionOnSet(r, S)
  BY <1>1, <1>2, <1>6, SumOfSums
<1>10. PICK m \in Int, k \in Int : SumFunctionOnSet(p, S) = m /\ SumFunctionOnSet(r, S) = k
  BY <1>1, <1>2, SumIsInt
<1>11. total * W = W * m + k
  BY <1>7, <1>8, <1>9, <1>10
<1>12. Left(total, w) = total - m
  BY <1>3, <1>10 DEF Left, p
<1>13. W * (total - m) = k
  BY <1>1, <1>11
<1> QED BY <1>10, <1>12, <1>13 DEF W, r, S

(* ... and fewer kobo than dues that fall short.                            *)
LEMMA LeftIsLess ==
  ASSUME NEW w \in Weights, NEW total \in Nat
  PROVE  Left(total, w) \in 0..Cardinality({i \in DOMAIN w : Rems(total, w)[i] > 0})
<1> DEFINE S == DOMAIN w
           W == SumSeq(w)
           r == Rems(total, w)
           A == {i \in S : r[i] > 0}
           one == [i \in S |-> IF i \in A THEN 1 ELSE 0]
           bound == [i \in S |-> W * one[i]]
<1>1. IsFiniteSet(S) /\ W \in Nat \ {0} /\ A \in SUBSET S
  BY SumOfWeights
<1>2. \A i \in S : r[i] \in 0..(W - 1)
  BY PartsAndRems
<1>3. \A i \in S : one[i] = (IF i \in A THEN 1 ELSE 0) /\ one[i] \in Int /\ bound[i] = W * one[i]
  OBVIOUS
<1>4. \A i \in S : i \notin A => r[i] <= 0
  BY <1>1, <1>2
<1>5. Left(total, w) \in Int /\ W * Left(total, w) = SumFunctionOnSet(r, S)
  BY LeftIsOwed
<1> HIDE DEF S, W, r, A, one, bound
<1>6. \A i \in S : r[i] \in Nat /\ r[i] \in Int /\ bound[i] \in Int /\ r[i] <= bound[i]
  <2> SUFFICES ASSUME NEW i \in S
               PROVE  r[i] \in Nat /\ r[i] \in Int /\ bound[i] \in Int /\ r[i] <= bound[i]
    OBVIOUS
  <2>1. r[i] \in 0..(W - 1)
    BY <1>2
  <2>2. CASE i \in A
    <3>1. bound[i] = W * 1
      BY <1>3, <2>2
    <3> QED BY <1>1, <2>1, <3>1
  <2>3. CASE i \notin A
    <3>1. bound[i] = W * 0
      BY <1>3, <2>3
    <3> QED BY <1>1, <1>4, <2>1, <2>3, <3>1
  <2> QED BY <2>2, <2>3
<1>7. SumFunctionOnSet(r, S) \in Nat /\ SumFunctionOnSet(r, S) <= SumFunctionOnSet(bound, S)
  BY <1>1, <1>6, SumOfNaturals, SumIsMonotonic
<1>8. SumFunctionOnSet(bound, S) = W * SumFunctionOnSet(one, S)
  BY <1>1, <1>3, SumOfMultiples
<1>9. SumFunctionOnSet(one, S) = Cardinality(A)
  BY <1>1, <1>3, SumCounts
<1>10. PICK n \in Nat, left \in Int : Cardinality(A) = n /\ Left(total, w) = left
  BY <1>1, <1>5, FS_Subset, FS_CardinalityType
<1>11. W * left <= W * n /\ W * 0 <= W * left
  BY <1>1, <1>5, <1>7, <1>8, <1>9, <1>10
<1>12. left <= n /\ 0 <= left
  BY <1>1, <1>11, Scaled
<1> QED BY <1>10, <1>12 DEF A, S, r

(* The shares come to the total.                                            *)
LEMMA SharesSum ==
  ASSUME NEW w \in Weights, NEW total \in Nat
  PROVE  SumSeq(Allocate(total, w)) = total
<1> DEFINE S == DOMAIN w
           p == Parts(total, w)
           r == Rems(total, w)
           share == Allocate(total, w)
           A == {i \in S : Place(S, r, i) < Left(total, w)}
           one == [i \in S |-> IF i \in A THEN 1 ELSE 0]
<1>1. PICK n \in Nat \ {0} : S = 1..n
  BY SumOfWeights
<1>2. IsFiniteSet(S) /\ Cardinality(S) = n
  BY <1>1, FS_Interval
<1>3. \A i \in S : p[i] \in Int /\ r[i] \in Int
  BY PartsAndRems, SumOfWeights, SMTT(60)
<1>4. PICK left \in 0..n : left = Left(total, w)
  <2> DEFINE B == {i \in S : r[i] > 0}
  <2>1. Cardinality(B) \in Nat /\ Cardinality(B) <= n
    <3>1. B \in SUBSET S
      OBVIOUS
    <3> HIDE DEF B, S
    <3> QED BY <1>2, <3>1, FS_Subset, FS_CardinalityType
  <2>2. Left(total, w) \in 0..Cardinality(B)
    BY LeftIsLess
  <2> QED BY <2>1, <2>2
<1>5. Cardinality(A) = left
  <2>1. \A i \in 1..n : r[i] \in Int
    BY <1>1, <1>3
  <2> HIDE DEF r, S
  <2>2. Cardinality({i \in 1..n : Place(1..n, r, i) < left}) = left
    BY <2>1, FirstPlaces
  <2> QED BY <1>1, <1>4, <2>2
<1>6. \A i \in S : one[i] = (IF i \in A THEN 1 ELSE 0) /\ one[i] \in Int
  OBVIOUS
<1>7. \A i \in S : share[i] = p[i] + one[i]
  BY <1>3, AllocateAt
<1>8. SumSeq(share) = SumFunctionOnSet(share, S)
  BY AllocateAt DEF SumSeq, SumFunction
<1>9. Left(total, w) = total - SumFunctionOnSet(p, S)
  BY DEF Left, SumSeq, SumFunction, Parts
<1>10. A \in SUBSET S
  OBVIOUS
<1> HIDE DEF S, p, r, share, A, one
<1>11. SumFunctionOnSet(share, S) = SumFunctionOnSet(p, S) + SumFunctionOnSet(one, S)
  BY <1>2, <1>3, <1>6, <1>7, SumOfSums
<1>12. SumFunctionOnSet(one, S) = left
  BY <1>2, <1>5, <1>6, <1>10, SumCounts
<1>13. PICK m \in Int : SumFunctionOnSet(p, S) = m
  BY <1>2, <1>3, SumIsInt
<1>14. left = total - m /\ SumFunctionOnSet(share, S) = m + left
  BY <1>4, <1>9, <1>11, <1>12, <1>13
<1>15. SumFunctionOnSet(share, S) = total
  BY <1>14
<1> QED BY <1>8, <1>15 DEF share
(* Only what falls short is topped up.                                      *)
LEMMA ToppedUpFallsShort ==
  ASSUME NEW w \in Weights, NEW total \in Nat, NEW i \in DOMAIN w,
         Place(DOMAIN w, Rems(total, w), i) < Left(total, w)
  PROVE  Rems(total, w)[i] > 0
<1> DEFINE S == DOMAIN w
           r == Rems(total, w)
           A == {j \in S : r[j] > 0}
<1>1. IsFiniteSet(S) /\ SumSeq(w) \in Nat /\ \A j \in S : r[j] \in 0..(SumSeq(w) - 1)
  BY PartsAndRems, SumOfWeights
<1> SUFFICES ASSUME r[i] = 0 PROVE FALSE
  BY <1>1
<1>2. A \subseteq Ahead(S, r, i)
  BY DEF Ahead
<1>3. Ahead(S, r, i) \in SUBSET S /\ A \in SUBSET S
  BY DEF Ahead
<1>4. Left(total, w) \in 0..Cardinality(A)
  BY LeftIsLess
<1>5. Place(S, r, i) < Left(total, w)
  OBVIOUS
<1> HIDE DEF S, r, A
<1>6. IsFiniteSet(A) /\ IsFiniteSet(Ahead(S, r, i)) /\ A \in SUBSET Ahead(S, r, i)
  BY <1>1, <1>2, <1>3, FS_Subset
<1>7. Cardinality(A) \in Nat /\ Cardinality(Ahead(S, r, i)) \in Nat /\ Cardinality(A) <= Cardinality(Ahead(S, r, i))
  BY <1>6, FS_Subset, FS_CardinalityType
<1> QED BY <1>4, <1>5, <1>7 DEF Place

(* A share is within one kobo of the exact one.                             *)
LEMMA ShareIsProportional ==
  ASSUME NEW w \in Weights, NEW total \in Nat, NEW i \in DOMAIN w
  PROVE  /\ Allocate(total, w)[i] * SumSeq(w) < total * w[i] + SumSeq(w)
         /\ Allocate(total, w)[i] * SumSeq(w) > total * w[i] - SumSeq(w)
<1>1. PICK W \in Nat \ {0}, p \in Nat, x \in Nat :
          W = SumSeq(w) /\ p = Parts(total, w)[i] /\ x = w[i]
  BY PartsAndRems, SumOfWeights
<1>2. PICK rem \in 0..(W - 1) : rem = Rems(total, w)[i]
  BY <1>1, PartsAndRems
<1>3. total * x = W * p + rem
  BY <1>1, <1>2, PartsAndRems
<1>4. PICK y \in Nat : y = total * x
  OBVIOUS
<1>5. CASE Place(DOMAIN w, Rems(total, w), i) < Left(total, w)
  <2>1. Allocate(total, w)[i] = p + 1
    BY <1>1, <1>5, AllocateAt
  <2>2. rem > 0
    BY <1>2, <1>5, ToppedUpFallsShort
  <2>3. (p + 1) * W = W * p + W
    OBVIOUS
  <2>4. (p + 1) * W = y - rem + W
    BY <1>3, <1>4, <2>3
  <2>5. (p + 1) * W < y + W /\ (p + 1) * W > y - W
    BY <2>2, <2>4
  <2> QED BY <1>1, <1>4, <2>1, <2>5
<1>6. CASE ~(Place(DOMAIN w, Rems(total, w), i) < Left(total, w))
  <2>1. Allocate(total, w)[i] = p
    BY <1>1, <1>6, AllocateAt
  <2>2. p * W = y - rem
    BY <1>3, <1>4
  <2>3. p * W < y + W /\ p * W > y - W
    BY <2>2
  <2> QED BY <1>1, <1>4, <2>1, <2>3
<1> QED BY <1>5, <1>6

(* A dearer due carries no less.                                            *)
LEMMA DearerCarriesMore ==
  ASSUME NEW w \in Weights, NEW total \in Nat \ {0},
         NEW i \in DOMAIN w, NEW j \in DOMAIN w, w[i] > w[j]
  PROVE  Allocate(total, w)[i] >= Allocate(total, w)[j]
<1> DEFINE S == DOMAIN w
           r == Rems(total, w)
           p == Parts(total, w)
<1>1. /\ IsFiniteSet(S) /\ S \subseteq Int /\ i \in S /\ j \in S
      /\ \A k \in S : r[k] \in Int
  <2>1. (\E n \in Nat \ {0} : DOMAIN w = 1..n) /\ IsFiniteSet(DOMAIN w) /\ SumSeq(w) \in Nat
    BY SumOfWeights
  <2>2. \A k \in S : r[k] \in 0..(SumSeq(w) - 1)
    BY PartsAndRems
  <2> QED BY <2>1, <2>2
<1>2. PICK W \in Nat \ {0}, x \in Nat, y \in Nat, a \in Nat, b \in Nat :
        W = SumSeq(w) /\ x = w[i] /\ y = w[j] /\ a = p[i] /\ b = p[j]
  BY PartsAndRems, SumOfWeights
<1>3. PICK m \in 0..(W - 1), n \in 0..(W - 1) : m = r[i] /\ n = r[j]
  BY <1>2, PartsAndRems
<1>4. total * x = W * a + m /\ total * y = W * b + n
  BY <1>2, <1>3, PartsAndRems
<1>5. total * x > total * y
  <2>1. PICK d \in Nat \ {0} : x = y + d
    <3>1. x - y \in Nat \ {0} /\ x = y + (x - y)
      BY <1>2
    <3> QED BY <3>1
  <2>2. total * x = total * y + total * d /\ total * d > 0
    BY <2>1
  <2> QED BY <2>2
<1>6. a >= b
  <2> SUFFICES ASSUME a <= b - 1 PROVE FALSE
    OBVIOUS
  <2>1. PICK d \in Nat : b = a + 1 + d
    <3>1. b - a - 1 \in Nat /\ b = a + 1 + (b - a - 1)
      OBVIOUS
    <3> QED BY <3>1
  <2>2. W * b = W * a + W + W * d /\ W * d \in Nat
    BY <2>1
  <2> QED BY <1>4, <1>5, <2>2
<1>7. /\ Allocate(total, w)[i] = IF Place(S, r, i) < Left(total, w) THEN a + 1 ELSE a
      /\ Allocate(total, w)[j] = IF Place(S, r, j) < Left(total, w) THEN b + 1 ELSE b
  BY <1>2, AllocateAt
<1>8. CASE a > b
  BY <1>7, <1>8
<1>9. CASE a = b
  <2>1. m > n
    BY <1>4, <1>5, <1>9
  <2>2. i \in Ahead(S, r, j)
    BY <1>3, <2>1 DEF Ahead
  <2>3. Left(total, w) \in Int
    BY LeftIsOwed
  <2>4. Place(S, r, i) \in Int /\ Place(S, r, j) \in Int
    <3>1. Ahead(S, r, i) \in SUBSET S /\ Ahead(S, r, j) \in SUBSET S
      BY DEF Ahead
    <3> HIDE DEF S, r
    <3>2. IsFiniteSet(Ahead(S, r, i)) /\ IsFiniteSet(Ahead(S, r, j))
      BY <1>1, <3>1, FS_Subset
    <3> QED BY <3>2, FS_CardinalityType DEF Place
  <2> HIDE DEF S, r
  <2>5. Place(S, r, i) < Place(S, r, j)
    BY <1>1, <2>2, EarlierIsLower
  <2>6. Place(S, r, j) < Left(total, w) => Place(S, r, i) < Left(total, w)
    BY <2>3, <2>4, <2>5
  <2> QED BY <1>7, <1>9, <2>6
<1> QED BY <1>6, <1>8, <1>9
-----------------------------------------------------------------------------
(* Fees                                                                     *)

(* Half a unit at most is rounded away, or added.                           *)
LEMMA RoundedFee ==
  ASSUME NEW face \in Nat \ {0}
  PROVE  /\ CheckoutFee(face) \in Nat \ {0}
         /\ -100 < 2 * 100 * (CheckoutFee(face) - 2000) - 2 * 2 * face
         /\ 2 * 100 * (CheckoutFee(face) - 2000) - 2 * 2 * face <= 100
<1>1. PICK q \in Nat : q = (face * 2 * 2 + 100) \div (100 * 2)
  OBVIOUS
<1>2. 200 * q <= 4 * face + 100 /\ 4 * face + 100 < 200 * q + 200
  BY <1>1
<1>3. CheckoutFee(face) = q + 2000
  BY <1>1 DEF CheckoutFee, MulDivRoundHalfUp, CHECKOUT_FEE_PERCENT, CHECKOUT_FEE_FLAT_KOBO
<1> QED BY <1>2, <1>3

(* The parts of a withdrawal come to what was asked for.                    *)
LEMMA WithdrawalParts ==
  ASSUME NEW gross \in Nat, gross >= MIN_PAYOUT_KOBO, NEW percent \in 0..100,
         withdrawal = ComputeWithdrawal(gross, percent)
  PROVE  WithdrawalAddsUp
<1>1. PICK before \in {10000, 20000} : before = WithdrawalFee(gross)
  BY DEF WithdrawalFee, WITHDRAWAL_FEE_LOW_KOBO, WITHDRAWAL_FEE_HIGH_KOBO
<1>2. PICK q \in Nat : q = (before * percent * 2 + 100) \div (100 * 2)
  <2>1. before * percent * 2 + 100 \in Nat
    OBVIOUS
  <2> QED BY <2>1
<1>3. q <= before
  <2>1. CASE before = 10000
    BY <1>2, <2>1
  <2>2. CASE before = 20000
    BY <1>2, <2>2
  <2> QED BY <2>1, <2>2
<1>4. withdrawal = [gross |-> gross, fee |-> before - q, discount |-> before - (before - q), net |-> gross - (before - q)]
  BY <1>1, <1>2 DEF ComputeWithdrawal, DiscountedFee, MulDivRoundHalfUp
<1>5. before = IF gross \in MIN_PAYOUT_KOBO..4999999 THEN 10000 ELSE 20000
  <2>1. gross \in MIN_PAYOUT_KOBO..4999999 <=> gross < 5000000
    <3>1. MIN_PAYOUT_KOBO \in Int
      BY DEF MIN_PAYOUT_KOBO
    <3> QED BY <3>1
  <2>2. before = IF gross < 5000000 THEN 10000 ELSE 20000
    BY <1>1 DEF WithdrawalFee, WITHDRAWAL_FEE_LOW_KOBO, WITHDRAWAL_FEE_HIGH_KOBO, WITHDRAWAL_FEE_THRESHOLD_KOBO
  <2> QED BY <2>1, <2>2
<1>6. /\ (gross - (before - q)) + (before - q) = gross
      /\ before - q >= 0 /\ before - (before - q) >= 0 /\ gross - (before - q) > 0
      /\ (before - q) + (before - (before - q)) = before
  BY <1>3 DEF MIN_PAYOUT_KOBO
<1> QED BY <1>4, <1>5, <1>6, SMT DEF WithdrawalAddsUp

-----------------------------------------------------------------------------
(* To the provider and back                                                 *)

(* The digits of a text of three decimals.                                  *)
LEMMA ThreeDigits ==
  ASSUME NEW b, NEW c, NEW d
  PROVE  /\ Digit(<<b, c, d>>, 1) = b /\ Digit(<<b, c, d>>, 2) = c /\ Digit(<<b, c, d>>, 3) = d
         /\ Digit(<<b, c, d>>, 4) = 0
  BY DEF Digit

(* A text as the code reads it.                                             *)
Read(text, number) == DecimalToKobo(IF number THEN NumberToPlainString(text) ELSE text)

(* How: a is the whole part, b to e the digits, i what the third digit adds *)
(* to a text; of a number the fourth adds j to the third, which leaves q    *)
(* kobo and a digit r that adds k.                                          *)
Reading(text, a, b, c, d, e, i, j, k, q, r) ==
    /\ a \in Nat /\ b \in 0..9 /\ c \in 0..9 /\ d \in 0..9 /\ e \in 0..9
    /\ i \in {0, 1} /\ j \in {0, 1} /\ k \in {0, 1} /\ q \in Nat /\ r \in 0..9
    /\ text.whole = a /\ Digit(text.frac, 1) = b /\ Digit(text.frac, 2) = c
    /\ Digit(text.frac, 3) = d /\ Digit(text.frac, 4) = e
    /\ i = 1 <=> d >= 5
    /\ j = 1 <=> e >= 5
    /\ k = 1 <=> r >= 5
    /\ Read(text, FALSE) = a * 100 + b * 10 + c + i
    /\ a * 1000 + b * 100 + c * 10 + d + j = 10 * q + r
    /\ Read(text, TRUE) = q + k

(* Every text with digits is read in this way.                              *)
LEMMA ReadText ==
  ASSUME NEW text, text.whole \in Nat, \A x \in 1..4 : Digit(text.frac, x) \in 0..9
  PROVE  \E a, b, c, d, e, i, j, k, q, r : Reading(text, a, b, c, d, e, i, j, k, q, r)
<1>1. PICK a \in Nat, b \in 0..9, c \in 0..9, d \in 0..9, e \in 0..9 :
        /\ a = text.whole /\ b = Digit(text.frac, 1) /\ c = Digit(text.frac, 2)
        /\ d = Digit(text.frac, 3) /\ e = Digit(text.frac, 4)
  <2>1. 1 \in 1..4 /\ 2 \in 1..4 /\ 3 \in 1..4 /\ 4 \in 1..4
    OBVIOUS
  <2> QED BY <2>1
<1>2. PICK i \in {0, 1}, j \in {0, 1} :
        i = (IF d >= 5 THEN 1 ELSE 0) /\ j = IF e >= 5 THEN 1 ELSE 0
  OBVIOUS
<1>3. Read(text, FALSE) = a * 100 + b * 10 + c + i
  BY <1>1, <1>2 DEF Read, DecimalToKobo
<1> DEFINE mills == text.whole * 1000 + Digit(text.frac, 1) * 100 + Digit(text.frac, 2) * 10 + Digit(text.frac, 3)
                    + (IF Digit(text.frac, 4) >= 5 THEN 1 ELSE 0)
<1>4. NumberToPlainString(text) =
        [whole |-> mills \div 1000, frac |-> <<(mills % 1000) \div 100, (mills % 100) \div 10, mills % 10>>]
  BY DEF NumberToPlainString
<1>5. mills = a * 1000 + b * 100 + c * 10 + d + j /\ mills \in Nat
  <2>1. mills = a * 1000 + b * 100 + c * 10 + d + (IF e >= 5 THEN 1 ELSE 0)
    BY <1>1
  <2> HIDE DEF mills
  <2>2. mills = a * 1000 + b * 100 + c * 10 + d + j
    BY <1>2, <2>1
  <2> QED BY <2>2
<1> HIDE DEF mills
<1>6. PICK p \in Nat, x \in Nat, y \in Nat, z \in 0..9, q \in Nat :
        /\ p = mills \div 1000 /\ x = (mills % 1000) \div 100 /\ y = (mills % 100) \div 10 /\ z = mills % 10
        /\ q = mills \div 10
  BY <1>5
<1>7. NumberToPlainString(text) = [whole |-> p, frac |-> <<x, y, z>>]
  BY <1>4, <1>6
<1>8. PICK k \in {0, 1} : k = IF z >= 5 THEN 1 ELSE 0
  OBVIOUS
<1>9. Read(text, TRUE) = p * 100 + x * 10 + y + k
  BY <1>7, <1>8, ThreeDigits DEF Read, DecimalToKobo
<1>10. p * 100 + x * 10 + y = q /\ mills = 10 * q + z
  <2>1. p * 100 + x * 10 + y = mills \div 10
    BY <1>5, <1>6
  <2>2. mills = 10 * (mills \div 10) + (mills % 10)
    BY <1>5
  <2> QED BY <1>6, <2>1, <2>2
<1>11. Read(text, TRUE) = q + k
  BY <1>9, <1>10
<1>12. a * 1000 + b * 100 + c * 10 + d + j = 10 * q + z
  BY <1>5, <1>10
<1>13. (i = 1 <=> d >= 5) /\ (j = 1 <=> e >= 5) /\ (k = 1 <=> z >= 5)
  BY <1>2, <1>8
<1>14. Reading(text, a, b, c, d, e, i, j, k, q, z)
  BY <1>1, <1>3, <1>11, <1>12, <1>13 DEF Reading
<1> QED BY <1>14

(* The texts the provider may report an amount as.                          *)
Forms(frac) == {frac} \cup (IF frac[2] = 0 THEN {<<frac[1]>>} ELSE {}) \cup (IF frac = <<0, 0>> THEN {<<>>} ELSE {})

(* Ten times a number has no unit.                                          *)
LEMMA TensAreOne ==
  ASSUME NEW m \in Nat, NEW q \in Nat, NEW r \in 0..9, 10 * m = 10 * q + r
  PROVE  q = m /\ r = 0
  OBVIOUS

(* An amount comes back as it went.                                         *)
LEMMA OwnTextReads ==
  ASSUME NEW kobo \in Nat, NEW f \in Forms(KoboToDecimal(kobo).frac), NEW number \in BOOLEAN
  PROVE  Read([whole |-> kobo \div 100, frac |-> f], number) = kobo
<1> DEFINE text == [whole |-> kobo \div 100, frac |-> f]
<1>1. PICK a \in Nat, b \in 0..9, c \in 0..9 :
        /\ a = kobo \div 100 /\ b = (kobo % 100) \div 10 /\ c = kobo % 10
        /\ kobo = a * 100 + b * 10 + c
  OBVIOUS
<1>2. KoboToDecimal(kobo) = [whole |-> a, frac |-> <<b, c>>]
  BY <1>1 DEF KoboToDecimal
<1>3. text.whole = a /\ text.frac = f
  BY <1>1
<1>4. f = <<b, c>> \/ (f = <<b>> /\ c = 0) \/ (f = <<>> /\ b = 0 /\ c = 0)
  BY <1>2 DEF Forms
<1>5. Digit(f, 1) = b /\ Digit(f, 2) = c /\ Digit(f, 3) = 0 /\ Digit(f, 4) = 0
  <2>1. ASSUME NEW g \in {<<b, c>>, <<b>>, <<>>}, NEW i \in Nat
        PROVE  Digit(g, i) = IF i <= Len(g) THEN g[i] ELSE 0
    BY DEF Digit
  <2>2. CASE f = <<b, c>>
    <3>1. Len(f) = 2 /\ f[1] = b /\ f[2] = c
      BY <2>2
    <3> QED BY <2>1, <2>2, <3>1
  <2>3. CASE f = <<b>> /\ c = 0
    <3>1. Len(f) = 1 /\ f[1] = b
      BY <2>3
    <3> QED BY <2>1, <2>3, <3>1
  <2>4. CASE f = <<>> /\ b = 0 /\ c = 0
    <3>1. Len(f) = 0
      BY <2>4
    <3> QED BY <2>1, <2>4, <3>1
  <2> QED BY <1>4, <2>2, <2>3, <2>4
<1> HIDE DEF text
<1>6. \A i \in 1..4 : Digit(text.frac, i) \in 0..9
  <2> SUFFICES ASSUME NEW i \in 1..4 PROVE Digit(f, i) \in 0..9
    BY <1>3
  <2>1. i = 1 \/ i = 2 \/ i = 3 \/ i = 4
    OBVIOUS
  <2> QED BY <1>5, <2>1
<1>7. PICK a1, b1, c1, d1, e1, i, j, k, q, r : Reading(text, a1, b1, c1, d1, e1, i, j, k, q, r)
  BY <1>3, <1>6, ReadText
<1>8. a1 = a /\ b1 = b /\ c1 = c /\ d1 = 0 /\ e1 = 0 /\ i = 0 /\ j = 0
  BY <1>3, <1>5, <1>7 DEF Reading
<1>9. Read(text, FALSE) = kobo /\ Read(text, TRUE) = kobo
  <2>1. Read(text, FALSE) = a * 100 + b * 10 + c + 0
    BY <1>7, <1>8, ZenonT(60) DEF Reading
  <2>2. a * 1000 + b * 100 + c * 10 + 0 + 0 = 10 * q + r /\ r \in 0..9 /\ q \in Nat
    BY <1>7, <1>8 DEF Reading
  <2>3. q = kobo /\ r = 0
    <3>1. 10 * kobo = 10 * q + r
      BY <1>1, <2>2
    <3> QED BY <2>2, <3>1, TensAreOne
  <2>4. k = 0
    BY <1>7, <2>3 DEF Reading
  <2>5. Read(text, TRUE) = q + 0
    <3>1. Read(text, TRUE) = q + k
      BY <1>7 DEF Reading
    <3> QED BY <2>4, <3>1, Zenon
  <2>6. q + 0 = kobo /\ a * 100 + b * 10 + c + 0 = kobo
    BY <1>1, <2>3
  <2>7. Read(text, TRUE) = kobo /\ Read(text, FALSE) = kobo
    BY <2>1, <2>5, <2>6, Zenon
  <2> QED BY <2>7
<1>10. CASE number = TRUE
  BY <1>9, <1>10 DEF text
<1>11. CASE number = FALSE
  BY <1>9, <1>11 DEF text
<1> QED BY <1>10, <1>11

(* What a text is worth, in hundredths of a kobo, to four decimals.         *)
Exact(text) ==
    text.whole * 1000000 + Digit(text.frac, 1) * 100000 + Digit(text.frac, 2) * 10000
    + Digit(text.frac, 3) * 1000 + Digit(text.frac, 4) * 100

(* A digit that is written is a digit, and one that is not is 0.            *)
LEMMA DigitType ==
  ASSUME MoneyAssumption, NEW text \in Texts, NEW i \in Nat \ {0}
  PROVE  Digit(text.frac, i) \in 0..9
<1>1. PICK n \in 0..MaxDecimals : text.frac \in [1..n -> Digits]
  BY DEF Texts
<1>2. n \in Nat
  BY DEF MoneyAssumption
<1>3. Len(text.frac) = n
  BY <1>1, <1>2
<1>4. CASE i <= n
  <2>1. i \in 1..n
    BY <1>2, <1>4
  <2>2. text.frac[i] \in Digits
    BY <1>1, <2>1
  <2>3. text.frac[i] \in 0..9
    BY <2>2 DEF MoneyAssumption
  <2> QED BY <1>3, <1>4, <2>3 DEF Digit
<1>5. CASE ~(i <= n)
  BY <1>3, <1>5 DEF Digit
<1> QED BY <1>4, <1>5

(* How far off a reading may be.                                            *)
Near(text, number) ==
    LET off == 2 * (Read(text, number) * 10000 - Exact(text))
    IN  IF number THEN -20000 < off /\ off < 20000 ELSE -10000 < off /\ off <= 10000

(* Any text is read as the nearest kobo; a number is rounded twice.         *)
LEMMA AnyTextReads ==
  ASSUME MoneyAssumption, NEW text \in Texts, NEW number \in BOOLEAN
  PROVE  Near(text, number)
<1>1. text.whole \in Nat /\ \A i \in 1..4 : Digit(text.frac, i) \in 0..9
  <2>1. text.whole \in Naira
    BY DEF Texts
  <2>2. \A i \in 1..4 : i \in Nat \ {0}
    OBVIOUS
  <2> QED BY <2>1, <2>2, DigitType DEF MoneyAssumption
<1>2. PICK a, b, c, d, e, i, j, k, q, r : Reading(text, a, b, c, d, e, i, j, k, q, r)
  BY <1>1, ReadText
<1>3. /\ a \in Nat /\ b \in 0..9 /\ c \in 0..9 /\ d \in 0..9 /\ e \in 0..9
      /\ i \in {0, 1} /\ j \in {0, 1} /\ k \in {0, 1} /\ q \in Nat /\ r \in 0..9
      /\ (i = 1 <=> d >= 5) /\ (j = 1 <=> e >= 5) /\ (k = 1 <=> r >= 5)
      /\ a * 1000 + b * 100 + c * 10 + d + j = 10 * q + r
  BY <1>2 DEF Reading
<1>4. Exact(text) = a * 1000000 + b * 100000 + c * 10000 + d * 1000 + e * 100
  BY <1>2, SMT DEF Exact, Reading
<1>5. PICK x \in Nat : x = Exact(text)
  BY <1>3, <1>4, SMT
<1>5a. Read(text, TRUE) = q + k
  BY <1>2 DEF Reading
<1>5b. Read(text, FALSE) = a * 100 + b * 10 + c + i
  BY <1>2 DEF Reading
<1>5c. q + k \in Nat
  BY <1>3
<1>5d. a * 100 + b * 10 + c + i \in Nat
  BY <1>3
<1>6. PICK v \in Nat : v = Read(text, number) /\ v = IF number THEN q + k ELSE a * 100 + b * 10 + c + i
  <2>1. CASE number = TRUE
    <3>1. Read(text, number) = q + k
      BY <1>5a, <2>1
    <3> QED BY <1>5c, <2>1, <3>1
  <2>2. CASE number = FALSE
    <3>1. Read(text, number) = a * 100 + b * 10 + c + i
      BY <1>5b, <2>2
    <3> QED BY <1>5d, <2>2, <3>1
  <2> QED BY <2>1, <2>2
<1>7. CASE number = TRUE
  <2>1. x = 1000 * (10 * q + r) - 1000 * j + 100 * e
    BY <1>3, <1>4, <1>5, SMT
  <2>2. v * 10000 - x = 10000 * k - 1000 * r + 1000 * j - 100 * e
    BY <1>3, <1>6, <1>7, <2>1, SMT
  <2>3. -20000 < 2 * (v * 10000 - x) /\ 2 * (v * 10000 - x) < 20000
    BY <1>3, <2>2, SMT
  <2> QED BY <1>5, <1>6, <1>7, <2>3, SMT DEF Near
<1>8. CASE number = FALSE
  <2>1. v * 10000 - x = 10000 * i - 1000 * d - 100 * e
    BY <1>3, <1>4, <1>5, <1>6, <1>8, SMT
  <2>2. -10000 < 2 * (v * 10000 - x) /\ 2 * (v * 10000 - x) <= 10000
    BY <1>3, <2>1, SMT
  <2> QED BY <1>5, <1>6, <1>8, <2>2, SMT DEF Near
<1>9. number = TRUE \/ number = FALSE
  OBVIOUS
<1> QED BY <1>7, <1>8, <1>9

-----------------------------------------------------------------------------
(* The state is what one calculation leaves                                 *)

(* What is stored of a checkout of these dues.                              *)
Priced(dues) ==
    LET face == SumSeq(dues)
        fee == CheckoutFee(face)
    IN  [at |-> "priced", items |-> dues, faceKobo |-> face, feeKobo |-> fee,
         totalKobo |-> face + fee, feeShares |-> Allocate(fee, dues)]

(* What is stored is what was calculated, and what crosses the wire is the  *)
(* text of the checkout's total, in one form or another, or any text.       *)
MoneyInv ==
    /\ checkout = Unset \/ \E dues \in Weights : checkout = Priced(dues)
    /\ withdrawal = Unset \/ \E gross \in Nat, percent \in 0..100 :
                               gross >= MIN_PAYOUT_KOBO /\ withdrawal = ComputeWithdrawal(gross, percent)
    /\ \/ wire = Unset
       \/ checkout # Unset /\ wire = [at |-> "asked", text |-> KoboToDecimal(checkout.totalKobo), number |-> FALSE]
       \/ /\ checkout # Unset
          /\ \E number \in BOOLEAN, f \in Forms(KoboToDecimal(checkout.totalKobo).frac) :
                wire = [at |-> "paid", text |-> [whole |-> checkout.totalKobo \div 100, frac |-> f], number |-> number]
       \/ \E text \in Texts, number \in BOOLEAN : wire = [at |-> "other", text |-> text, number |-> number]

(* Dues have positive amounts, and a checkout has one at least.             *)
LEMMA BasketIsWeights == MoneyAssumption => Baskets \subseteq Weights
<1> SUFFICES ASSUME MoneyAssumption, NEW dues \in Baskets PROVE dues \in Weights
  OBVIOUS
<1>1. PICK n \in 1..MaxDues : dues \in [1..n -> Prices]
  BY DEF Baskets
<1>2. n \in Nat \ {0}
  BY DEF MoneyAssumption
<1>3. \A i \in 1..n : dues[i] \in Nat \ {0}
  BY <1>1 DEF MoneyAssumption
<1>4. dues \in [1..n -> Nat \ {0}]
  BY <1>1, <1>3
<1> QED BY <1>2, <1>4 DEF Weights

(* No step leaves it.                                                       *)
LEMMA MoneyStep == MoneyInv /\ [MoneyNext]_moneyVars => MoneyInv'
<1> SUFFICES ASSUME MoneyInv, [MoneyNext]_moneyVars PROVE MoneyInv'
  OBVIOUS
<1>1. ASSUME NEW dues \in Baskets, PriceCheckout(dues) PROVE MoneyInv'
  <2>1. checkout' = Priced(dues) /\ withdrawal' = Unset /\ wire' = Unset
    BY <1>1 DEF PriceCheckout, Priced
  <2>2. dues \in Weights
    BY BasketIsWeights, MoneyAssumption
  <2>3. Unset' = Unset
    BY DEF Unset
  <2> QED BY <2>1, <2>2, <2>3 DEF MoneyInv
<1>2. ASSUME SendTotal PROVE MoneyInv'
  BY <1>2 DEF SendTotal, MoneyInv, Unset
<1>3. ASSUME NEW number \in BOOLEAN, ReportTotal(number) PROVE MoneyInv'
  <2>1. wire.at = "asked" /\ UNCHANGED <<checkout, withdrawal>>
    BY <1>3 DEF ReportTotal
  <2>2. checkout # Unset /\ wire = [at |-> "asked", text |-> KoboToDecimal(checkout.totalKobo), number |-> FALSE]
    BY <2>1 DEF MoneyInv, Unset
  <2>3. PICK f \in Forms(wire.text.frac) : wire' = [at |-> "paid", text |-> [wire.text EXCEPT !.frac = f], number |-> number]
    BY <1>3 DEF ReportTotal, Forms
  <2>4. f \in Forms(KoboToDecimal(checkout.totalKobo).frac)
        /\ wire' = [at |-> "paid", text |-> [whole |-> checkout.totalKobo \div 100, frac |-> f], number |-> number]
    <3>1. wire.text = [whole |-> checkout.totalKobo \div 100, frac |-> <<(checkout.totalKobo % 100) \div 10, checkout.totalKobo % 10>>]
      BY <2>2 DEF KoboToDecimal
    <3>2. [wire.text EXCEPT !.frac = f] = [whole |-> checkout.totalKobo \div 100, frac |-> f]
      BY <3>1
    <3>3. f \in Forms(KoboToDecimal(checkout.totalKobo).frac)
      BY <2>2, <2>3
    <3> QED BY <2>3, <3>2, <3>3
  <2>5. /\ checkout' # Unset
        /\ \E n \in BOOLEAN, g \in Forms(KoboToDecimal(checkout'.totalKobo).frac) :
             wire' = [at |-> "paid", text |-> [whole |-> checkout'.totalKobo \div 100, frac |-> g], number |-> n]
    BY <2>1, <2>2, <2>4
  <2> QED BY <2>1, <2>5 DEF MoneyInv
<1>4. ASSUME NEW text \in Texts, NEW number \in BOOLEAN, ReportAmount(text, number) PROVE MoneyInv'
  BY <1>4 DEF ReportAmount, MoneyInv, Unset
<1>5. ASSUME NEW gross \in Gross, NEW percent \in Discounts, PriceWithdrawal(gross, percent) PROVE MoneyInv'
  <2>1. gross \in Nat /\ percent \in 0..100
    BY MoneyAssumption DEF MoneyAssumption
  <2> QED BY <1>5, <2>1 DEF PriceWithdrawal, MoneyInv, Unset
<1>6. ASSUME UNCHANGED moneyVars PROVE MoneyInv'
  BY <1>6 DEF moneyVars, MoneyInv
<1> QED BY <1>1, <1>2, <1>3, <1>4, <1>5, <1>6 DEF MoneyNext

(* A priced checkout adds up.                                               *)
LEMMA PricedAddsUp ==
  ASSUME NEW dues \in Weights, checkout = Priced(dues)
  PROVE  SharesAddUp /\ SharesAreProportional /\ FeeIsNearest /\ checkout.totalKobo \in Nat
<1>1. PICK face \in Nat \ {0} : face = SumSeq(dues)
  BY SumOfWeights
<1>2. PICK fee \in Nat \ {0} : fee = CheckoutFee(face)
  BY RoundedFee
<1>3. checkout = [at |-> "priced", items |-> dues, faceKobo |-> face, feeKobo |-> fee,
                  totalKobo |-> face + fee, feeShares |-> Allocate(fee, dues)]
  BY <1>1, <1>2 DEF Priced
<1>4. SharesAddUp
  BY <1>2, <1>3, SharesSum DEF SharesAddUp
<1>5. SharesAreProportional
  <2> DEFINE share == Allocate(fee, dues)
  <2>1. \A i \in DOMAIN dues :
          /\ share[i] * face < fee * dues[i] + face /\ share[i] * face > fee * dues[i] - face
          /\ \A j \in DOMAIN dues : dues[i] > dues[j] => share[i] >= share[j]
    BY <1>1, ShareIsProportional, DearerCarriesMore
  <2> HIDE DEF share
  <2>2. checkout.faceKobo = face /\ checkout.feeKobo = fee /\ checkout.feeShares = share /\ checkout.items = dues
    BY <1>3 DEF share
  <2> QED BY <2>1, <2>2 DEF SharesAreProportional
<1>6. FeeIsNearest
  <2>1. /\ -100 < 2 * 100 * (fee - 2000) - 2 * 2 * face
        /\ 2 * 100 * (fee - 2000) - 2 * 2 * face <= 100
    BY <1>2, RoundedFee
  <2> QED BY <1>3, <2>1 DEF FeeIsNearest, CHECKOUT_FEE_PERCENT, CHECKOUT_FEE_FLAT_KOBO
<1> QED BY <1>3, <1>4, <1>5, <1>6

(* All of it adds up.                                                       *)
LEMMA MoneyInvAddsUp == MoneyInv => AmountsAddUp
<1> SUFFICES ASSUME MoneyInv PROVE AmountsAddUp
  OBVIOUS
<1>1. SharesAddUp /\ SharesAreProportional /\ FeeIsNearest /\ (checkout # Unset => checkout.totalKobo \in Nat)
  <2>1. CASE checkout = Unset
    BY <2>1 DEF SharesAddUp, SharesAreProportional, FeeIsNearest
  <2>2. CASE \E dues \in Weights : checkout = Priced(dues)
    BY <2>2, PricedAddsUp
  <2> QED BY <2>1, <2>2 DEF MoneyInv
<1>2. WithdrawalAddsUp
  <2>1. CASE withdrawal = Unset
    BY <2>1 DEF WithdrawalAddsUp
  <2>2. ASSUME NEW gross \in Nat, NEW percent \in 0..100, gross >= MIN_PAYOUT_KOBO,
               withdrawal = ComputeWithdrawal(gross, percent)
        PROVE  WithdrawalAddsUp
    BY <2>2, WithdrawalParts
  <2> QED BY <2>1, <2>2 DEF MoneyInv
<1>3. Kobo = Read(wire.text, wire.number)
  BY DEF Kobo, Read
<1>4. TotalSurvivesTheWire
  <2> SUFFICES ASSUME wire # Unset, wire.at = "paid" PROVE Kobo = checkout.totalKobo
    BY DEF TotalSurvivesTheWire
  <2>1. PICK number \in BOOLEAN, f \in Forms(KoboToDecimal(checkout.totalKobo).frac) :
          /\ checkout # Unset
          /\ wire = [at |-> "paid", text |-> [whole |-> checkout.totalKobo \div 100, frac |-> f], number |-> number]
    BY DEF MoneyInv
  <2>2. Read([whole |-> checkout.totalKobo \div 100, frac |-> f], number) = checkout.totalKobo
    BY <1>1, <2>1, OwnTextReads
  <2> QED BY <1>3, <2>1, <2>2
<1>5. ReadAsNearestKobo
  <2> SUFFICES ASSUME wire # Unset, wire.at = "other"
               PROVE  LET off == 2 * (Kobo * 10000 - Exact(wire.text))
                      IN  IF wire.number THEN -20000 < off /\ off < 20000 ELSE -10000 < off /\ off <= 10000
    BY SMT DEF ReadAsNearestKobo, Exact
  <2>1. PICK text \in Texts, number \in BOOLEAN : text = wire.text /\ number = wire.number
    BY DEF MoneyInv
  <2>2. Near(text, number)
    BY AnyTextReads, MoneyAssumption
  <2> QED BY <1>3, <2>1, <2>2, SMT DEF Near
<1> QED BY <1>1, <1>2, <1>4, <1>5 DEF AmountsAddUp

(* Nothing is calculated yet.                                               *)
LEMMA MoneyStart == MoneyInit => MoneyInv
  BY DEF MoneyInit, MoneyInv

(* No kobo is made or lost in rounding a fee, in splitting it over the dues,*)
(* in a withdrawal, or on the way to the provider and back (money.ts):      *)
(* whatever the prices, the number of dues, and the digits of a text.       *)
THEOREM AmountsAlwaysAddUp == MoneySpec => []AmountsAddUp
  BY MoneyStart, MoneyStep, MoneyInvAddsUp, PTL DEF MoneySpec
=============================================================================
