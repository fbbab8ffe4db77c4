---------------------------- MODULE ConteoProofs ----------------------------
(***************************************************************************)
(* Facts about naturals, finite sets and sums that the proofs of several   *)
(* components rest on.                                                     *)
(*                                                                         *)
(* An induction is made here by taking a least counterexample, with        *)
(* MenorNatural.  A sum is given a closed form, the size of a set, so that *)
(* what a recursive definition adds up can be compared with it.            *)
(***************************************************************************)
EXTENDS Integers, FiniteSets, FiniteSetTheorems, TLAPS

(* Every set of naturals with an element has a least one: the only         *)
(* induction principle here that is not about an operator.                 *)
LEMMA MenorNatural ==
  ASSUME NEW T, T \subseteq Nat, T # {}
  PROVE  \E x \in T : \A y \in T : x <= y
<1> DEFINE R == StrictSubsetOrdering(Nat)
           U == { 0 .. k : k \in T }
<1>1. IsWellFoundedOn(R, FiniteSubsetsOf(Nat))
  BY FS_StrictSubsetOrderingWellFounded
<1>2. U \subseteq FiniteSubsetsOf(Nat) /\ U # {}
  <2>1. \A k \in T : IsFiniteSet(0 .. k) /\ 0 .. k \in SUBSET Nat
    BY FS_Interval
  <2> QED
    BY <2>1 DEF FiniteSubsetsOf
<1>3. PICK A \in U : \A B \in U : ~ (<<B, A>> \in R)
  <2> HIDE DEF R, U
  <2> QED
    BY <1>1, <1>2, WFMin
<1>4. PICK x \in T : A = 0 .. x
  OBVIOUS
<1>5. \A y \in T : x <= y
  <2> SUFFICES ASSUME NEW y \in T, y < x PROVE FALSE
    OBVIOUS
  <2> DEFINE B == 0 .. y
  <2>1. B \in U /\ B \subseteq A /\ B # A /\ A \in SUBSET Nat /\ B \in SUBSET Nat
    <3>1. 0 .. y \subseteq 0 .. x /\ x \in 0 .. x /\ x \notin 0 .. y
      OBVIOUS
    <3> QED
      BY <1>4, <3>1
  <2> HIDE DEF B, U
  <2>2. <<B, A>> \in R
    BY <2>1 DEF R, StrictSubsetOrdering
  <2> QED
    BY <1>3, <2>1, <2>2
<1> QED
  BY <1>5

(* The least element of a set of naturals.                                 *)
LEMMA MinimoDeNaturales ==
  ASSUME NEW T, T \subseteq Nat, T # {}, NEW m, m = CHOOSE x \in T : \A y \in T : x =< y
  PROVE  m \in T /\ \A y \in T : m <= y
<1>1. \E x \in T : \A y \in T : x =< y
  BY MenorNatural
<1> QED
  BY <1>1

(* Sets that share nothing, with k elements or more each, have together k  *)
(* times as many.                                                          *)
LEMMA UnionDisjunta ==
  ASSUME NEW L, IsFiniteSet(L), NEW f, NEW k \in Nat,
         \A l \in L : IsFiniteSet(f[l]) /\ Cardinality(f[l]) >= k,
         \A l, m \in L : l # m => f[l] \cap f[m] = {}
  PROVE  LET U == UNION { f[l] : l \in L }
         IN  IsFiniteSet(U) /\ Cardinality(U) >= Cardinality(L) * k
<1> DEFINE U(M) == UNION { f[l] : l \in M }
           Bien(M) == IsFiniteSet(U(M)) /\ Cardinality(U(M)) >= Cardinality(M) * k
           T == { n \in Nat : \E M \in SUBSET L : Cardinality(M) = n /\ ~ Bien(M) }
<1>1. \A M \in SUBSET L : IsFiniteSet(M) /\ Cardinality(M) \in Nat
  BY FS_Subset, FS_CardinalityType
<1>2. Bien({})
  <2>1. U({}) = {}
    OBVIOUS
  <2>2. Cardinality({}) = 0 /\ IsFiniteSet({})
    BY FS_EmptySet
  <2> QED
    BY <2>1, <2>2
<1>3. ASSUME NEW M \in SUBSET L, NEW l \in M, Bien(M \ {l}) PROVE Bien(M)
  <2> DEFINE R == U(M \ {l})
  <2>1. U(M) = R \cup f[l] /\ R \cap f[l] = {}
    OBVIOUS
  <2>2. IsFiniteSet(R) /\ Cardinality(R) >= Cardinality(M \ {l}) * k /\ IsFiniteSet(f[l]) /\ Cardinality(f[l]) >= k
    BY <1>3
  <2>3. IsFiniteSet(M) /\ Cardinality(M) \in Nat /\ Cardinality(M \ {l}) = Cardinality(M) - 1
    BY <1>1, FS_RemoveElement
  <2> HIDE DEF R, U
  <2>4. /\ IsFiniteSet(R \cup f[l])
        /\ Cardinality(R \cup f[l]) = Cardinality(R) + Cardinality(f[l]) - Cardinality(R \cap f[l])
    BY <2>2, FS_Union
  <2>5. Cardinality(R \cap f[l]) = 0
    BY <2>1, FS_EmptySet
  <2>6. Cardinality(R) \in Nat /\ Cardinality(f[l]) \in Nat
    BY <2>2, FS_CardinalityType
  <2>7. \A n, x, y \in Nat : x >= (n - 1) * k /\ y >= k => x + y >= n * k
    <3>1. \A n \in Nat : (n - 1) * k = n * k - k /\ n * k \in Nat
      OBVIOUS
    <3> QED
      BY <3>1
  <2>8. Cardinality(R) + Cardinality(f[l]) >= Cardinality(M) * k
    BY <2>2, <2>3, <2>6, <2>7
  <2> QED
    BY <2>1, <2>4, <2>5, <2>6, <2>8
<1>4. Bien(L)
  <2> SUFFICES ASSUME ~ Bien(L) PROVE FALSE
    OBVIOUS
  <2> HIDE DEF Bien
  <2>1. T \subseteq Nat /\ T # {}
    BY <1>1
  <2>2. PICK n \in T : \A y \in T : n <= y
    <3> HIDE DEF T
    <3> QED
      BY <2>1, MenorNatural
  <2>3. PICK M \in SUBSET L : Cardinality(M) = n /\ ~ Bien(M)
    OBVIOUS
  <2>4. PICK l \in M : TRUE
    BY <1>2, <2>3
  <2>5. Cardinality(M \ {l}) = n - 1 /\ M \ {l} \in SUBSET L /\ Cardinality(M \ {l}) \in Nat
    BY <1>1, <2>3, FS_RemoveElement
  <2>6. ~ (n - 1 \in T)
    BY <2>2, <2>5
  <2>7. Bien(M \ {l})
    BY <2>5, <2>6
  <2> QED
    BY <1>3, <2>3, <2>7
<1> QED
  BY <1>4

-----------------------------------------------------------------------------
(* Sums.                                                                   *)

(* As many pairs as the positive values of h add up to.                    *)
Monton(h, S) == { p \in S \X Nat : p[2] \in 1..h[p[1]] }

Opuesta(f) == [x \in DOMAIN f |-> - f[x]]

(* The sum of f over S.                                                    *)
Suma(f, S) == Cardinality(Monton(f, S)) - Cardinality(Monton(Opuesta(f), S))

(* What one element puts on the pile.                                      *)
LEMMA MontonDeUno ==
  ASSUME NEW S, NEW h \in [S -> Int], NEW M, M \subseteq S, NEW x \in M, IsFiniteSet(Monton(h, M \ {x}))
  PROVE  /\ IsFiniteSet(Monton(h, M))
         /\ Cardinality(Monton(h, M)) = Cardinality(Monton(h, M \ {x})) + (IF h[x] > 0 THEN h[x] ELSE 0)
<1> DEFINE A == Monton(h, M \ {x})
           B == { p \in {x} \X Nat : p[2] \in 1..h[x] }
           n == IF h[x] > 0 THEN h[x] ELSE 0
           b == [i \in 1..n |-> <<x, i>>]
<1>1. n \in Nat /\ h[x] \in Int
  OBVIOUS
<1>2. b \in Bijection(1..n, B)
  <2>1. \A i \in 1..n : <<x, i>> \in B
    BY <1>1
  <2>2. \A p \in B : p = <<x, p[2]>> /\ p[2] \in 1..n
    BY <1>1
  <2>3. b \in [1..n -> B]
    BY <2>1
  <2>4. \A i, j \in 1..n : b[i] = b[j] => i = j
    OBVIOUS
  <2>5. \A p \in B : \E i \in 1..n : b[i] = p
    BY <2>2
  <2> HIDE DEF b, B, n
  <2> QED
    BY <2>3, <2>4, <2>5 DEF Bijection, Injection, Surjection, IsInjective
<1>3. IsFiniteSet(B) /\ Cardinality(B) = n
  <2>1. ExistsBijection(1..n, B)
    BY <1>2 DEF ExistsBijection
  <2> HIDE DEF b, B, n
  <2> QED
    BY <1>1, <2>1, FS_CountingElements, FS_NatBijection
<1>4. Monton(h, M) = A \cup B /\ A \cap B = {}
  BY DEF Monton
<1> HIDE DEF A, B, n
<1>5. /\ IsFiniteSet(A \cup B)
      /\ Cardinality(A \cup B) = Cardinality(A) + Cardinality(B) - Cardinality(A \cap B)
  BY <1>3, FS_Union DEF A
<1>6. Cardinality(A \cap B) = 0 /\ Cardinality(A) \in Nat
  BY <1>4, FS_EmptySet, FS_CardinalityType DEF A
<1> QED
  BY <1>1, <1>3, <1>4, <1>5, <1>6 DEF A, n

(* The pile of a finite set is finite.                                     *)
LEMMA MontonFinito ==
  ASSUME NEW S, IsFiniteSet(S), NEW h \in [S -> Int]
  PROVE  \A M \in SUBSET S : IsFiniteSet(Monton(h, M))
<1> SUFFICES ASSUME NEW X \in SUBSET S, ~ IsFiniteSet(Monton(h, X)) PROVE FALSE
  OBVIOUS
<1> DEFINE T == { n \in Nat : \E M \in SUBSET S : Cardinality(M) = n /\ ~ IsFiniteSet(Monton(h, M)) }
<1>1. \A M \in SUBSET S : IsFiniteSet(M) /\ Cardinality(M) \in Nat
  BY FS_Subset, FS_CardinalityType
<1>2. T \subseteq Nat /\ T # {}
  BY <1>1
<1>3. PICK n \in T : \A y \in T : n <= y
  <2> HIDE DEF T
  <2> QED
    BY <1>2, MenorNatural
<1>4. PICK M \in SUBSET S : Cardinality(M) = n /\ ~ IsFiniteSet(Monton(h, M))
  OBVIOUS
<1>5. M # {}
  <2>1. Monton(h, {}) = {}
    BY DEF Monton
  <2> QED
    BY <1>4, <2>1, FS_EmptySet
<1>6. PICK x \in M : TRUE
  BY <1>5
<1>7. Cardinality(M \ {x}) = n - 1 /\ M \ {x} \in SUBSET S /\ Cardinality(M \ {x}) \in Nat
  BY <1>1, <1>4, FS_RemoveElement
<1>8. ~ (n - 1 \in T)
  BY <1>3, <1>7
<1>9. IsFiniteSet(Monton(h, M \ {x}))
  BY <1>7, <1>8
<1> QED
  BY <1>4, <1>9, MontonDeUno

(* The sum of a set is that of the rest and one of its elements, whichever.*)
LEMMA SumaDeUnoMas ==
  ASSUME NEW S, IsFiniteSet(S), NEW f \in [S -> Int]
  PROVE  /\ Suma(f, {}) = 0
         /\ \A M \in SUBSET S : Suma(f, M) \in Int
         /\ \A M \in SUBSET S : \A x \in M : Suma(f, M) = f[x] + Suma(f, M \ {x})
<1>1. Opuesta(f) \in [S -> Int] /\ \A x \in S : Opuesta(f)[x] = - f[x]
  BY DEF Opuesta
<1>2. \A M \in SUBSET S : IsFiniteSet(Monton(f, M)) /\ IsFiniteSet(Monton(Opuesta(f), M))
  BY <1>1, MontonFinito
<1>3. \A M \in SUBSET S : Cardinality(Monton(f, M)) \in Nat /\ Cardinality(Monton(Opuesta(f), M)) \in Nat
  BY <1>2, FS_CardinalityType
<1>4. Suma(f, {}) = 0
  <2>1. Monton(f, {}) = {} /\ Monton(Opuesta(f), {}) = {}
    BY DEF Monton
  <2> QED
    BY <2>1, FS_EmptySet DEF Suma
<1>5. ASSUME NEW M \in SUBSET S, NEW x \in M PROVE Suma(f, M) = f[x] + Suma(f, M \ {x})
  <2>1. M \ {x} \in SUBSET S /\ f[x] \in Int
    OBVIOUS
  <2>2. Cardinality(Monton(f, M)) = Cardinality(Monton(f, M \ {x})) + (IF f[x] > 0 THEN f[x] ELSE 0)
    BY <1>2, <2>1, MontonDeUno
  <2>3. Cardinality(Monton(Opuesta(f), M))
          = Cardinality(Monton(Opuesta(f), M \ {x})) + (IF Opuesta(f)[x] > 0 THEN Opuesta(f)[x] ELSE 0)
    BY <1>1, <1>2, <2>1, MontonDeUno
  <2>4. Opuesta(f)[x] = - f[x]
    BY <1>1
  <2> QED
    BY <1>3, <2>1, <2>2, <2>3, <2>4 DEF Suma
<1> QED
  BY <1>3, <1>4, <1>5 DEF Suma

(* it is a recursive sum that takes the elements in some order.            *)
Recursiva(it, f, S) ==
  /\ \A s \in SUBSET S : s = {} => it[s] = 0
  /\ \A s \in SUBSET S : s # {} => \E x \in s : it[s] = f[x] + it[s \ {x}]

(* It adds up to the sum: if not, the two would differ on a smallest subset.*)
LEMMA SumaPorRecursion ==
  ASSUME NEW S, IsFiniteSet(S), NEW f \in [S -> Int], NEW it, Recursiva(it, f, S)
  PROVE  \A s \in SUBSET S : it[s] = Suma(f, s)
<1> SUFFICES ASSUME NEW X \in SUBSET S, it[X] # Suma(f, X) PROVE FALSE
  OBVIOUS
<1> DEFINE T == { n \in Nat : \E M \in SUBSET S : Cardinality(M) = n /\ it[M] # Suma(f, M) }
<1>1. \A M \in SUBSET S : IsFiniteSet(M) /\ Cardinality(M) \in Nat
  BY FS_Subset, FS_CardinalityType
<1>2. T \subseteq Nat /\ T # {}
  BY <1>1
<1>3. PICK n \in T : \A y \in T : n <= y
  <2> HIDE DEF T
  <2> QED
    BY <1>2, MenorNatural
<1>4. PICK M \in SUBSET S : Cardinality(M) = n /\ it[M] # Suma(f, M)
  OBVIOUS
<1>5. M # {}
  BY <1>4, SumaDeUnoMas DEF Recursiva
<1>6. PICK x \in M : it[M] = f[x] + it[M \ {x}]
  BY <1>5 DEF Recursiva
<1>7. Cardinality(M \ {x}) = n - 1 /\ M \ {x} \in SUBSET S /\ Cardinality(M \ {x}) \in Nat
  BY <1>1, <1>4, FS_RemoveElement
<1>8. ~ (n - 1 \in T)
  BY <1>3, <1>7
<1>9. it[M \ {x}] = Suma(f, M \ {x})
  BY <1>7, <1>8
<1> QED
  BY <1>4, <1>6, <1>9, SumaDeUnoMas

(* Values that are not negative add up to more over more elements, and to  *)
(* 0 only when they all are 0.                                             *)
LEMMA SumaCrece ==
  ASSUME NEW S, IsFiniteSet(S), NEW f \in [S -> Int], \A x \in S : f[x] >= 0, NEW M \in SUBSET S
  PROVE  /\ Suma(f, S) \in Nat /\ Suma(f, M) \in Nat /\ Suma(f, M) <= Suma(f, S)
         /\ \A x \in S : f[x] <= Suma(f, S)
<1>1. ASSUME NEW N \in SUBSET S PROVE Suma(f, N) = Cardinality(Monton(f, N)) /\ IsFiniteSet(Monton(f, N)) /\ Suma(f, N) \in Nat
  <2>1. Monton(Opuesta(f), N) = {}
    BY DEF Monton, Opuesta
  <2>2. IsFiniteSet(Monton(f, N))
    BY MontonFinito
  <2> QED
    BY <2>1, <2>2, FS_EmptySet, FS_CardinalityType DEF Suma
<1>2. Monton(f, M) \in SUBSET Monton(f, S)
  BY DEF Monton
<1>3. Suma(f, M) <= Suma(f, S)
  BY <1>1, <1>2, FS_Subset
<1>4. ASSUME NEW x \in S PROVE f[x] <= Suma(f, S)
  <2>1. Suma(f, S) = f[x] + Suma(f, S \ {x}) /\ S \ {x} \in SUBSET S
    BY SumaDeUnoMas
  <2> QED
    BY <1>1, <2>1
<1> QED
  BY <1>1, <1>3, <1>4

(* Terms that are equal add up to the same.                                *)
LEMMA SumaIgual ==
  ASSUME NEW S, IsFiniteSet(S), NEW f \in [S -> Int], NEW R, IsFiniteSet(R), NEW g \in [R -> Int],
         NEW M, M \subseteq S, M \subseteq R, \A x \in M : f[x] = g[x]
  PROVE  Suma(f, M) = Suma(g, M)
<1>1. Monton(f, M) = Monton(g, M)
  BY DEF Monton
<1>2. Monton(Opuesta(f), M) = Monton(Opuesta(g), M)
  <2>1. \A x \in M : Opuesta(f)[x] = Opuesta(g)[x]
    BY DEF Opuesta
  <2> QED
    BY <2>1 DEF Monton
<1> QED
  BY <1>1, <1>2 DEF Suma

-----------------------------------------------------------------------------
(* The step of the inequality of Cauchy and Schwarz.                       *)
LEMMA PasoDeCauchy ==
  ASSUME NEW p \in Int, NEW m \in Nat, NEW n \in Nat, NEW x \in Int, NEW y \in Int, p * p <= m * n
  PROVE  (p + x * y) * (p + x * y) <= (m + x * x) * (n + y * y)
<1> DEFINE a == m * (y * y)
           b == n * (x * x)
           c == p * (x * y)
<1>1. \A i \in Int : i * i \in Nat
  OBVIOUS
<1>2. x * x \in Nat /\ y * y \in Nat /\ p * p \in Nat /\ m * n \in Nat /\ x * y \in Int
  BY <1>1
<1>3. a \in Nat /\ b \in Nat /\ c \in Int
  BY <1>2
<1>4. c * c <= a * b
  <2>1. c * c = (p * p) * ((x * x) * (y * y))
    BY <1>2
  <2>2. a * b = (m * n) * ((x * x) * (y * y))
    BY <1>2
  <2>3. (x * x) * (y * y) \in Nat
    BY <1>2
  <2>4. \A i, j, k \in Nat : i <= j => i * k <= j * k
    OBVIOUS
  <2> HIDE DEF a, b, c
  <2> QED
    BY <1>2, <2>1, <2>2, <2>3, <2>4
<1>5. c + c <= a + b
  <2> HIDE DEF a, b, c
  <2> SUFFICES ASSUME a + b < c + c PROVE FALSE
    BY <1>3
  <2>1. (a + b) * (a + b) < (c + c) * (c + c)
    <3>1. \A i, j \in Nat : i < j => i * i < j * j
      OBVIOUS
    <3>2. a + b \in Nat /\ c + c \in Nat
      BY <1>3
    <3> QED
      BY <3>1, <3>2
  <2>2. (c + c) * (c + c) = 4 * (c * c)
    BY <1>3
  <2>3. (a + b) * (a + b) = (a - b) * (a - b) + 4 * (a * b)
    BY <1>3
  <2>4. (a - b) * (a - b) >= 0 /\ a - b \in Int
    BY <1>1, <1>3
  <2>5. c * c \in Int /\ a * b \in Int /\ (a - b) * (a - b) \in Int
    BY <1>3
  <2> QED
    BY <1>4, <2>1, <2>2, <2>3, <2>4, <2>5
<1>6. (p + x * y) * (p + x * y) = p * p + (c + c) + (x * x) * (y * y)
  <2>1. \A q \in Int : (p + q) * (p + q) = p * p + (p * q + p * q) + q * q
    OBVIOUS
  <2>2. (x * y) * (x * y) = (x * x) * (y * y)
    OBVIOUS
  <2> QED
    BY <1>2, <2>1, <2>2
<1>7. (m + x * x) * (n + y * y) = m * n + (a + b) + (x * x) * (y * y)
  BY <1>2
<1> HIDE DEF a, b, c
<1>8. (x * x) * (y * y) \in Nat
  BY <1>2
<1> QED
  BY <1>2, <1>3, <1>5, <1>6, <1>7, <1>8
=============================================================================
