---------------------------- MODULE TablasProofs ----------------------------
(***************************************************************************)
(* The hash tables of expat, proved for every hash and every initial size. *)
(*                                                                         *)
(* PROBE_STEP is odd and the size a power of two, so no two of the slots a *)
(* name tries are the same, and it tries them all (IntentosDistintos,      *)
(* IntentosCubren).  A table of the names N (TablaDe) has each of them in  *)
(* a slot that its probe reaches without passing a free one, and half of   *)
(* its slots free: then a name that is not there meets a free slot, and    *)
(* what is put there hides none of the others (PonerGuarda), in a table    *)
(* that grows too (DuplicarGuarda).                                        *)
(***************************************************************************)
EXTENDS Tablas, ConteoProofs

(* Powers of two, counted as the subsets of 1..n.                          *)
LEMMA DosALaN ==
  /\ 2 ^ 0 = 1
  /\ \A n \in Nat : 2 ^ n \in Nat \ {0} /\ 2 ^ (n + 1) = 2 * 2 ^ n
<1>1. \A n \in Nat : IsFiniteSet(1..n) /\ Cardinality(1..n) = n /\ IsFiniteSet(SUBSET (1..n)) /\ Cardinality(SUBSET (1..n)) = 2 ^ n
  <2> SUFFICES ASSUME NEW n \in Nat
               PROVE  IsFiniteSet(1..n) /\ Cardinality(1..n) = n /\ IsFiniteSet(SUBSET (1..n)) /\ Cardinality(SUBSET (1..n)) = 2 ^ n
    OBVIOUS
  <2>1. IsFiniteSet(1..n) /\ Cardinality(1..n) = n
    BY FS_Interval
  <2> QED
    BY <2>1, FS_SUBSET
<1>2. 2 ^ 0 = 1
  <2>1. SUBSET (1..0) = {{}}
    OBVIOUS
  <2> QED
    BY <1>1, <2>1, FS_Singleton
<1>3. ASSUME NEW n \in Nat PROVE 2 ^ (n + 1) = 2 * 2 ^ n
  <2> DEFINE A == SUBSET (1..n)
             B == { T \in SUBSET (1..(n + 1)) : n + 1 \in T }
             f == [T \in A |-> T \cup {n + 1}]
  <2>1. SUBSET (1..(n + 1)) = A \cup B /\ A \cap B = {}
    <3>1. 1..(n + 1) = 1..n \cup {n + 1} /\ n + 1 \notin 1..n
      OBVIOUS
    <3> QED
      BY <3>1
  <2>2. f \in Bijection(A, B)
    <3>1. 1..(n + 1) = 1..n \cup {n + 1} /\ n + 1 \notin 1..n
      OBVIOUS
    <3>2. f \in [A -> B]
      BY <3>1
    <3>3. \A T, U \in A : f[T] = f[U] => T = U
      BY <3>1
    <3>4. \A U \in B : \E T \in A : f[T] = U
      <4> SUFFICES ASSUME NEW U \in B PROVE \E T \in A : f[T] = U
        OBVIOUS
      <4>1. U \ {n + 1} \in A /\ f[U \ {n + 1}] = U
        BY <3>1
      <4> QED
        BY <4>1
    <3> HIDE DEF f, A, B
    <3> QED
      BY <3>2, <3>3, <3>4 DEF Bijection, Injection, Surjection, IsInjective
  <2>3. IsFiniteSet(A) /\ Cardinality(A) = 2 ^ n /\ Cardinality(A) \in Nat
    BY <1>1, FS_CardinalityType
  <2>4. IsFiniteSet(B) /\ Cardinality(B) = Cardinality(A)
    <3> HIDE DEF A, B, f
    <3> QED
      BY <2>2, <2>3, FS_Bijection DEF ExistsBijection
  <2>5. Cardinality(A \cup B) = Cardinality(A) + Cardinality(B) - Cardinality(A \cap B)
    <3> HIDE DEF A, B
    <3> QED
      BY <2>3, <2>4, FS_Union
  <2>6. Cardinality(SUBSET (1..(n + 1))) = 2 ^ (n + 1)
    <3>1. n + 1 \in Nat
      OBVIOUS
    <3> QED
      BY <3>1, <1>1
  <2>7. Cardinality(A \cup B) = 2 ^ (n + 1)
    BY <2>1, <2>6
  <2>8. Cardinality(A \cap B) = 0
    BY <2>1, FS_EmptySet
  <2> HIDE DEF A, B
  <2> QED
    BY <2>3, <2>4, <2>5, <2>7, <2>8
<1>4. \A n \in Nat : 2 ^ n \in Nat /\ 2 ^ n # 0
  <2> SUFFICES ASSUME NEW n \in Nat PROVE 2 ^ n \in Nat /\ 2 ^ n # 0
    OBVIOUS
  <2>1. 2 ^ n \in Nat
    BY <1>1, FS_CardinalityType
  <2>2. {} \in SUBSET (1..n)
    OBVIOUS
  <2>3. SUBSET (1..n) # {}
    BY <2>2
  <2> QED
    BY <1>1, <2>1, <2>3, FS_EmptySet
<1> QED
  BY <1>2, <1>3, <1>4

(* A number that leaves nothing is a multiple.                             *)
LEMMA Multiplo ==
  ASSUME NEW x \in Int, NEW y \in Int, y > 0, x % y = 0
  PROVE  \E c \in Int : x = y * c
OBVIOUS

(* No multiple of an odd number by less than a power of two is one of it.  *)
LEMMA Impares ==
  ASSUME NEW s \in Nat, s % 2 = 1
  PROVE  \A p \in Nat : \A d \in 1..(2 ^ p - 1) : (d * s) % 2 ^ p # 0
<1> SUFFICES ASSUME NEW q \in Nat, ~ \A d \in 1..(2 ^ q - 1) : (d * s) % 2 ^ q # 0 PROVE FALSE
  OBVIOUS
<1> DEFINE M == { p \in Nat : \E d \in 1..(2 ^ p - 1) : (d * s) % 2 ^ p = 0 }
<1>1. PICK p \in M : \A x \in M : p <= x
  <2>1. M \subseteq Nat /\ M # {}
    OBVIOUS
  <2> HIDE DEF M
  <2> QED
    BY <2>1, MenorNatural
<1>2. PICK d \in 1..(2 ^ p - 1) : (d * s) % 2 ^ p = 0
  BY <1>1
<1>3. p \in Nat /\ p # 0
  <2>1. p \in Nat
    BY <1>1
  <2>2. ASSUME p = 0 PROVE FALSE
    <3>1. d \in 1..(1 - 1)
      BY <1>2, <2>2, DosALaN
    <3> QED
      BY <3>1
  <2> QED
    BY <2>1, <2>2
<1> DEFINE r == p - 1
           Z == 2 ^ r
<1>4. r \in Nat /\ r + 1 = p /\ r \notin M
  BY <1>1, <1>3
<1>5. Z \in Nat \ {0} /\ 2 ^ p = 2 * Z
  BY <1>4, DosALaN
<1> HIDE DEF r
<1>6. d \in Nat /\ d # 0 /\ d < 2 * Z
  BY <1>2, <1>5
<1> HIDE DEF Z
<1>7. PICK t \in Nat : s = 2 * t + 1
  <2>1. s = 2 * (s \div 2) + 1 /\ s \div 2 \in Nat
    OBVIOUS
  <2> QED
    BY <2>1
<1>8. PICK c \in Int : d * s = (2 * Z) * c
  <2>1. d * s \in Int /\ 2 * Z \in Int /\ 2 * Z > 0
    BY <1>5, <1>6
  <2>2. (d * s) % (2 * Z) = 0
    BY <1>2, <1>5
  <2> QED
    BY <2>1, <2>2, Multiplo
<1>9. PICK e \in Nat : d = 2 * e
  <2>1. d * s = 2 * (d * t) + d
    BY <1>6, <1>7
  <2>2. (2 * Z) * c = 2 * (Z * c)
    BY <1>5, <1>8
  <2>3. d * t \in Int /\ Z * c \in Int
    BY <1>5, <1>6, <1>7, <1>8
  <2> DEFINE u == d * t
             v == Z * c
  <2>4. u \in Int /\ v \in Int /\ 2 * u + d = 2 * v
    BY <1>8, <2>1, <2>2, <2>3
  <2> HIDE DEF u, v
  <2>5. d = 2 * (v - u) /\ v - u \in Nat
    BY <1>6, <2>4
  <2> QED
    BY <2>5
<1>10. e * s = Z * c
  <2>1. d * s = 2 * (e * s)
    BY <1>9
  <2>2. (2 * Z) * c = 2 * (Z * c)
    BY <1>5, <1>8
  <2>3. e * s \in Int /\ Z * c \in Int
    BY <1>5, <1>8, <1>9
  <2> DEFINE u == e * s
             v == Z * c
  <2>4. u \in Int /\ v \in Int /\ 2 * u = 2 * v
    BY <1>8, <2>1, <2>2, <2>3
  <2> HIDE DEF u, v
  <2>5. u = v
    BY <2>4
  <2> QED
    BY <2>5 DEF u, v
<1>11. (e * s) % Z = 0
  <2>1. (Z * c) % Z = 0
    <3>1. Z \in Nat /\ Z > 0 /\ c \in Int
      BY <1>5, <1>8
    <3> QED
      BY <3>1
  <2> QED
    BY <1>10, <2>1
<1>12. e \in 1..(Z - 1)
  BY <1>5, <1>6, <1>9
<1> QED
  BY <1>4, <1>11, <1>12 DEF Z

-----------------------------------------------------------------------------
(* The step of a probe is odd and shorter than the table.                  *)
LEMMA PasoImpar ==
  ASSUME NEW h \in Nat, NEW power \in Nat \ {0}, NEW size, size = 2 ^ power
  PROVE  /\ size \in Nat /\ size >= 2 /\ size % 2 = 0
         /\ PROBE_STEP(h, size, power) \in 1..(size - 1) /\ PROBE_STEP(h, size, power) % 2 = 1
<1>1. power - 1 \in Nat /\ (power - 1) + 1 = power
  OBVIOUS
<1> DEFINE Z == 2 ^ (power - 1)
<1>2. Z \in Nat /\ Z # 0 /\ size = 2 * Z
  <2>1. 2 ^ ((power - 1) + 1) = 2 * 2 ^ (power - 1) /\ 2 ^ (power - 1) \in Nat \ {0}
    BY <1>1, DosALaN
  <2> QED
    BY <1>1, <2>1
<1>3. size \in Nat /\ size >= 2 /\ size % 2 = 0
  <2> HIDE DEF Z
  <2> QED
    BY <1>2
<1> DEFINE X == ((h \div size) * size) \div Z
           Y == ((size - 1) \div 4) + 1
           s == SECOND_HASH(h, size, power)
<1>4. X \in Int
  <2> HIDE DEF Z
  <2>1. (h \div size) * size \in Int
    BY <1>3
  <2> QED
    BY <1>2, <2>1
<1>5. Y \in Nat /\ Y > 0 /\ 4 * (Y - 1) <= size - 1
  BY <1>3
<1>6. s = X % Y
  BY DEF SECOND_HASH
<1> HIDE DEF X, Y, s
<1>7. s \in 0..(Y - 1)
  BY <1>4, <1>5, <1>6
<1>8. PROBE_STEP(h, size, power) = (IF s % 2 = 0 THEN s + 1 ELSE s) % 256
  BY DEF PROBE_STEP, s
<1> QED
  BY <1>3, <1>5, <1>7, <1>8

(* A probe visits no slot twice in as many steps as there are slots.       *)
LEMMA IntentosDistintos ==
  ASSUME NEW h \in Nat, NEW power \in Nat \ {0}, NEW size, size = 2 ^ power
  PROVE  /\ \A k \in 0..(size - 1) : Intento(h, size, power, k) \in 0..(size - 1)
         /\ \A k, m \in 0..(size - 1) : Intento(h, size, power, k) = Intento(h, size, power, m) => k = m
<1> DEFINE s == size - PROBE_STEP(h, size, power)
           a == h % size
<1>1. size \in Nat /\ size >= 2 /\ s \in Nat /\ s % 2 = 1
  <2>1. size \in Nat /\ size >= 2 /\ size % 2 = 0 /\ PROBE_STEP(h, size, power) \in 1..(size - 1) /\ PROBE_STEP(h, size, power) % 2 = 1
    BY PasoImpar
  <2> DEFINE step == PROBE_STEP(h, size, power)
  <2> HIDE DEF step
  <2>2. s = size - step
    BY DEF step
  <2> QED
    BY <2>1, <2>2 DEF step
<1>2. a \in Nat
  BY <1>1
<1>3. \A k : Intento(h, size, power, k) = (a + k * s) % size
  BY DEF Intento
<1> HIDE DEF s, a
<1>4. ASSUME NEW k \in 0..(size - 1) PROVE Intento(h, size, power, k) \in 0..(size - 1)
  <2>1. a + k * s \in Int
    BY <1>1, <1>2
  <2> QED
    BY <1>1, <1>3, <2>1
<1>5. ASSUME NEW k \in 0..(size - 1), NEW m \in 0..(size - 1), k < m,
             Intento(h, size, power, k) = Intento(h, size, power, m)
      PROVE  FALSE
  <2> DEFINE x == a + k * s
             y == a + m * s
  <2>1. x \in Int /\ y \in Int /\ x % size = y % size
    <3>1. x \in Int /\ y \in Int
      BY <1>1, <1>2
    <3>2. Intento(h, size, power, k) = x % size /\ Intento(h, size, power, m) = y % size
      BY <1>3
    <3> HIDE DEF x, y
    <3> QED
      BY <1>5, <3>1, <3>2
  <2>2. (m - k) * s = y - x
    BY <1>1, <1>2
  <2>3. (y - x) % size = 0
    <3> HIDE DEF x, y
    <3> DEFINE c == x \div size
               d == y \div size
               r == x % size
    <3>1. x = size * c + r /\ y = size * d + r /\ c \in Int /\ d \in Int /\ r \in Int
      BY <1>1, <2>1
    <3> HIDE DEF c, d, r
    <3>2. y - x = size * (d - c) /\ d - c \in Int
      BY <1>1, <3>1
    <3> HIDE <2>2
    <3>3. (size * (d - c)) % size = 0
      BY <1>1, <3>2
    <3> QED
      BY <3>2, <3>3
  <2>4. m - k \in 1..(size - 1)
    BY <1>1, <1>5
  <2> QED
    BY <1>1, <2>2, <2>3, <2>4, Impares
<1> QED
  <2> SUFFICES ASSUME NEW k \in 0..(size - 1), NEW m \in 0..(size - 1), Intento(h, size, power, k) = Intento(h, size, power, m)
               PROVE  k = m
    BY <1>4
  <2> QED
    BY <1>1, <1>5

(* So it finds the slots that are free.                                    *)
LEMMA IntentosCubren ==
  ASSUME NEW h \in Nat, NEW power \in Nat \ {0}, NEW size, size = 2 ^ power, NEW i \in 0..(size - 1)
  PROVE  \E k \in 0..(size - 1) : Intento(h, size, power, k) = i
<1> DEFINE R == 0..(size - 1)
           f == [k \in R |-> Intento(h, size, power, k)]
<1>1. size \in Nat
  BY PasoImpar
<1>2. IsFiniteSet(R)
  BY <1>1, FS_Interval
<1>3. f \in [R -> R] /\ \A k, m \in R : f[k] = f[m] => k = m
  BY IntentosDistintos
<1>4. f \in Surjection(R, R)
  <2> HIDE DEF f, R
  <2>1. f \in Injection(R, R)
    BY <1>3 DEF Injection, IsInjective
  <2> QED
    BY <1>2, <2>1, FS_Injection
<1>5. \A j \in R : \E k \in R : f[k] = j
  BY <1>4 DEF Surjection
<1> QED
  BY <1>5

-----------------------------------------------------------------------------
(* The slots v have the names N, once each, where a probe finds them: no   *)
(* slot before is free.                                                    *)
Guarda(v, size, power, N) ==
  /\ v \in [0..(size - 1) -> {Libre} \cup { <<n>> : n \in N }]
  /\ \A i, j \in 0..(size - 1) : v[i] = v[j] /\ v[i] # Libre => i = j
  /\ \A n \in N : \E k \in 0..(size - 1) :
       /\ v[Intento(Hash(n), size, power, k)] = <<n>>
       /\ \A m \in 0..(k - 1) : v[Intento(Hash(n), size, power, m)] # Libre

(* A table of the names N, half of it free.                                *)
TablaDe(t, N) ==
  /\ t = [power |-> t.power, size |-> t.size, used |-> t.used, v |-> t.v]
  /\ IsFiniteSet(N) /\ t.used = Cardinality(N)
  /\ \/ t.size = 0 /\ N = {}
     \/ /\ t.power \in Nat \ {0} /\ t.size = 2 ^ t.power
        /\ 2 * t.used <= t.size
        /\ Guarda(t.v, t.size, t.power, N)

(* A hash is a natural number, that of a name without one too.             *)
LEMMA HashNat == \A name : Hash(name) \in Nat
BY HashNatural DEF Hash

(* Lugar is the first slot of a probe that is free or has the name.        *)
LEMMA LugarEsPrimero ==
  ASSUME NEW size \in Nat, NEW power, NEW v, NEW name
  PROVE  \E k \in 0..size :
           /\ k = size \/ v[Intento(Hash(name), size, power, k)] \in {Libre, <<name>>}
           /\ \A m \in 0..(k - 1) : v[Intento(Hash(name), size, power, m)] \notin {Libre, <<name>>}
           /\ Lugar(v, size, power, name) = IF k = size THEN -1 ELSE Intento(Hash(name), size, power, k)
<1> DEFINE I(j) == v[Intento(Hash(name), size, power, j)]
           J == { j \in 0..size : j = size \/ I(j) \in {Libre, <<name>>} }
           Q(j) == /\ j = size \/ I(j) \in {Libre, <<name>>}
                   /\ \A m \in 0..(j - 1) : I(m) \notin {Libre, <<name>>}
           k == CHOOSE j \in 0..size : Q(j)
<1>1. PICK x \in J : \A y \in J : x <= y
  <2>1. J \subseteq Nat /\ size \in J
    OBVIOUS
  <2> HIDE DEF J
  <2> QED
    BY <2>1, MenorNatural
<1>2. x \in 0..size /\ Q(x)
  <2>1. x \in 0..size /\ (x = size \/ I(x) \in {Libre, <<name>>})
    BY <1>1
  <2>2. \A m \in 0..(x - 1) : m \in 0..size /\ m # size /\ m \notin J
    BY <1>1, <2>1
  <2> QED
    BY <2>1, <2>2
<1>3. k \in 0..size /\ Q(k)
  <2> HIDE DEF Q
  <2> QED
    BY <1>2
<1>4. Lugar(v, size, power, name) = IF k = size THEN -1 ELSE Intento(Hash(name), size, power, k)
  BY DEF Lugar
<1> HIDE DEF k
<1> QED
  BY <1>3, <1>4

(* It finds the names there are, and no other.                             *)
LEMMA LugarHalla ==
  ASSUME NEW power \in Nat \ {0}, NEW size, size = 2 ^ power, NEW v, NEW N, Guarda(v, size, power, N), NEW name
  PROVE  LET i == Lugar(v, size, power, name)
         IN  /\ name \in N => i \in 0..(size - 1) /\ v[i] = <<name>>
             /\ name \notin N => i = -1 \/ (i \in 0..(size - 1) /\ v[i] = Libre)
<1> DEFINE I(j) == Intento(Hash(name), size, power, j)
<1>1. size \in Nat /\ \A j \in 0..(size - 1) : I(j) \in 0..(size - 1)
  BY HashNat, PasoImpar, IntentosDistintos
<1>2. PICK k \in 0..size :
           /\ k = size \/ v[I(k)] \in {Libre, <<name>>}
           /\ \A m \in 0..(k - 1) : v[I(m)] \notin {Libre, <<name>>}
           /\ Lugar(v, size, power, name) = IF k = size THEN -1 ELSE I(k)
  BY <1>1, LugarEsPrimero
<1> HIDE DEF I
<1>3. ASSUME name \in N PROVE k # size /\ v[I(k)] = <<name>>
  <2>1. PICK j \in 0..(size - 1) : v[I(j)] = <<name>> /\ \A m \in 0..(j - 1) : v[I(m)] # Libre
    BY <1>3 DEF Guarda, I
  <2>2. ~ (j < k)
    <3>1. j < k => j \in 0..(k - 1)
      BY <1>1, <1>2
    <3> QED
      BY <1>2, <2>1, <3>1
  <2>3. k # size
    BY <1>1, <1>2, <2>2
  <2>4. CASE k = j
    BY <2>1, <2>3, <2>4
  <2>5. CASE k < j
    <3>1. k \in 0..(j - 1)
      BY <1>1, <1>2, <2>5
    <3> QED
      BY <1>2, <2>1, <2>3, <3>1
  <2> QED
    BY <1>1, <1>2, <2>2, <2>4, <2>5
<1>4. ASSUME name \notin N, k # size PROVE v[I(k)] = Libre
  <2>1. I(k) \in 0..(size - 1)
    BY <1>1, <1>2, <1>4
  <2>2. v[I(k)] \in {Libre} \cup { <<n>> : n \in N }
    BY <2>1 DEF Guarda
  <2>3. <<name>> \notin { <<n>> : n \in N }
    BY <1>4
  <2> QED
    BY <1>2, <1>4, <2>2, <2>3 DEF Libre
<1> QED
  BY <1>1, <1>2, <1>3, <1>4

(* With fewer names than slots a slot is free, and a new name goes to the  *)
(* first free one of its probe.                                            *)
LEMMA HayLugar ==
  ASSUME NEW power \in Nat \ {0}, NEW size, size = 2 ^ power, NEW v, NEW N, Guarda(v, size, power, N),
         IsFiniteSet(N), Cardinality(N) < size, NEW name, name \notin N
  PROVE  \E k \in 0..(size - 1) :
           /\ Lugar(v, size, power, name) = Intento(Hash(name), size, power, k)
           /\ v[Intento(Hash(name), size, power, k)] = Libre
           /\ \A m \in 0..(k - 1) : v[Intento(Hash(name), size, power, m)] # Libre
<1> DEFINE R == 0..(size - 1)
           I(j) == Intento(Hash(name), size, power, j)
<1>1. size \in Nat /\ Hash(name) \in Nat /\ \A j \in R : I(j) \in R
  BY HashNat, PasoImpar, IntentosDistintos
<1>2. PICK i \in R : v[i] = Libre
  <2> SUFFICES ASSUME \A i \in R : v[i] # Libre PROVE FALSE
    OBVIOUS
  <2> DEFINE f == [i \in R |-> v[i][1]]
  <2>1. \A i \in R : \E n \in N : v[i] = <<n>>
    BY DEF Guarda
  <2>2. f \in [R -> N] /\ \A i, j \in R : f[i] = f[j] => i = j
    <3>1. \A i \in R : v[i][1] \in N /\ v[i] = <<v[i][1]>>
      BY <2>1
    <3>2. f \in [R -> N]
      BY <3>1
    <3>3. ASSUME NEW i \in R, NEW j \in R, f[i] = f[j] PROVE i = j
      <4>1. v[i] = v[j]
        BY <3>1, <3>3
      <4> QED
        BY <4>1 DEF Guarda
    <3> QED
      BY <3>2, <3>3
  <2>3. f \in Injection(R, N)
    <3> HIDE DEF f, R
    <3> QED
      BY <2>2 DEF Injection, IsInjective
  <2>4. Cardinality(R) <= Cardinality(N)
    <3> HIDE DEF f, R
    <3> QED
      BY <2>3, FS_Injection
  <2>5. Cardinality(R) = size /\ Cardinality(N) \in Nat
    BY <1>1, FS_Interval, FS_CardinalityType
  <2> HIDE DEF R
  <2> QED
    BY <1>1, <2>4, <2>5
<1>3. PICK j \in R : I(j) = i
  <2> DEFINE h == Hash(name)
  <2>0. h \in Nat
    BY <1>1
  <2> HIDE DEF h
  <2>1. \E k \in 0..(size - 1) : Intento(h, size, power, k) = i
    <3> HIDE <1>1, <1>2
    <3>1. i \in 0..(size - 1)
      OBVIOUS
    <3> HIDE DEF R
    <3> QED
      BY <2>0, <3>1, IntentosCubren
  <2> QED
    BY <2>1 DEF h
<1>4. PICK k \in 0..size :
           /\ k = size \/ v[I(k)] \in {Libre, <<name>>}
           /\ \A m \in 0..(k - 1) : v[I(m)] \notin {Libre, <<name>>}
           /\ Lugar(v, size, power, name) = IF k = size THEN -1 ELSE I(k)
  BY <1>1, LugarEsPrimero
<1> HIDE DEF I
<1>5. k # size
  <2>1. j < k => j \in 0..(k - 1)
    BY <1>1, <1>4
  <2> QED
    BY <1>1, <1>2, <1>3, <1>4, <2>1
<1>6. v[I(k)] = Libre
  <2>1. k \in R
    BY <1>1, <1>4, <1>5
  <2>2. v[I(k)] \in {Libre} \cup { <<n>> : n \in N }
    BY <1>1, <2>1 DEF Guarda
  <2>3. <<name>> \notin { <<n>> : n \in N }
    OBVIOUS
  <2> QED
    BY <1>4, <1>5, <2>2, <2>3 DEF Libre
<1> QED
  BY <1>1, <1>4, <1>5, <1>6 DEF I

(* Then the table has one name more.                                       *)
LEMMA PonerGuarda ==
  ASSUME NEW power \in Nat \ {0}, NEW size, size = 2 ^ power, NEW v, NEW N, Guarda(v, size, power, N),
         IsFiniteSet(N), Cardinality(N) < size, NEW name, name \notin N
  PROVE  Guarda(Poner(v, size, power, name), size, power, N \cup {name})
<1> DEFINE R == 0..(size - 1)
           I(n, j) == Intento(Hash(n), size, power, j)
           w == Poner(v, size, power, name)
<1>1. size \in Nat /\ \A n : \A j \in R : I(n, j) \in R
  BY HashNat, PasoImpar, IntentosDistintos
<1>2. PICK k \in R :
           /\ Lugar(v, size, power, name) = I(name, k)
           /\ v[I(name, k)] = Libre
           /\ \A m \in 0..(k - 1) : v[I(name, m)] # Libre
  BY HayLugar
<1> DEFINE i == I(name, k)
<1>3. i \in R /\ w = [v EXCEPT ![i] = <<name>>] /\ v[i] = Libre
  BY <1>1, <1>2 DEF Poner
<1> HIDE DEF I, w, i
<1>4. v \in [R -> {Libre} \cup { <<n>> : n \in N }]
  BY DEF Guarda
<1>5. w[i] = <<name>> /\ \A j \in R : j # i => w[j] = v[j]
  BY <1>3, <1>4
<1>6. w \in [R -> {Libre} \cup { <<n>> : n \in N \cup {name} }]
  BY <1>3, <1>4
<1>7. \A j \in R : v[j] # <<name>>
  <2> SUFFICES ASSUME NEW j \in R, v[j] = <<name>> PROVE FALSE
    OBVIOUS
  <2>1. v[j] \in {Libre} \cup { <<n>> : n \in N }
    BY <1>4
  <2> QED
    BY <2>1 DEF Libre
<1>8. ASSUME NEW j \in R, NEW h \in R, w[j] = w[h], w[j] # Libre PROVE j = h
  <2>1. \A x, y \in R : v[x] = v[y] /\ v[x] # Libre => x = y
    BY DEF Guarda
  <2> QED
    BY <1>5, <1>7, <1>8, <2>1
<1>9. ASSUME NEW n \in N \cup {name}
      PROVE  \E j \in R : w[I(n, j)] = <<n>> /\ \A m \in 0..(j - 1) : w[I(n, m)] # Libre
  <2>0. <<name>> # Libre
    BY DEF Libre
  <2>1. CASE n = name
    <3>1. \A m \in 0..(k - 1) : w[I(name, m)] # Libre
      <4> SUFFICES ASSUME NEW m \in 0..(k - 1) PROVE w[I(name, m)] # Libre
        OBVIOUS
      <4>1. m \in R
        BY <1>1
      <4> QED
        BY <1>1, <1>2, <1>5, <2>0, <4>1
    <3>2. w[I(name, k)] = <<name>>
      BY <1>5 DEF i
    <3> QED
      BY <2>1, <3>1, <3>2
  <2>2. CASE n \in N
    <3>1. PICK j \in R : v[I(n, j)] = <<n>> /\ \A m \in 0..(j - 1) : v[I(n, m)] # Libre
      BY <2>2 DEF Guarda, I
    <3>2. \A m \in 0..(j - 1) : m \in R
      BY <1>1
    <3>3. w[I(n, j)] = <<n>>
      <4>1. I(n, j) # i
        BY <1>3, <3>1 DEF Libre
      <4> QED
        BY <1>1, <1>5, <3>1, <4>1
    <3>4. \A m \in 0..(j - 1) : w[I(n, m)] # Libre
      BY <1>1, <1>5, <2>0, <3>1, <3>2
    <3> QED
      BY <3>3, <3>4
  <2> QED
    BY <2>1, <2>2
<1> QED
  BY <1>6, <1>8, <1>9 DEF Guarda, I, w

-----------------------------------------------------------------------------
(* A table of nothing, and of nothing any more.                            *)
LEMMA VaciosGuarda ==
  ASSUME NEW size, NEW power
  PROVE  Guarda(Vacios(size), size, power, {})
<1>1. Vacios(size) \in [0..(size - 1) -> {Libre}] /\ \A i \in 0..(size - 1) : Vacios(size)[i] = Libre
  BY DEF Vacios
<1> QED
  BY <1>1 DEF Guarda

(* A function defined step by step on 0..n exists.                         *)
HayPasos(n, X, base, paso) == \E f \in [0..n -> X] : f[0] = base /\ \A i \in 1..n : f[i] = paso[i][f[i - 1]]
(* Any n steps, each a function on X, have the sequence of what they give. *)
LEMMA PasoAPaso ==
  ASSUME NEW n \in Nat, NEW X, NEW base \in X, NEW paso \in [1..n -> [X -> X]]
  PROVE  HayPasos(n, X, base, paso)
<1> DEFINE Es(m) == \E f \in [0..m -> X] : f[0] = base /\ \A i \in 1..m : f[i] = paso[i][f[i - 1]]
           M == { m \in 0..n : ~Es(m) }
<1> SUFFICES ASSUME ~Es(n) PROVE FALSE
  BY DEF HayPasos
<1>1. PICK m \in M : \A x \in M : m <= x
  <2>1. M \subseteq Nat /\ n \in M
    OBVIOUS
  <2> HIDE DEF M
  <2> QED
    BY <2>1, MenorNatural
<1>2. m \in 0..n /\ ~Es(m)
  BY <1>1
<1>3. m # 0
  <2> SUFFICES ASSUME m = 0 PROVE Es(m)
    BY <1>2
  <2> DEFINE f == [i \in 0..0 |-> base]
  <2>1. f \in [0..0 -> X] /\ f[0] = base /\ 1..0 = {}
    OBVIOUS
  <2> QED
    BY <2>1
<1>4. m - 1 \in 0..n /\ Es(m - 1)
  <2>1. m - 1 \in 0..n /\ m - 1 \notin M
    <3> HIDE DEF M, Es
    <3> QED
      BY <1>1, <1>2, <1>3
  <2> QED
    BY <2>1
<1>5. PICK g \in [0..(m - 1) -> X] : g[0] = base /\ \A i \in 1..(m - 1) : g[i] = paso[i][g[i - 1]]
  BY <1>4
<1> DEFINE f == [i \in 0..m |-> IF i = m THEN paso[m][g[m - 1]] ELSE g[i]]
<1>6. f \in [0..m -> X]
  <2>1. paso[m][g[m - 1]] \in X
    <3>1. m \in 1..n /\ g[m - 1] \in X
      BY <1>2, <1>3
    <3> QED
      BY <3>1
  <2>2. \A i \in 0..m : i # m => i \in 0..(m - 1)
    BY <1>2
  <2> QED
    BY <2>1, <2>2
<1>7. f[0] = base /\ \A i \in 1..m : f[i] = paso[i][f[i - 1]]
  <2>1. f[0] = base
    BY <1>2, <1>3, <1>5
  <2>2. ASSUME NEW i \in 1..m PROVE f[i] = paso[i][f[i - 1]]
    <3>1. i \in 0..m /\ i - 1 \in 0..m /\ i - 1 # m
      BY <1>2
    <3>2. f[i - 1] = g[i - 1]
      BY <3>1
    <3>3. CASE i = m
      BY <3>1, <3>2, <3>3
    <3>4. CASE i # m
      <4>1. i \in 1..(m - 1)
        BY <1>2, <3>4
      <4> QED
        BY <1>5, <3>1, <3>2, <3>4, <4>1
    <3> QED
      BY <3>3, <3>4
  <2> QED
    BY <2>1, <2>2
<1> HIDE DEF f
<1> QED
  BY <1>2, <1>6, <1>7

(* A new name takes a slot of the same table.                              *)
LEMMA PonerTipo ==
  ASSUME NEW S, NEW size, NEW power, NEW name \in S, NEW v \in [0..(size - 1) -> {Libre} \cup { <<n>> : n \in S }]
  PROVE  Poner(v, size, power, name) \in [0..(size - 1) -> {Libre} \cup { <<n>> : n \in S }]
BY DEF Poner

(* A table that grows keeps its names.                                     *)
LEMMA DuplicarGuarda ==
  ASSUME NEW t, NEW N, TablaDe(t, N), t.size # 0
  PROVE  /\ Duplicar(t) = [power |-> t.power + 1, size |-> 2 * t.size, used |-> t.used, v |-> Duplicar(t).v]
         /\ Guarda(Duplicar(t).v, 2 * t.size, t.power + 1, N)
<1> DEFINE size == 2 * t.size
           power == t.power + 1
           R == 0..(size - 1)
           X == [R -> {Libre} \cup { <<n>> : n \in N }]
<1>1. /\ t.power \in Nat \ {0} /\ t.size = 2 ^ t.power /\ t.size \in Nat /\ t.size >= 2
      /\ power \in Nat \ {0} /\ size = 2 ^ power /\ size \in Nat
  <2>1. t.power \in Nat \ {0} /\ t.size = 2 ^ t.power
    BY DEF TablaDe
  <2>2. t.size \in Nat /\ t.size >= 2
    <3>1. 0 \in Nat
      OBVIOUS
    <3> QED
      BY <2>1, <3>1, PasoImpar
  <2>3. 2 ^ (t.power + 1) = 2 * 2 ^ t.power
    BY <2>1, DosALaN
  <2> QED
    BY <2>1, <2>2, <2>3
<1>2. Guarda(t.v, t.size, t.power, N)
  BY <1>1 DEF TablaDe
<1>3. \A i \in 1..t.size : t.v[i - 1] # Libre => t.v[i - 1][1] \in N /\ t.v[i - 1] = <<t.v[i - 1][1]>>
  <2> SUFFICES ASSUME NEW i \in 1..t.size, t.v[i - 1] # Libre
               PROVE  t.v[i - 1][1] \in N /\ t.v[i - 1] = <<t.v[i - 1][1]>>
    OBVIOUS
  <2>1. i - 1 \in 0..(t.size - 1)
    BY <1>1
  <2>2. t.v[i - 1] \in { <<n>> : n \in N }
    BY <1>2, <2>1 DEF Guarda
  <2> QED
    BY <2>2
<1> DEFINE Ley(f) == f = [i \in 0..t.size |->
                            IF i = 0 THEN Vacios(size)
                            ELSE IF t.v[i - 1] = Libre THEN f[i - 1]
                            ELSE Poner(f[i - 1], size, power, t.v[i - 1][1])]
           newV == CHOOSE f : Ley(f)
<1>4. Duplicar(t) = [t EXCEPT !.size = size, !.power = power, !.v = newV[t.size]]
  BY DEF Duplicar
<1>5. Ley(newV)
  <2> DEFINE paso == [i \in 1..t.size |-> [v \in X |-> IF t.v[i - 1] = Libre THEN v
                                                        ELSE Poner(v, size, power, t.v[i - 1][1])]]
  <2>1. paso \in [1..t.size -> [X -> X]]
    <3> SUFFICES ASSUME NEW i \in 1..t.size, NEW v \in X, t.v[i - 1] # Libre
                 PROVE  Poner(v, size, power, t.v[i - 1][1]) \in X
      OBVIOUS
    <3>1. t.v[i - 1][1] \in N
      BY <1>3
    <3> QED
      BY <3>1, PonerTipo
  <2>2. Vacios(size) \in X
    BY DEF Vacios
  <2>3. PICK f \in [0..t.size -> X] : f[0] = Vacios(size) /\ \A i \in 1..t.size : f[i] = paso[i][f[i - 1]]
    <3> DEFINE base == Vacios(size)
               k == t.size
    <3>1. k \in Nat /\ base \in X /\ paso \in [1..k -> [X -> X]]
      BY <1>1, <2>1, <2>2
    <3> HIDE DEF paso, X, base, k, size, power, Ley, newV
    <3>2. HayPasos(k, X, base, paso)
      BY <3>1, PasoAPaso
    <3> QED
      BY <3>2 DEF HayPasos, base, k
  <2>4. \A i \in 1..t.size : f[i] = IF t.v[i - 1] = Libre THEN f[i - 1] ELSE Poner(f[i - 1], size, power, t.v[i - 1][1])
    <3> SUFFICES ASSUME NEW i \in 1..t.size
                 PROVE  f[i] = IF t.v[i - 1] = Libre THEN f[i - 1] ELSE Poner(f[i - 1], size, power, t.v[i - 1][1])
      OBVIOUS
    <3>1. f[i - 1] \in X
      <4>1. i - 1 \in 0..t.size
        BY <1>1
      <4> HIDE DEF X
      <4> QED
        BY <2>3, <4>1
    <3> HIDE DEF X
    <3> QED
      BY <2>3, <3>1
  <2>5. Ley(f)
    <3>1. \A i \in 0..t.size : i # 0 => i \in 1..t.size
      BY <1>1
    <3> HIDE DEF paso, X, size, power
    <3> QED
      BY <2>3, <2>4, <3>1
  <2> HIDE DEF Ley
  <2> QED
    BY <2>5
<1>6. newV[0] = Vacios(size)
  <2> HIDE DEF newV, size, power
  <2> QED
    BY <1>1, <1>5
<1>7. \A i \in 1..t.size : newV[i] = IF t.v[i - 1] = Libre THEN newV[i - 1] ELSE Poner(newV[i - 1], size, power, t.v[i - 1][1])
  <2> HIDE DEF newV, size, power
  <2> QED
    BY <1>1, <1>5
<1> HIDE DEF newV, Ley, X, R
<1> DEFINE Hasta(i) == { n \in N : \E j \in 0..(i - 1) : t.v[j] = <<n>> }
           Va(i) == Guarda(newV[i], size, power, Hasta(i))
           M == { i \in 0..t.size : ~Va(i) }
<1>8. \A i \in 0..t.size : Va(i)
  <2> SUFFICES ASSUME ~ \A i \in 0..t.size : Va(i) PROVE FALSE
    OBVIOUS
  <2>1. PICK i \in M : \A x \in M : i <= x
    <3> HIDE DEF Va
    <3>1. M \subseteq Nat /\ M # {}
      BY <1>1
    <3> HIDE DEF M
    <3> QED
      BY <3>1, MenorNatural
  <2>2. i \in 0..t.size /\ ~Va(i)
    BY <2>1
  <2>3. i # 0
    <3>1. Hasta(0) = {}
      OBVIOUS
    <3>2. Va(0)
      <4> HIDE DEF Hasta
      <4> QED
        BY <1>6, <3>1, VaciosGuarda
    <3> QED
      BY <2>2, <3>2
  <2>4. i \in 1..t.size /\ i - 1 \in 0..t.size /\ Va(i - 1)
    <3>1. i \in 1..t.size /\ i - 1 \in 0..t.size /\ i - 1 \notin M
      <4> HIDE DEF M, Va
      <4> QED
        BY <1>1, <2>1, <2>2, <2>3
    <3> HIDE DEF Va
    <3> QED
      BY <3>1
  <2>5. 0..(i - 1) = 0..((i - 1) - 1) \cup {i - 1}
    BY <1>1, <2>4
  <2>6. CASE t.v[i - 1] = Libre
    <3>1. Hasta(i) = Hasta(i - 1)
      <4>1. \A n : t.v[i - 1] # <<n>>
        BY <2>6 DEF Libre
      <4> QED
        BY <2>5, <4>1
    <3> HIDE DEF Hasta
    <3> QED
      BY <1>7, <2>2, <2>4, <2>6, <3>1
  <2>7. CASE t.v[i - 1] # Libre
    <3> DEFINE n == t.v[i - 1][1]
    <3>1. n \in N /\ t.v[i - 1] = <<n>>
      BY <1>3, <2>4, <2>7
    <3> HIDE DEF n
    <3>2. Hasta(i) = Hasta(i - 1) \cup {n}
      BY <2>5, <3>1
    <3>3. n \notin Hasta(i - 1)
      <4> SUFFICES ASSUME NEW j \in 0..((i - 1) - 1), t.v[j] = <<n>> PROVE FALSE
        OBVIOUS
      <4>1. j \in 0..(t.size - 1) /\ i - 1 \in 0..(t.size - 1) /\ j # i - 1
        BY <1>1, <2>4
      <4> QED
        BY <1>2, <2>7, <3>1, <4>1 DEF Guarda
    <3>4. IsFiniteSet(Hasta(i - 1)) /\ Cardinality(Hasta(i - 1)) < size
      <4>1. IsFiniteSet(N) /\ 2 * Cardinality(N) <= t.size /\ Cardinality(N) \in Nat
        <5>1. IsFiniteSet(N) /\ t.used = Cardinality(N) /\ 2 * t.used <= t.size
          BY <1>1 DEF TablaDe
        <5> QED
          BY <5>1, FS_CardinalityType
      <4>2. Hasta(i - 1) \subseteq N
        OBVIOUS
      <4> HIDE DEF Hasta
      <4>3. IsFiniteSet(Hasta(i - 1)) /\ Cardinality(Hasta(i - 1)) <= Cardinality(N) /\ Cardinality(Hasta(i - 1)) \in Nat
        BY <4>1, <4>2, FS_Subset, FS_CardinalityType
      <4> QED
        BY <1>1, <4>1, <4>3
    <3>5. newV[i] = Poner(newV[i - 1], size, power, n)
      BY <1>7, <2>4, <2>7 DEF n
    <3> HIDE DEF Hasta, size, power
    <3>6. Guarda(Poner(newV[i - 1], size, power, n), size, power, Hasta(i - 1) \cup {n})
      BY <1>1, <2>4, <3>3, <3>4, PonerGuarda
    <3> QED
      BY <2>2, <3>2, <3>5, <3>6
  <2> QED
    BY <2>6, <2>7
<1>9. Hasta(t.size) = N
  <2> SUFFICES ASSUME NEW n \in N PROVE \E j \in 0..(t.size - 1) : t.v[j] = <<n>>
    OBVIOUS
  <2>1. PICK k \in 0..(t.size - 1) : t.v[Intento(Hash(n), t.size, t.power, k)] = <<n>>
    BY <1>2 DEF Guarda
  <2>2. Intento(Hash(n), t.size, t.power, k) \in 0..(t.size - 1)
    BY <1>1, HashNat, IntentosDistintos
  <2> QED
    BY <2>1, <2>2
<1>10. t = [power |-> t.power, size |-> t.size, used |-> t.used, v |-> t.v]
  BY DEF TablaDe
<1>11. Guarda(newV[t.size], size, power, N)
  <2>1. t.size \in 0..t.size /\ Va(t.size)
    <3> HIDE DEF Va
    <3> QED
      BY <1>1, <1>8
  <2> HIDE DEF Hasta
  <2> QED
    BY <1>9, <2>1
<1>12. Duplicar(t) = [power |-> power, size |-> size, used |-> t.used, v |-> newV[t.size]]
  <2> HIDE DEF size, power
  <2> QED
    BY <1>4, <1>10
<1> QED
  BY <1>11, <1>12

-----------------------------------------------------------------------------
(* A table just created has no names.                                      *)
LEMMA TablaVacia == TablaDe(hashTableInit, {})
BY FS_EmptySet DEF TablaDe, hashTableInit

(* Without slots there are no names.                                       *)
LEMMA SinLugares ==
  ASSUME NEW t, NEW N, TablaDe(t, N), t.size = 0
  PROVE  N = {}
<1>1. ASSUME N # {} PROVE FALSE
  <2>1. t.power \in Nat \ {0} /\ t.size = 2 ^ t.power
    BY <1>1 DEF TablaDe
  <2>2. 2 ^ t.power # 0
    BY <2>1, DosALaN
  <2> QED
    BY <2>1, <2>2
<1> QED
  BY <1>1

(* A table with slots has a power of two of them, half of them free.       *)
LEMMA TamanoDe ==
  ASSUME NEW t, NEW N, TablaDe(t, N), t.size # 0
  PROVE  /\ t.power \in Nat \ {0} /\ t.size = 2 ^ t.power /\ t.size \in Nat /\ t.size >= 2
         /\ t.used \in Nat /\ 2 * t.used <= t.size
         /\ Guarda(t.v, t.size, t.power, N)
<1>1. /\ t.power \in Nat \ {0} /\ t.size = 2 ^ t.power /\ 2 * t.used <= t.size
      /\ Guarda(t.v, t.size, t.power, N) /\ IsFiniteSet(N) /\ t.used = Cardinality(N)
  BY DEF TablaDe
<1>2. t.size \in Nat /\ t.size >= 2
  <2>1. 0 \in Nat
    OBVIOUS
  <2> QED
    BY <1>1, <2>1, PasoImpar
<1> QED
  BY <1>1, <1>2, FS_CardinalityType

(* A name is found when, and only when, the table has it.                  *)
LEMMA LookupHalla ==
  ASSUME NEW t, NEW N, TablaDe(t, N), NEW name
  PROVE  (lookup(t, name) # -1) <=> (name \in N)
<1>1. CASE t.size = 0
  <2>1. N = {}
    BY <1>1, SinLugares
  <2> QED
    BY <1>1, <2>1 DEF lookup
<1>2. CASE t.size # 0
  <2> DEFINE i == Lugar(t.v, t.size, t.power, name)
  <2>1. /\ name \in N => i \in 0..(t.size - 1) /\ t.v[i] = <<name>>
        /\ name \notin N => i = -1 \/ (i \in 0..(t.size - 1) /\ t.v[i] = Libre)
    BY <1>2, TamanoDe, LugarHalla
  <2>2. t.size \in Nat
    BY <1>2, TamanoDe
  <2> HIDE DEF i
  <2>3. lookup(t, name) = IF i # -1 /\ t.v[i] = <<name>> THEN i ELSE -1
    BY <1>2 DEF lookup, i
  <2>4. i \in 0..(t.size - 1) => i # -1
    BY <2>2
  <2>5. Libre # <<name>>
    BY DEF Libre
  <2> QED
    BY <2>1, <2>3, <2>4, <2>5
<1> QED
  BY <1>1, <1>2

(* A name that is added is the only change, whatever it collides with.     *)
LEMMA CrearTabla ==
  ASSUME NEW t, NEW N, TablaDe(t, N), NEW name
  PROVE  TablaDe(Crear(t, name), N \cup {name})
<1>1. CASE name \in N
  <2>1. lookup(t, name) # -1
    BY <1>1, LookupHalla
  <2>2. Crear(t, name) = t /\ N \cup {name} = N
    BY <1>1, <2>1 DEF Crear
  <2> QED
    BY <2>2
<1>2. CASE name \notin N
  <2> DEFINE u == CASE t.size = 0 ->
                         [power |-> INIT_POWER, size |-> 2 ^ INIT_POWER, used |-> 0, v |-> Vacios(2 ^ INIT_POWER)]
                    [] t.size # 0 /\ Medio(t) -> Duplicar(t)
                    [] OTHER -> t
  <2>1. /\ u = [power |-> u.power, size |-> u.size, used |-> u.used, v |-> u.v]
        /\ u.power \in Nat \ {0} /\ u.size = 2 ^ u.power /\ u.size \in Nat
        /\ u.used = t.used /\ 2 * (u.used + 1) <= u.size
        /\ Guarda(u.v, u.size, u.power, N)
    <3>1. CASE t.size = 0
      <4>1. N = {} /\ t.used = 0
        <5>1. N = {}
          BY <3>1, SinLugares
        <5> QED
          BY <5>1, FS_EmptySet DEF TablaDe
      <4>2. u = [power |-> INIT_POWER, size |-> 2 ^ INIT_POWER, used |-> 0, v |-> Vacios(2 ^ INIT_POWER)]
        BY <3>1
      <4> HIDE DEF u
      <4>3. INIT_POWER \in Nat \ {0}
        BY PotenciaPositiva
      <4>4. 2 ^ INIT_POWER \in Nat /\ 2 ^ INIT_POWER >= 2
        <5>1. 0 \in Nat
          OBVIOUS
        <5> QED
          BY <4>3, <5>1, PasoImpar
      <4>5. Guarda(Vacios(2 ^ INIT_POWER), 2 ^ INIT_POWER, INIT_POWER, N)
        BY <4>1, VaciosGuarda
      <4> QED
        BY <4>1, <4>2, <4>3, <4>4, <4>5
    <3>2. CASE t.size # 0 /\ Medio(t)
      <4>1. u = Duplicar(t)
        BY <3>2
      <4> HIDE DEF u
      <4>2. /\ Duplicar(t) = [power |-> t.power + 1, size |-> 2 * t.size, used |-> t.used, v |-> Duplicar(t).v]
            /\ Guarda(Duplicar(t).v, 2 * t.size, t.power + 1, N)
        BY <3>2, DuplicarGuarda
      <4>3. /\ t.power \in Nat \ {0} /\ t.size = 2 ^ t.power /\ t.size \in Nat /\ t.size >= 2
            /\ t.used \in Nat /\ 2 * t.used <= t.size
        BY <3>2, TamanoDe
      <4>4. 2 ^ (t.power + 1) = 2 * t.size
        BY <4>3, DosALaN
      <4>5. u.power = t.power + 1 /\ u.size = 2 * t.size /\ u.used = t.used /\ u.v = Duplicar(t).v
        BY <4>1, <4>2
      <4>6. u = [power |-> u.power, size |-> u.size, used |-> u.used, v |-> u.v]
        BY <4>1, <4>2
      <4>7. u.power \in Nat \ {0} /\ u.size = 2 ^ u.power /\ Guarda(u.v, u.size, u.power, N)
        BY <4>2, <4>3, <4>4, <4>5
      <4>8. 2 * (u.used + 1) <= u.size /\ u.size \in Nat
        BY <4>3, <4>5
      <4> QED
        BY <4>5, <4>6, <4>7, <4>8
    <3>3. CASE t.size # 0 /\ ~Medio(t)
      <4>1. u = t
        BY <3>3
      <4> HIDE DEF u
      <4>2. /\ t.power \in Nat \ {0} /\ t.size = 2 ^ t.power /\ t.size \in Nat /\ t.size >= 2
            /\ t.used \in Nat /\ 2 * t.used <= t.size /\ Guarda(t.v, t.size, t.power, N)
        BY <3>3, TamanoDe
      <4>3. t = [power |-> t.power, size |-> t.size, used |-> t.used, v |-> t.v]
        BY DEF TablaDe
      <4>4. 2 * (t.used + 1) <= t.size
        <5> DEFINE z == 2 ^ (t.power - 1)
        <5>1. z \in Nat \ {0} /\ t.size = 2 * z
          <6>1. t.power - 1 \in Nat /\ (t.power - 1) + 1 = t.power
            BY <4>2
          <6>2. 2 ^ (t.power - 1) \in Nat \ {0} /\ 2 ^ ((t.power - 1) + 1) = 2 * 2 ^ (t.power - 1)
            BY <6>1, DosALaN
          <6> QED
            BY <4>2, <6>1, <6>2
        <5>2. t.used \div z = 0
          BY <3>3 DEF Medio
        <5> HIDE DEF z
        <5> DEFINE n == t.used
        <5>3. n \in Nat /\ n \div z = 0
          BY <4>2, <5>2
        <5> HIDE DEF n
        <5>4. n < z
          BY <5>1, <5>3
        <5> QED
          BY <5>1, <5>3, <5>4 DEF n
      <4> QED
        BY <4>1, <4>2, <4>3, <4>4
    <3> QED
      BY <3>1, <3>2, <3>3
  <2>2. Crear(t, name) = [u EXCEPT !.v = Poner(@, u.size, u.power, name), !.used = @ + 1]
    <3>1. lookup(t, name) = -1
      BY <1>2, LookupHalla
    <3> QED
      BY <3>1 DEF Crear
  <2> HIDE DEF u
  <2>3. IsFiniteSet(N) /\ u.used = Cardinality(N) /\ Cardinality(N) \in Nat
    <3>1. IsFiniteSet(N) /\ t.used = Cardinality(N)
      BY DEF TablaDe
    <3> QED
      BY <2>1, <3>1, FS_CardinalityType
  <2>4. Guarda(Poner(u.v, u.size, u.power, name), u.size, u.power, N \cup {name})
    <3>1. Cardinality(N) < u.size
      BY <2>1, <2>3
    <3> QED
      BY <1>2, <2>1, <2>3, <3>1, PonerGuarda
  <2>5. IsFiniteSet(N \cup {name}) /\ Cardinality(N \cup {name}) = Cardinality(N) + 1
    BY <1>2, <2>3, FS_AddElement
  <2> DEFINE w == Poner(u.v, u.size, u.power, name)
  <2> HIDE DEF w
  <2>6. Crear(t, name) = [power |-> u.power, size |-> u.size, used |-> u.used + 1, v |-> w]
    BY <2>1, <2>2 DEF w
  <2>7. Guarda(w, u.size, u.power, N \cup {name})
    BY <2>4 DEF w
  <2> QED
    BY <2>1, <2>3, <2>5, <2>6, <2>7 DEF TablaDe
<1> QED
  BY <1>1, <1>2

(* The names of a table are those it has, one in each slot that is taken.  *)
LEMMA NombresDeTabla ==
  ASSUME NEW t, NEW N, TablaDe(t, N)
  PROVE  hashTableNames(t) = N /\ t.used = Cardinality(N) /\ t.used = Cardinality(Ocupados(t))
<1>1. IsFiniteSet(N) /\ t.used = Cardinality(N)
  BY DEF TablaDe
<1>2. CASE t.size = 0
  <2>1. N = {}
    BY <1>2, SinLugares
  <2>2. Ocupados(t) = {}
    BY <1>2 DEF Ocupados
  <2> QED
    BY <1>1, <2>1, <2>2 DEF hashTableNames
<1>3. CASE t.size # 0
  <2> DEFINE R == 0..(t.size - 1)
             O == Ocupados(t)
  <2>1. /\ t.power \in Nat \ {0} /\ t.size = 2 ^ t.power /\ t.size \in Nat
        /\ t.v \in [R -> {Libre} \cup { <<n>> : n \in N }]
        /\ \A i, j \in R : t.v[i] = t.v[j] /\ t.v[i] # Libre => i = j
        /\ \A n \in N : \E k \in R : t.v[Intento(Hash(n), t.size, t.power, k)] = <<n>>
    <3>1. /\ t.power \in Nat \ {0} /\ t.size = 2 ^ t.power /\ t.size \in Nat /\ Guarda(t.v, t.size, t.power, N)
      BY <1>3, TamanoDe
    <3>2. /\ t.v \in [R -> {Libre} \cup { <<n>> : n \in N }]
          /\ \A i, j \in R : t.v[i] = t.v[j] /\ t.v[i] # Libre => i = j
      BY <3>1 DEF Guarda
    <3>3. \A n \in N : \E k \in R : t.v[Intento(Hash(n), t.size, t.power, k)] = <<n>>
      BY <3>1 DEF Guarda
    <3> QED
      BY <3>1, <3>2, <3>3
  <2>2. \A i \in O : i \in R /\ t.v[i][1] \in N /\ t.v[i] = <<t.v[i][1]>>
    <3> SUFFICES ASSUME NEW i \in O PROVE i \in R /\ t.v[i][1] \in N /\ t.v[i] = <<t.v[i][1]>>
      OBVIOUS
    <3>1. i \in R /\ t.v[i] # Libre
      BY DEF Ocupados
    <3>2. t.v[i] \in { <<n>> : n \in N }
      BY <2>1, <3>1
    <3> QED
      BY <3>1, <3>2
  <2>3. \A n \in N : \E i \in O : t.v[i] = <<n>>
    <3> SUFFICES ASSUME NEW n \in N PROVE \E i \in O : t.v[i] = <<n>>
      OBVIOUS
    <3>1. PICK k \in R : t.v[Intento(Hash(n), t.size, t.power, k)] = <<n>>
      BY <2>1
    <3>2. Intento(Hash(n), t.size, t.power, k) \in R
      BY <2>1, HashNat, IntentosDistintos
    <3> DEFINE i == Intento(Hash(n), t.size, t.power, k)
    <3> HIDE DEF i
    <3>3. i \in R /\ t.v[i] = <<n>> /\ t.v[i] # Libre
      BY <3>1, <3>2 DEF Libre, i
    <3>4. i \in O
      BY <3>3 DEF Ocupados
    <3> QED
      BY <3>3, <3>4
  <2> DEFINE f == [i \in O |-> t.v[i][1]]
  <2>4. f \in Bijection(O, N)
    <3>1. f \in [O -> N]
      BY <2>2
    <3>2. \A i, j \in O : f[i] = f[j] => i = j
      <4> SUFFICES ASSUME NEW i \in O, NEW j \in O, f[i] = f[j] PROVE i = j
        OBVIOUS
      <4>1. t.v[i] = t.v[j] /\ t.v[i] # Libre
        BY <2>2 DEF Libre
      <4> QED
        BY <2>1, <2>2, <4>1
    <3>3. \A n \in N : \E i \in O : f[i] = n
      BY <2>3
    <3> HIDE DEF f, O
    <3> QED
      BY <3>1, <3>2, <3>3 DEF Bijection, Injection, Surjection, IsInjective
  <2>5. IsFiniteSet(R)
    BY <2>1, FS_Interval
  <2>6. IsFiniteSet(O)
    <3>1. O \subseteq R
      BY DEF Ocupados
    <3> HIDE DEF O, R
    <3> QED
      BY <2>5, <3>1, FS_Subset
  <2>7. Cardinality(O) = Cardinality(N)
    <3> HIDE DEF O, R, f
    <3> QED
      BY <2>4, <2>6, FS_Bijection DEF ExistsBijection
  <2>8. hashTableNames(t) = N
    <3>1. hashTableNames(t) = { t.v[i][1] : i \in O }
      BY DEF hashTableNames
    <3>2. \A n \in N : \E i \in O : t.v[i][1] = n
      BY <2>3
    <3> HIDE DEF O
    <3> QED
      BY <2>2, <3>1, <3>2
  <2> QED
    BY <1>1, <2>7, <2>8
<1> QED
  BY <1>2, <1>3

=============================================================================
