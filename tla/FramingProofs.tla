--------------------------- MODULE FramingProofs ----------------------------
(***************************************************************************)
(* Theorems about the framing of the incoming bytes (Framing.tla), for any *)
(* base of the length's digits, any bodies and any number of packets and   *)
(* connections.                                                            *)
(***************************************************************************)
EXTENDS Framing, Integers, SequenceLemmas

Byte == [packet : Nat, at : Nat, value : Nat]

-----------------------------------------------------------------------------
(* Recursive functions.                                                     *)

\* A step within a set, taken again and again.
Steps(F, b, S) == b \in S /\ F \in [S -> S]

Iterates(F, b, S) == \E f \in [Nat -> S] : f[0] = b /\ \A n \in Nat : f[n + 1] = F[f[n]]

LEMMA RecursionOnNat ==
    ASSUME NEW S, NEW b, NEW F, Steps(F, b, S)
    PROVE  Iterates(F, b, S)
<1> b \in S /\ F \in [S -> S]
  BY DEF Steps
<1> DEFINE Is(g, n) == g[0] = b /\ \A i \in 1 .. n : g[i] = F[g[i - 1]]
           U == {n \in Nat : \E g \in [0 .. n -> S] : Is(g, n)}
<1>1. U = Nat
  <2>1. 0 \in U
    <3>1. [i \in 0 .. 0 |-> b] \in [0 .. 0 -> S] /\ Is([i \in 0 .. 0 |-> b], 0)
      OBVIOUS
    <3> QED
      BY <3>1
  <2>2. ASSUME NEW n \in U PROVE n + 1 \in U
    <3>1. PICK g \in [0 .. n -> S] : Is(g, n)
      OBVIOUS
    <3> DEFINE h == [i \in 0 .. n + 1 |-> IF i = n + 1 THEN F[g[n]] ELSE g[i]]
    <3>2. F[g[n]] \in S
      OBVIOUS
    <3>3. h \in [0 .. n + 1 -> S]
      BY <3>2
    <3>4. Is(h, n + 1)
      BY <3>1
    <3> HIDE DEF h, Is
    <3>5. n + 1 \in Nat /\ \E e \in [0 .. n + 1 -> S] : Is(e, n + 1)
      BY <3>3, <3>4
    <3> QED
      BY <3>5
  <2>3. U \in SUBSET Nat
    OBVIOUS
  <2> HIDE DEF U
  <2> QED
    BY <2>1, <2>2, <2>3, Induction
<1>2. ASSUME NEW n \in Nat PROVE \E g \in [0 .. n -> S] : Is(g, n)
  BY <1>1
<1> HIDE DEF U
<1>3. ASSUME NEW m \in Nat, NEW n \in Nat, m <= n, NEW g, Is(g, m), NEW h, Is(h, n)
      PROVE  g[m] = h[m]
  <2> DEFINE T == {k \in Nat : k <= m => g[k] = h[k]}
  <2>1. 0 \in T
    BY <1>3
  <2>2. ASSUME NEW k \in T PROVE k + 1 \in T
    <3>1. SUFFICES ASSUME k + 1 <= m PROVE g[k + 1] = h[k + 1]
      OBVIOUS
    <3>2. k + 1 \in 1 .. m /\ k + 1 \in 1 .. n /\ (k + 1) - 1 = k /\ k <= m
      BY <1>3, <3>1
    <3> QED
      BY <1>3, <3>2
  <2>3. T \in SUBSET Nat
    OBVIOUS
  <2> HIDE DEF T
  <2>4. m \in T
    BY <2>1, <2>2, <2>3, Induction
  <2> QED
    BY <2>4 DEF T
<1> DEFINE G(n) == CHOOSE g \in [0 .. n -> S] : Is(g, n)
           f == [n \in Nat |-> G(n)[n]]
<1>4. ASSUME NEW n \in Nat PROVE G(n) \in [0 .. n -> S] /\ Is(G(n), n)
  BY <1>2
<1> HIDE DEF G
<1>5. ASSUME NEW n \in Nat PROVE f[n] = G(n)[n] /\ f[n] \in S
  BY <1>4
<1>6. f \in [Nat -> S]
  BY <1>5
<1>7. f[0] = b
  BY <1>4
<1>8. ASSUME NEW n \in Nat PROVE f[n + 1] = F[f[n]]
  <2>1. n + 1 \in 1 .. n + 1 /\ (n + 1) - 1 = n /\ n <= n + 1 /\ n + 1 \in Nat
    OBVIOUS
  <2>2. PICK g : g = G(n + 1)
    OBVIOUS
  <2>3. PICK h : h = G(n)
    OBVIOUS
  <2>4. Is(g, n + 1) /\ Is(h, n)
    BY <1>4, <2>1, <2>2, <2>3
  <2>5. \A i \in 1 .. n : i \in 1 .. n + 1
    OBVIOUS
  <2>6. h[n] = g[n]
    BY <1>3, <2>1, <2>4
  <2>7. g[n + 1] = F[g[n]]
    BY <2>1, <2>4
  <2>8. f[n + 1] = g[n + 1] /\ f[n] = h[n]
    BY <1>5, <2>1, <2>2, <2>3
  <2> QED
    BY <2>6, <2>7, <2>8
<1> HIDE DEF f
<1> QED
  BY <1>6, <1>7, <1>8 DEF Iterates

\* A definition of a function from D to R, as the step F from one function to the
\* next, that refers to its values at arguments of a smaller measure M only; and
\* that there is such a function.
Recursion(F, M, D, R) ==
    /\ R # {} /\ M \in [D -> Nat] /\ F \in [[D -> R] -> [D -> R]]
    /\ \A g, h \in [D -> R] : \A x \in D :
          (\A y \in D : M[y] < M[x] => g[y] = h[y]) => F[g][x] = F[h][x]

Defines(F, D, R) == \E f \in [D -> R] : f = F[f]

LEMMA RecursiveFunction ==
    ASSUME NEW D, NEW R, NEW M, NEW F, Recursion(F, M, D, R)
    PROVE  Defines(F, D, R)
<1> M \in [D -> Nat] /\ F \in [[D -> R] -> [D -> R]]
  BY DEF Recursion
<1>0. \A g, h \in [D -> R] : \A x \in D :
         (\A y \in D : M[y] < M[x] => g[y] = h[y]) => F[g][x] = F[h][x]
  BY DEF Recursion
<1> PICK r \in R : TRUE
  BY DEF Recursion
<1> DEFINE S == [D -> R]
           b == [x \in D |-> r]
<1>1. b \in S
  OBVIOUS
<1>2. Steps(F, b, S)
  BY <1>1 DEF Steps
<1> HIDE DEF b, S
<1>3. Iterates(F, b, S)
  BY <1>2, RecursionOnNat
<1>4. PICK G \in [Nat -> S] : \A n \in Nat : G[n + 1] = F[G[n]]
  BY <1>3 DEF Iterates
<1> USE DEF S
<1> DEFINE P == {n \in Nat : \A x \in D : M[x] < n => G[n + 1][x] = G[n][x]}
<1>5. P = Nat
  <2>1. 0 \in P
    OBVIOUS
  <2>2. ASSUME NEW n \in P PROVE n + 1 \in P
    <3>1. SUFFICES ASSUME NEW x \in D, M[x] < n + 1 PROVE G[(n + 1) + 1][x] = G[n + 1][x]
      OBVIOUS
    <3>2. \A y \in D : M[y] < M[x] => G[n + 1][y] = G[n][y]
      BY <3>1
    <3>3. G[n] \in S /\ G[n + 1] \in S /\ n + 1 \in Nat
      OBVIOUS
    <3>4. F[G[n + 1]][x] = F[G[n]][x]
      BY <1>0, <3>2, <3>3
    <3> QED
      BY <1>4, <3>3, <3>4
  <2>3. P \in SUBSET Nat
    OBVIOUS
  <2> HIDE DEF P
  <2> QED
    BY <2>1, <2>2, <2>3, Induction
<1>6. ASSUME NEW x \in D, NEW n \in Nat, M[x] < n PROVE G[n][x] = G[M[x] + 1][x]
  <2> DEFINE T == {k \in Nat : G[M[x] + 1 + k][x] = G[M[x] + 1][x]}
  <2>1. 0 \in T
    BY M[x] + 1 + 0 = M[x] + 1
  <2>2. ASSUME NEW k \in T PROVE k + 1 \in T
    <3>1. PICK m \in Nat : m = M[x] + 1 + k
      OBVIOUS
    <3>2. M[x] < m /\ M[x] + 1 + (k + 1) = m + 1
      <4>1. PICK q \in Nat : q = M[x]
        OBVIOUS
      <4>2. k \in Nat /\ m = q + 1 + k
        BY <3>1, <4>1
      <4>3. q < m /\ q + 1 + (k + 1) = m + 1
        BY ONLY <4>1, <4>2
      <4> QED
        BY <4>1, <4>3
    <3>3. G[m + 1][x] = G[m][x]
      BY <1>5, <3>2
    <3> QED
      BY <3>1, <3>2, <3>3
  <2>3. T \in SUBSET Nat
    OBVIOUS
  <2> HIDE DEF T
  <2>4. T = Nat
    BY <2>1, <2>2, <2>3, Induction
  <2>5. PICK k \in Nat : n = M[x] + 1 + k
    <3>1. n - (M[x] + 1) \in Nat /\ n = M[x] + 1 + (n - (M[x] + 1))
      BY <1>6
    <3> QED
      BY <3>1
  <2> QED
    BY <2>4, <2>5 DEF T
<1> DEFINE f == [x \in D |-> G[M[x] + 1][x]]
<1>7. f \in S
  OBVIOUS
<1>8. ASSUME NEW x \in D PROVE f[x] = F[f][x]
  <2>1. M[x] \in Nat /\ G[M[x]] \in S
    OBVIOUS
  <2>2. f[x] = F[G[M[x]]][x]
    BY <1>4, <2>1
  <2>3. \A y \in D : M[y] < M[x] => f[y] = G[M[x]][y]
    BY <1>6, <2>1
  <2> HIDE DEF f
  <2>4. F[f][x] = F[G[M[x]]][x]
    BY <1>0, <1>7, <2>1, <2>3
  <2> QED
    BY <2>2, <2>4
<1>9. f = F[f]
  <2> HIDE DEF f
  <2>1. F[f] \in [D -> R]
    BY <1>7
  <2> QED
    BY <1>7, <1>8, <2>1
<1> HIDE DEF f
<1> QED
  BY <1>7, <1>9 DEF Defines

-----------------------------------------------------------------------------
(* Numbers and their digits.                                                *)

\* A number, its last digit and the number above it.
LEMMA LastDigitOf ==
    ASSUME NEW k \in Nat
    PROVE  /\ k % Base \in Nat /\ k % Base < Base /\ k \div Base \in Nat
           /\ k = (k % Base) + Base * (k \div Base)
           /\ k < Base => k % Base = k /\ (k + Base) % Base = k
           /\ k >= Base => k \div Base < k
BY FramingAssumption DEF FramingAssumption

\* Numbers defined by recursion.
LEMMA NumbersByRecursion ==
    ASSUME NEW n \in Nat, NEW F \in [Nat -> [Nat -> Nat]]
    PROVE  \E f \in [0 .. n -> Nat] : f[0] = 0 /\ \A k \in 1 .. n : f[k] = F[k][f[k - 1]]
<1> DEFINE Is(f, m) == f[0] = 0 /\ \A k \in 1 .. m : f[k] = F[k][f[k - 1]]
           T == {m \in Nat : \E f \in [0 .. m -> Nat] : Is(f, m)}
<1>1. 0 \in T
  <2>1. [i \in 0 .. 0 |-> 0] \in [0 .. 0 -> Nat] /\ Is([i \in 0 .. 0 |-> 0], 0)
    OBVIOUS
  <2> QED
    BY <2>1
<1>2. ASSUME NEW m \in T PROVE m + 1 \in T
  <2>1. PICK f \in [0 .. m -> Nat] : Is(f, m)
    OBVIOUS
  <2>2. PICK v \in Nat : v = F[m + 1][f[m]]
    <3>1. m \in Nat /\ m + 1 \in Nat /\ m \in 0 .. m
      OBVIOUS
    <3>2. F[m + 1] \in [Nat -> Nat]
      BY <3>1
    <3>3. f[m] \in Nat
      BY <3>1
    <3> QED
      BY <3>2, <3>3
  <2> DEFINE g == [i \in 0 .. m + 1 |-> IF i = m + 1 THEN v ELSE f[i]]
  <2>3. g \in [0 .. m + 1 -> Nat]
    <3>1. ASSUME NEW i \in 0 .. m + 1, i # m + 1 PROVE f[i] \in Nat
      <4>1. m \in Nat
        OBVIOUS
      <4>2. i \in 0 .. m
        BY <3>1, <4>1
      <4> QED
        BY <4>2
    <3> QED
      BY <3>1
  <2>4. Is(g, m + 1)
    <3>1. g[0] = 0
      BY <2>1
    <3>2. ASSUME NEW k \in 1 .. m + 1 PROVE g[k] = F[k][g[k - 1]]
      <4>1. CASE k = m + 1
        <5>1. k - 1 = m /\ m \in 0 .. m + 1 /\ m # m + 1
          BY <4>1
        <5>2. g[k] = v /\ g[k - 1] = f[m]
          BY <4>1, <5>1
        <5> QED
          BY <2>2, <4>1, <5>2
      <4>2. CASE k # m + 1
        <5>1. k \in 1 .. m /\ k - 1 \in 0 .. m + 1 /\ k - 1 # m + 1
          BY <4>2
        <5>2. g[k] = f[k] /\ g[k - 1] = f[k - 1]
          BY <4>2, <5>1
        <5> QED
          BY <2>1, <5>1, <5>2
      <4> QED
        BY <4>1, <4>2
    <3> QED
      BY <3>1, <3>2
  <2> HIDE DEF g, Is
  <2>5. \E h \in [0 .. m + 1 -> Nat] : Is(h, m + 1)
    BY <2>3, <2>4, Zenon
  <2>6. m + 1 \in Nat
    OBVIOUS
  <2> QED
    BY <2>5, <2>6
<1>3. T = Nat
  <2> HIDE DEF T
  <2>1. T \in SUBSET Nat
    BY DEF T
  <2> QED
    BY <1>1, <1>2, <2>1, Induction
<1> QED
  BY <1>3

Values(f, digits) ==
    f = [k \in 0 .. Len(digits) |->
            IF k = 0 THEN 0 ELSE (digits[Len(digits) + 1 - k] % Base) + Base * f[k - 1]]

\* The values FromDigits goes through.
LEMMA FromDigitsValue ==
    ASSUME NEW digits \in Seq(Nat)
    PROVE  \E f \in [0 .. Len(digits) -> Nat] :
              /\ f[0] = 0 /\ FromDigits(digits) = f[Len(digits)]
              /\ \A k \in 1 .. Len(digits) :
                    f[k] = (digits[Len(digits) + 1 - k] % Base) + Base * f[k - 1]
<1> DEFINE n == Len(digits)
           F == [k \in Nat |-> [v \in Nat |-> IF k \in 1 .. n THEN (digits[n + 1 - k] % Base) + Base * v
                                                            ELSE v]]
<1>1. n \in Nat /\ \A k \in 1 .. n : digits[n + 1 - k] \in Nat
  BY LenProperties, ElementOfSeq
<1>2. Base \in Nat
  BY FramingAssumption DEF FramingAssumption
<1>3. ASSUME NEW k \in 1 .. n, NEW v \in Nat PROVE (digits[n + 1 - k] % Base) + Base * v \in Nat
  <2>1. digits[n + 1 - k] % Base \in Nat
    BY <1>1, LastDigitOf
  <2> QED
    BY <1>2, <2>1
<1>4. F \in [Nat -> [Nat -> Nat]]
  BY <1>3
<1>5. \A k \in 1 .. n : \A v \in Nat : F[k][v] = (digits[n + 1 - k] % Base) + Base * v
  BY <1>1
<1> HIDE DEF F, n
<1>6. PICK f \in [0 .. n -> Nat] : f[0] = 0 /\ \A k \in 1 .. n : f[k] = F[k][f[k - 1]]
  BY <1>1, <1>4, NumbersByRecursion
<1>7. \A k \in 1 .. n : f[k] = (digits[n + 1 - k] % Base) + Base * f[k - 1]
  <2>1. \A k \in 1 .. n : k - 1 \in 0 .. n /\ f[k - 1] \in Nat
    BY <1>1, <1>6
  <2> QED
    BY <1>5, <1>6, <2>1
<1>8. f = [k \in 0 .. n |-> IF k = 0 THEN 0 ELSE (digits[n + 1 - k] % Base) + Base * f[k - 1]]
  <2>1. \A k \in 0 .. n : f[k] = IF k = 0 THEN 0 ELSE (digits[n + 1 - k] % Base) + Base * f[k - 1]
    BY <1>1, <1>6, <1>7
  <2> QED
    BY <1>6, <2>1
<1>9. Values(f, digits)
  BY <1>8 DEF Values, n
<1> DEFINE g == CHOOSE h : Values(h, digits)
<1>10. Values(g, digits)
  BY <1>9
<1>11. FromDigits(digits) = g[n]
  BY DEF FromDigits, Values, n
<1> HIDE DEF g
<1>12. \A k \in 0 .. n : g[k] = IF k = 0 THEN 0 ELSE (digits[n + 1 - k] % Base) + Base * g[k - 1]
  BY <1>10 DEF Values, n
<1> DEFINE T == {k \in Nat : k \in 0 .. n => g[k] = f[k]}
<1>13. T = Nat
  <2>1. 0 \in T
    BY <1>1, <1>6, <1>12
  <2>2. ASSUME NEW k \in T PROVE k + 1 \in T
    <3>1. SUFFICES ASSUME k + 1 \in 0 .. n PROVE g[k + 1] = f[k + 1]
      OBVIOUS
    <3>2. k + 1 \in 1 .. n /\ k + 1 # 0 /\ (k + 1) - 1 = k /\ k \in 0 .. n
      BY <1>1, <3>1
    <3>3. g[k + 1] = (digits[n + 1 - (k + 1)] % Base) + Base * g[(k + 1) - 1]
      BY <1>12, <3>1, <3>2
    <3>4. f[k + 1] = (digits[n + 1 - (k + 1)] % Base) + Base * f[(k + 1) - 1]
      BY <1>7, <3>2
    <3>5. g[k] = f[k]
      BY <3>2
    <3> QED
      BY <3>2, <3>3, <3>4, <3>5
  <2>3. T \in SUBSET Nat
    OBVIOUS
  <2> HIDE DEF T
  <2> QED
    BY <2>1, <2>2, <2>3, Induction
<1>14. g[n] = f[n]
  <2>1. n \in T
    BY <1>1, <1>13
  <2> QED
    BY <1>1, <2>1
<1> QED
  BY <1>6, <1>7, <1>11, <1>14 DEF n

\* The value of a sequence of digits is a number.
LEMMA FromDigitsTyped ==
    ASSUME NEW digits \in Seq(Nat)
    PROVE  FromDigits(digits) \in Nat
<1>1. PICK f \in [0 .. Len(digits) -> Nat] : FromDigits(digits) = f[Len(digits)]
  BY FromDigitsValue
<1>2. Len(digits) \in 0 .. Len(digits)
  BY LenProperties
<1> QED
  BY <1>1, <1>2

\* No digits make 0.
LEMMA FromNoDigits == FromDigits(<<>>) = 0
<1>1. <<>> \in Seq(Nat) /\ Len(<<>>) = 0
  BY EmptySeq
<1> QED
  BY <1>1, FromDigitsValue

\* The first digit is the lowest.
LEMMA FromDigitsFirst ==
    ASSUME NEW digits \in Seq(Nat), NEW d \in Nat
    PROVE  /\ <<d>> \o digits \in Seq(Nat)
           /\ FromDigits(<<d>> \o digits) = (d % Base) + Base * FromDigits(digits)
<1> DEFINE n == Len(digits)
<1>0. <<d>> \in Seq(Nat) /\ Len(<<d>>) = 1 /\ <<d>>[1] = d
  OBVIOUS
<1>1. PICK all \in Seq(Nat) : all = <<d>> \o digits
  BY <1>0, ConcatProperties
<1>2. n \in Nat /\ Len(all) = n + 1 /\ all[1] = d /\ \A i \in 1 .. n : all[i + 1] = digits[i]
  <2>1. n \in Nat
    BY LenProperties
  <2>2. /\ Len(<<d>> \o digits) = Len(<<d>>) + Len(digits)
        /\ \A i \in 1 .. Len(<<d>>) + Len(digits) :
              (<<d>> \o digits)[i] = IF i <= Len(<<d>>) THEN <<d>>[i] ELSE digits[i - Len(<<d>>)]
    BY <1>0, ConcatProperties
  <2>3. Len(all) = n + 1 /\ \A i \in 1 .. n + 1 : all[i] = IF i <= 1 THEN d ELSE digits[i - 1]
    BY <1>0, <1>1, <2>1, <2>2
  <2> HIDE DEF n
  <2>4. \A i \in 1 .. n : i + 1 \in 1 .. n + 1 /\ ~(i + 1 <= 1) /\ (i + 1) - 1 = i
    BY <2>1
  <2>5. 1 \in 1 .. n + 1
    BY <2>1
  <2>6. ASSUME NEW i \in 1 .. n PROVE all[i + 1] = digits[i]
    <3>1. all[i + 1] = IF i + 1 <= 1 THEN d ELSE digits[(i + 1) - 1]
      BY <2>3, <2>4
    <3> QED
      BY <2>4, <3>1
  <2>7. all[1] = d
    BY <2>3, <2>5
  <2> QED
    BY <2>1, <2>3, <2>6, <2>7
<1>3. PICK f \in [0 .. n + 1 -> Nat] :
         /\ f[0] = 0 /\ FromDigits(all) = f[n + 1]
         /\ \A k \in 1 .. n + 1 : f[k] = (all[n + 1 + 1 - k] % Base) + Base * f[k - 1]
  <2>1. PICK f \in [0 .. Len(all) -> Nat] :
           /\ f[0] = 0 /\ FromDigits(all) = f[Len(all)]
           /\ \A k \in 1 .. Len(all) : f[k] = (all[Len(all) + 1 - k] % Base) + Base * f[k - 1]
    BY FromDigitsValue
  <2> QED
    BY <1>2, <2>1
<1>4. PICK g \in [0 .. n -> Nat] :
         /\ g[0] = 0 /\ FromDigits(digits) = g[n]
         /\ \A k \in 1 .. n : g[k] = (digits[n + 1 - k] % Base) + Base * g[k - 1]
  BY FromDigitsValue
<1> HIDE DEF n
<1> DEFINE T == {k \in Nat : k \in 0 .. n => f[k] = g[k]}
<1>5. T = Nat
  <2>1. 0 \in T
    BY <1>3, <1>4
  <2>2. ASSUME NEW k \in T PROVE k + 1 \in T
    <3>1. SUFFICES ASSUME k + 1 \in 0 .. n PROVE f[k + 1] = g[k + 1]
      OBVIOUS
    <3>2. /\ k + 1 \in 1 .. n /\ k + 1 \in 1 .. n + 1 /\ (k + 1) - 1 = k /\ k \in 0 .. n
          /\ n + 1 - (k + 1) \in 1 .. n /\ n + 1 + 1 - (k + 1) = (n + 1 - (k + 1)) + 1
      BY <1>2, <3>1
    <3>3. all[n + 1 + 1 - (k + 1)] = digits[n + 1 - (k + 1)]
      BY <1>2, <3>2
    <3>4. f[k] = g[k]
      BY <3>2
    <3>5. f[k + 1] = (all[n + 1 + 1 - (k + 1)] % Base) + Base * f[(k + 1) - 1]
      BY <1>3, <3>2
    <3>6. g[k + 1] = (digits[n + 1 - (k + 1)] % Base) + Base * g[(k + 1) - 1]
      BY <1>4, <3>2
    <3> QED
      BY <3>2, <3>3, <3>4, <3>5, <3>6
  <2>3. T \in SUBSET Nat
    OBVIOUS
  <2> HIDE DEF T
  <2> QED
    BY <2>1, <2>2, <2>3, Induction
<1>6. f[n] = g[n]
  <2>1. n \in T
    BY <1>2, <1>5
  <2> QED
    BY <1>2, <2>1
<1>7. f[n + 1] = (all[n + 1 + 1 - (n + 1)] % Base) + Base * f[(n + 1) - 1]
  <2>1. n + 1 \in 1 .. n + 1
    BY <1>2
  <2> QED
    BY <1>3, <2>1
<1>8. n + 1 + 1 - (n + 1) = 1 /\ (n + 1) - 1 = n
  BY <1>2
<1> QED
  BY <1>1, <1>2, <1>3, <1>4, <1>6, <1>7, <1>8

IsDigits(f) == f = [k \in Nat |-> IF k < Base THEN <<k>> ELSE <<(k % Base) + Base>> \o f[k \div Base]]

\* Digits has the values its definition gives.
LEMMA DigitsValue ==
    ASSUME NEW k \in Nat
    PROVE  Digits[k] = IF k < Base THEN <<k>> ELSE <<(k % Base) + Base>> \o Digits[k \div Base]
<1> DEFINE R == Seq(Nat)
           M == [n \in Nat |-> n]
           F == [g \in [Nat -> R] |-> [n \in Nat |->
                   IF n < Base THEN <<n>> ELSE <<(n % Base) + Base>> \o g[n \div Base]]]
<1>1. Base \in Nat
  BY FramingAssumption DEF FramingAssumption
<1>2. ASSUME NEW n \in Nat
      PROVE  <<n>> \in R /\ <<(n % Base) + Base>> \in R /\ n \div Base \in Nat
  <2>1. n % Base \in Nat /\ n \div Base \in Nat
    BY LastDigitOf
  <2>2. (n % Base) + Base \in Nat
    BY <1>1, <2>1
  <2> QED
    BY <2>1, <2>2
<1>3. F \in [[Nat -> R] -> [Nat -> R]]
  <2>1. ASSUME NEW g \in [Nat -> R], NEW n \in Nat
        PROVE  (IF n < Base THEN <<n>> ELSE <<(n % Base) + Base>> \o g[n \div Base]) \in R
    <3>1. <<n>> \in R /\ <<(n % Base) + Base>> \in R /\ g[n \div Base] \in R
      BY <1>2
    <3>2. <<(n % Base) + Base>> \o g[n \div Base] \in R
      BY <3>1, ConcatProperties
    <3> QED
      BY <3>1, <3>2
  <2> HIDE DEF R
  <2> QED
    BY <2>1
<1>4. \A g, h \in [Nat -> R] : \A n \in Nat :
         (\A y \in Nat : M[y] < M[n] => g[y] = h[y]) => F[g][n] = F[h][n]
  <2> SUFFICES ASSUME NEW g \in [Nat -> R], NEW h \in [Nat -> R], NEW n \in Nat,
                      \A y \in Nat : M[y] < M[n] => g[y] = h[y]
               PROVE  F[g][n] = F[h][n]
    OBVIOUS
  <2>1. n >= Base => g[n \div Base] = h[n \div Base]
    BY LastDigitOf
  <2>2. n < Base \/ n >= Base
    BY <1>1
  <2> HIDE DEF R
  <2> QED
    BY <2>1, <2>2
<1>5. M \in [Nat -> Nat] /\ <<>> \in R
  BY EmptySeq
<1> HIDE DEF F, M
<1> HIDE DEF R
<1>6. Recursion(F, M, Nat, R)
  BY <1>3, <1>4, <1>5 DEF Recursion
<1>7. PICK f \in [Nat -> R] : f = F[f]
  BY <1>6, RecursiveFunction DEF Defines
<1>8. IsDigits(f)
  BY <1>7 DEF IsDigits, F
<1> DEFINE c == CHOOSE h : IsDigits(h)
<1>9. IsDigits(c)
  BY <1>8
<1>10. Digits = c
  BY DEF Digits, IsDigits
<1> HIDE DEF c
<1> QED
  BY <1>9, <1>10 DEF IsDigits

\* An element in front of a sequence.
LEMMA ElementInFront ==
    ASSUME NEW S, NEW e \in S, NEW s \in Seq(S)
    PROVE  /\ <<e>> \o s \in Seq(S) /\ Len(<<e>> \o s) = Len(s) + 1
           /\ (<<e>> \o s)[1] = e
           /\ \A i \in 1 .. Len(s) : (<<e>> \o s)[i + 1] = s[i]
<1>1. <<e>> \in Seq(S) /\ Len(<<e>>) = 1 /\ <<e>>[1] = e
  OBVIOUS
<1>2. PICK n \in Nat : n = Len(s)
  BY LenProperties
<1>3. /\ <<e>> \o s \in Seq(S) /\ Len(<<e>> \o s) = Len(<<e>>) + Len(s)
      /\ \A i \in 1 .. Len(<<e>>) + Len(s) :
            (<<e>> \o s)[i] = IF i <= Len(<<e>>) THEN <<e>>[i] ELSE s[i - Len(<<e>>)]
  BY <1>1, ConcatProperties
<1>4. PICK t : t = <<e>> \o s
  OBVIOUS
<1>5. t \in Seq(S) /\ Len(t) = n + 1 /\ \A i \in 1 .. n + 1 : t[i] = IF i <= 1 THEN e ELSE s[i - 1]
  BY <1>1, <1>2, <1>3, <1>4
<1>6. ASSUME NEW i \in 1 .. n PROVE t[i + 1] = s[i]
  <2>1. i + 1 \in 1 .. n + 1 /\ ~(i + 1 <= 1) /\ (i + 1) - 1 = i
    OBVIOUS
  <2> QED
    BY <1>5, <2>1
<1>7. t[1] = e
  <2>1. 1 \in 1 .. n + 1 /\ 1 <= 1
    OBVIOUS
  <2> QED
    BY <1>5, <2>1
<1> QED
  BY <1>2, <1>4, <1>5, <1>6, <1>7

\* The digits of k, each but the last marked as one that another follows.
Numeral(digits, k) ==
    /\ digits \in Seq(Nat) /\ Len(digits) >= 1
    /\ digits[Len(digits)] < Base
    /\ \A i \in 1 .. Len(digits) - 1 : digits[i] >= Base
    /\ FromDigits(digits) = k

\* What encodeValue writes of a number, decodeBytes reads as that number: at
\* least one digit, all but the last marked as having a successor.
THEOREM DigitsNumeral == \A k \in Nat : Numeral(Digits[k], k)
<1>1. Base \in Nat /\ Base >= 2
  BY FramingAssumption DEF FramingAssumption
<1>2. ASSUME NEW k \in Nat, k < Base PROVE Numeral(Digits[k], k)
  <2>1. Digits[k] = <<k>>
    BY <1>2, DigitsValue
  <2>2. <<k>> \in Seq(Nat) /\ Len(<<k>>) = 1 /\ <<k>>[1] = k
    OBVIOUS
  <2>3. <<>> \in Seq(Nat)
    BY EmptySeq
  <2>4. <<k>> \o <<>> = <<k>>
    BY <2>2, ConcatEmptySeq
  <2>5. FromDigits(<<k>>) = (k % Base) + Base * 0
    BY <2>3, <2>4, FromDigitsFirst, FromNoDigits
  <2>6. FromDigits(<<k>>) = k
    BY <1>1, <1>2, <2>5, LastDigitOf
  <2>7. \A i \in 1 .. 1 - 1 : <<k>>[i] >= Base
    OBVIOUS
  <2> QED
    BY <1>2, <2>1, <2>2, <2>6, <2>7 DEF Numeral
<1>3. ASSUME NEW k \in Nat, k >= Base, NEW q \in Nat, q = k \div Base, Numeral(Digits[q], q)
      PROVE  Numeral(Digits[k], k)
  <2>1. PICK d \in Nat : d = (k % Base) + Base
    BY <1>1, LastDigitOf
  <2>2. PICK t : t = Digits[q]
    OBVIOUS
  <2>3. /\ t \in Seq(Nat) /\ Len(t) >= 1 /\ t[Len(t)] < Base
        /\ \A i \in 1 .. Len(t) - 1 : t[i] >= Base
        /\ FromDigits(t) = q
    BY <1>3, <2>2 DEF Numeral
  <2>4. PICK n \in Nat : n = Len(t)
    BY <2>3, LenProperties
  <2>5. PICK u : u = <<d>> \o t
    OBVIOUS
  <2>6. u \in Seq(Nat) /\ Len(u) = n + 1 /\ u[1] = d /\ \A i \in 1 .. n : u[i + 1] = t[i]
    BY <2>3, <2>4, <2>5, ElementInFront
  <2>7. Digits[k] = u
    <3>1. ~(k < Base)
      BY <1>1, <1>3
    <3>2. Digits[k] = <<(k % Base) + Base>> \o Digits[k \div Base]
      BY <3>1, DigitsValue
    <3> QED
      BY <1>3, <2>1, <2>2, <2>5, <3>2
  <2>8. u[n + 1] < Base
    <3>1. n \in 1 .. n
      BY <2>3, <2>4
    <3> QED
      BY <2>3, <2>4, <2>6, <3>1
  <2>9. ASSUME NEW i \in 1 .. (n + 1) - 1 PROVE u[i] >= Base
    <3>1. CASE i = 1
      <4>1. d >= Base
        BY <1>1, <2>1, LastDigitOf
      <4> QED
        BY <2>6, <3>1, <4>1
    <3>2. CASE i # 1
      <4>1. i - 1 \in 1 .. n /\ i - 1 \in 1 .. n - 1 /\ (i - 1) + 1 = i
        BY <3>2
      <4>2. u[(i - 1) + 1] = t[i - 1]
        BY <2>6, <4>1
      <4>3. t[i - 1] >= Base
        BY <2>3, <2>4, <4>1
      <4> QED
        BY <4>1, <4>2, <4>3
    <3> QED
      BY <3>1, <3>2
  <2>10. FromDigits(u) = k
    <3>1. FromDigits(u) = (d % Base) + Base * q
      BY <2>3, <2>5, FromDigitsFirst
    <3>2. PICK r \in Nat : r = k % Base /\ r < Base /\ k = r + Base * q
      BY <1>3, LastDigitOf
    <3>3. d % Base = r
      BY <1>1, <2>1, <3>2, LastDigitOf
    <3> QED
      BY <3>1, <3>2, <3>3
  <2>11. Len(u) >= 1
    BY <2>6
  <2> QED
    BY <2>6, <2>7, <2>8, <2>9, <2>10, <2>11 DEF Numeral
<1> DEFINE T == {n \in Nat : \A k \in Nat : k <= n => Numeral(Digits[k], k)}
<1>4. T = Nat
  <2>1. 0 \in T
    <3>1. \A k \in Nat : k <= 0 => k < Base
      BY <1>1
    <3> QED
      BY <1>2, <3>1
  <2>2. ASSUME NEW n \in T PROVE n + 1 \in T
    <3>1. n \in Nat /\ n + 1 \in Nat /\ \A k \in Nat : k <= n => Numeral(Digits[k], k)
      OBVIOUS
    <3>2. ASSUME NEW k \in Nat, k <= n + 1 PROVE Numeral(Digits[k], k)
      <4>1. CASE k < Base
        BY <1>2, <4>1
      <4>2. CASE k >= Base
        <5>1. PICK q \in Nat : q = k \div Base /\ q < k
          BY <4>2, LastDigitOf
        <5>2. q <= n
          BY <3>1, <3>2, <5>1
        <5>3. Numeral(Digits[q], q)
          BY <3>1, <5>2
        <5> QED
          BY <1>3, <4>2, <5>1, <5>3
      <4> QED
        BY <1>1, <4>1, <4>2
    <3> QED
      BY <3>1, <3>2
  <2>3. T \in SUBSET Nat
    OBVIOUS
  <2> HIDE DEF T
  <2> QED
    BY <2>1, <2>2, <2>3, Induction
<1> QED
  <2> SUFFICES ASSUME NEW k \in Nat PROVE Numeral(Digits[k], k)
    OBVIOUS
  <2>1. k \in T
    BY <1>4
  <2> QED
    BY <2>1

-----------------------------------------------------------------------------
(* The length in the header of a packet.                                    *)

\* A length that ends within the buffer.
LEMMA LengthFound ==
    ASSUME NEW buffer \in Seq(Byte), NEW i \in 1 .. Len(buffer), NEW last \in LastDigit(buffer, i)
    PROVE  /\ last \in i .. Len(buffer)
           /\ [k \in 1 .. last - i + 1 |-> buffer[i + k - 1].value] \in Seq(Nat)
           /\ RemainingLength(buffer, i) =
                 [value |-> FromDigits([k \in 1 .. last - i + 1 |-> buffer[i + k - 1].value]),
                  size |-> last - i + 1]
<1>1. PICK n \in Nat : n = Len(buffer)
  BY LenProperties
<1>2. \A j \in 1 .. n : buffer[j].value \in Nat
  <2>1. \A j \in 1 .. n : buffer[j] \in Byte
    BY <1>1, ElementOfSeq
  <2> QED
    BY <2>1 DEF Byte
<1>3. i \in Nat /\ i >= 1 /\ Base \in Nat
  BY <1>1, FramingAssumption DEF FramingAssumption
<1>4. \A j \in LastDigit(buffer, i) : /\ j \in i .. n /\ buffer[j].value < Base
                                      /\ \A k \in i .. j - 1 : buffer[k].value >= Base
  BY <1>1 DEF LastDigit
<1>5. ASSUME NEW j \in LastDigit(buffer, i) PROVE j = last
  <2>1. /\ j \in i .. n /\ buffer[j].value < Base /\ \A k \in i .. j - 1 : buffer[k].value >= Base
        /\ last \in i .. n /\ buffer[last].value < Base
        /\ \A k \in i .. last - 1 : buffer[k].value >= Base
    BY <1>4
  <2>2. j \in 1 .. n /\ last \in 1 .. n
    BY <1>1, <1>3, <2>1
  <2>3. CASE j < last
    <3>1. j \in i .. last - 1
      BY <1>1, <1>3, <2>1, <2>3
    <3> QED
      BY <1>2, <1>3, <2>1, <2>2, <3>1
  <2>4. CASE last < j
    <3>1. last \in i .. j - 1
      BY <1>1, <1>3, <2>1, <2>4
    <3> QED
      BY <1>2, <1>3, <2>1, <2>2, <3>1
  <2> QED
    BY <1>1, <1>3, <2>1, <2>3, <2>4
<1>6. (CHOOSE j \in LastDigit(buffer, i) : TRUE) = last
  BY <1>5
<1>7. last \in i .. n
  BY <1>4
<1>8. PICK size \in Nat : size = last - i + 1
  BY <1>1, <1>3, <1>7
<1> DEFINE digits == [k \in 1 .. size |-> buffer[i + k - 1].value]
<1>9. digits \in Seq(Nat) /\ Len(digits) = size
  <2>1. ASSUME NEW k \in 1 .. size PROVE buffer[i + k - 1].value \in Nat
    <3>1. i + k - 1 \in 1 .. n
      BY <1>1, <1>3, <1>7, <1>8
    <3> QED
      BY <1>2, <3>1
  <2>2. digits \in [1 .. size -> Nat]
    BY <2>1
  <2> HIDE DEF digits
  <2>3. digits \in Seq(Nat)
    BY <2>2
  <2> QED
    BY <2>2, <2>3, LenProperties
<1>10. RemainingLength(buffer, i) = [value |-> FromDigits(digits), size |-> Len(digits)]
  <2>1. ~(i > Len(buffer)) /\ LastDigit(buffer, i) # {}
    BY <1>1, <1>3
  <2> QED
    BY <1>6, <1>8, <2>1 DEF RemainingLength
<1>11. digits = [k \in 1 .. last - i + 1 |-> buffer[i + k - 1].value]
  BY <1>8
<1> HIDE DEF digits
<1> QED
  BY <1>1, <1>7, <1>8, <1>9, <1>10, <1>11

\* The number of bytes a header stands for.
LEMMA LengthTyped ==
    ASSUME NEW buffer \in Seq(Byte), NEW i \in Nat \ {0}
    PROVE  /\ RemainingLength(buffer, i) \in [value : Nat, size : Nat \ {0}]
           /\ PacketSize(RemainingLength(buffer, i)) \in Nat
           /\ PacketSize(RemainingLength(buffer, i)) >= 1 + RemainingLength(buffer, i).size
           /\ PacketSize(RemainingLength(buffer, i)) >= 2
<1>1. PICK n \in Nat : n = Len(buffer)
  BY LenProperties
<1>2. RemainingLength(buffer, i) \in [value : Nat, size : Nat \ {0}]
  <2>1. CASE i > n
    BY <1>1, <2>1 DEF RemainingLength
  <2>2. CASE i <= n /\ LastDigit(buffer, i) = {}
    BY <1>1, <2>2 DEF RemainingLength
  <2>3. CASE i <= n /\ LastDigit(buffer, i) # {}
    <3>1. PICK last \in LastDigit(buffer, i) : TRUE
      BY <2>3
    <3>2. i \in 1 .. Len(buffer)
      BY <1>1, <2>3
    <3>3. PICK digits : digits = [k \in 1 .. last - i + 1 |-> buffer[i + k - 1].value]
      OBVIOUS
    <3>4. /\ last \in i .. n /\ digits \in Seq(Nat)
          /\ RemainingLength(buffer, i) = [value |-> FromDigits(digits), size |-> last - i + 1]
      BY <1>1, <3>2, <3>3, LengthFound
    <3>5. FromDigits(digits) \in Nat
      BY <3>4, FromDigitsTyped
    <3>6. last - i + 1 \in Nat \ {0}
      BY <1>1, <3>4
    <3> QED
      BY <3>4, <3>5, <3>6
  <2> QED
    BY <1>1, <2>1, <2>2, <2>3
<1>3. PICK length \in [value : Nat, size : Nat \ {0}] : length = RemainingLength(buffer, i)
  BY <1>2
<1>4. PacketSize(length) = length.value + 1 + length.size
  BY DEF PacketSize
<1> QED
  BY <1>3, <1>4

\* From i on b holds a length whose last digit is n bytes further, and c holds
\* the same bytes from j on.
Alike(b, i, c, j, n) ==
    /\ b \in Seq(Byte) /\ c \in Seq(Byte)
    /\ i \in 1 .. Len(b) /\ j \in 1 .. Len(c) /\ n \in Nat
    /\ i + n \in LastDigit(b, i) /\ j + n <= Len(c)
    /\ \A k \in 0 .. n : b[i + k] = c[j + k]

\* Lengths with the same bytes are equal.
LEMMA SameLength ==
    ASSUME NEW b, NEW i, NEW c, NEW j, NEW n, Alike(b, i, c, j, n)
    PROVE  RemainingLength(b, i) = RemainingLength(c, j)
<1> USE DEF Alike
<1>1. PICK lb \in Nat, lc \in Nat : lb = Len(b) /\ lc = Len(c)
  BY LenProperties
<1>2. i \in Nat /\ i >= 1 /\ i <= lb /\ j \in Nat /\ j >= 1 /\ j <= lc
  BY <1>1
<1>3. b[i + n].value < Base /\ \A k \in i .. (i + n) - 1 : b[k].value >= Base
  BY DEF LastDigit
<1>4. j + n \in LastDigit(c, j)
  <2>1. j + n \in j .. lc
    BY <1>1, <1>2
  <2>2. c[j + n].value < Base
    BY <1>3
  <2>3. ASSUME NEW k \in j .. (j + n) - 1 PROVE c[k].value >= Base
    <3>1. PICK m \in Nat : m = k - j
      BY <1>2
    <3>2. m \in 0 .. n /\ j + m = k /\ i + m \in i .. (i + n) - 1
      BY <1>2, <3>1
    <3>3. b[i + m] = c[k]
      BY <3>2
    <3> QED
      BY <1>3, <3>2, <3>3
  <2> QED
    BY <1>1, <2>1, <2>2, <2>3 DEF LastDigit
<1>5. (i + n) - i + 1 = n + 1 /\ (j + n) - j + 1 = n + 1
  BY <1>2
<1> DEFINE d == [k \in 1 .. n + 1 |-> b[i + k - 1].value]
           e == [k \in 1 .. n + 1 |-> c[j + k - 1].value]
<1>6. d = e
  <2>1. ASSUME NEW k \in 1 .. n + 1 PROVE b[i + k - 1] = c[j + k - 1]
    <3>1. PICK m \in Nat : m = k - 1
      OBVIOUS
    <3>2. m \in 0 .. n /\ i + k - 1 = i + m /\ j + k - 1 = j + m
      BY <1>2, <3>1
    <3> QED
      BY <3>2
  <2> QED
    BY <2>1
<1>7. RemainingLength(b, i) = [value |-> FromDigits(d), size |-> n + 1]
  <2>1. PICK last : last = i + n
    OBVIOUS
  <2>2. RemainingLength(b, i) =
           [value |-> FromDigits([k \in 1 .. last - i + 1 |-> b[i + k - 1].value]),
            size |-> last - i + 1]
    BY <2>1, LengthFound
  <2> QED
    BY <1>5, <2>1, <2>2
<1>8. RemainingLength(c, j) = [value |-> FromDigits(e), size |-> n + 1]
  <2>1. PICK last : last = j + n
    OBVIOUS
  <2>2. RemainingLength(c, j) =
           [value |-> FromDigits([k \in 1 .. last - j + 1 |-> c[j + k - 1].value]),
            size |-> last - j + 1]
    BY <1>4, <2>1, LengthFound
  <2> QED
    BY <1>5, <2>1, <2>2
<1> HIDE DEF d, e
<1> QED
  BY <1>4, <1>6, <1>7, <1>8

\* The bytes from some position on.
Rest(buffer, start) == SubSeq(buffer, start, Len(buffer))

LEMMA RestOf ==
    ASSUME NEW buffer \in Seq(Byte), NEW start \in 1 .. Len(buffer) + 1
    PROVE  /\ Rest(buffer, start) \in Seq(Byte)
           /\ Len(Rest(buffer, start)) = Len(buffer) + 1 - start
           /\ \A i \in 1 .. Len(buffer) + 1 - start : Rest(buffer, start)[i] = buffer[start + i - 1]
<1>1. PICK n \in Nat : n = Len(buffer)
  BY LenProperties
<1>2. start \in Int /\ n \in Int /\ start >= 1 /\ start <= n + 1
  BY <1>1
<1>3. \A i \in start .. n : buffer[i] \in Byte
  BY <1>1, <1>2, ElementOfSeq
<1>4. PICK s : s = SubSeq(buffer, start, n)
  OBVIOUS
<1>5. /\ s \in Seq(Byte) /\ Len(s) = IF start <= n THEN n - start + 1 ELSE 0
      /\ \A i \in 1 .. n - start + 1 : s[i] = buffer[start + i - 1]
  BY <1>2, <1>3, <1>4, SubSeqProperties
<1>6. n - start + 1 = n + 1 - start /\ (~(start <= n) => n + 1 - start = 0)
  BY <1>2
<1> QED
  BY <1>1, <1>4, <1>5, <1>6 DEF Rest

\* The length of a packet is the same whatever comes before it.
LEMMA RestLength ==
    ASSUME NEW buffer \in Seq(Byte), NEW start \in 1 .. Len(buffer)
    PROVE  RemainingLength(Rest(buffer, start), 2) = RemainingLength(buffer, start + 1)
<1>1. PICK n \in Nat : n = Len(buffer)
  BY LenProperties
<1>2. start \in 1 .. n + 1 /\ start \in Nat /\ start >= 1 /\ start <= n
  BY <1>1
<1>3. PICK s : s = Rest(buffer, start)
  OBVIOUS
<1>4. /\ s \in Seq(Byte) /\ Len(s) = n + 1 - start
      /\ \A i \in 1 .. n + 1 - start : s[i] = buffer[start + i - 1]
  BY <1>1, <1>2, <1>3, RestOf
<1>5. CASE start = n
  <2>1. 2 > Len(s) /\ start + 1 > Len(buffer)
    BY <1>1, <1>2, <1>4, <1>5
  <2> QED
    BY <1>3, <2>1 DEF RemainingLength
<1>6. CASE start < n
  <2>1. 2 \in 1 .. Len(s) /\ start + 1 \in 1 .. Len(buffer)
    BY <1>1, <1>2, <1>4, <1>6
  <2>2. CASE LastDigit(s, 2) # {}
    <3>1. PICK last \in LastDigit(s, 2) : TRUE
      BY <2>2
    <3>2. last \in 2 .. n + 1 - start
      BY <1>4, <2>1, <3>1, LengthFound
    <3>3. PICK m \in Nat : m = last - 2
      BY <1>2, <3>2
    <3>4. 2 + m \in LastDigit(s, 2) /\ (start + 1) + m <= Len(buffer)
      BY <1>1, <1>2, <3>1, <3>2, <3>3
    <3>5. ASSUME NEW k \in 0 .. m PROVE s[2 + k] = buffer[(start + 1) + k]
      <4>1. 2 + k \in 1 .. n + 1 - start /\ start + (2 + k) - 1 = (start + 1) + k
        BY <1>2, <3>2, <3>3
      <4>2. s[2 + k] = buffer[start + (2 + k) - 1]
        BY <1>4, <4>1
      <4> QED
        BY <4>1, <4>2
    <3> QED
      <4>1. Alike(s, 2, buffer, start + 1, m)
        BY <1>4, <2>1, <3>4, <3>5 DEF Alike
      <4> QED
        BY <1>3, <4>1, SameLength
  <2>3. CASE LastDigit(buffer, start + 1) # {}
    <3>1. PICK last \in LastDigit(buffer, start + 1) : TRUE
      BY <2>3
    <3>2. last \in start + 1 .. n
      BY <1>1, <2>1, <3>1, LengthFound
    <3>3. PICK m \in Nat : m = last - (start + 1)
      BY <1>2, <3>2
    <3>4. (start + 1) + m \in LastDigit(buffer, start + 1) /\ 2 + m <= Len(s)
      BY <1>2, <1>4, <3>1, <3>2, <3>3
    <3>5. ASSUME NEW k \in 0 .. m PROVE buffer[(start + 1) + k] = s[2 + k]
      <4>1. 2 + k \in 1 .. n + 1 - start /\ start + (2 + k) - 1 = (start + 1) + k
        BY <1>2, <3>2, <3>3
      <4>2. s[2 + k] = buffer[start + (2 + k) - 1]
        BY <1>4, <4>1
      <4> QED
        BY <4>1, <4>2
    <3>6. RemainingLength(buffer, start + 1) = RemainingLength(s, 2)
      <4>1. Alike(buffer, start + 1, s, 2, m)
        BY <1>4, <2>1, <3>4, <3>5 DEF Alike
      <4> QED
        BY <4>1, SameLength
    <3> QED
      BY <1>3, <3>6
  <2>4. CASE LastDigit(s, 2) = {} /\ LastDigit(buffer, start + 1) = {}
    <3>1. ~(2 > Len(s)) /\ ~(start + 1 > Len(buffer))
      BY <1>1, <1>2, <1>4, <1>6
    <3>2. Len(s) - 2 + 2 = Len(buffer) - (start + 1) + 2
      BY <1>1, <1>2, <1>4
    <3> QED
      BY <1>3, <2>4, <3>1, <3>2 DEF RemainingLength
  <2> QED
    BY <2>2, <2>3, <2>4
<1> QED
  BY <1>2, <1>5, <1>6

\* A part of the bytes from some position on.
LEMMA SubSeqTwice ==
    ASSUME NEW buffer \in Seq(Byte), NEW s \in Seq(Byte), NEW start \in 1 .. Len(buffer),
           NEW n \in 0 .. Len(s),
           Len(s) = Len(buffer) + 1 - start, \A i \in 1 .. Len(s) : s[i] = buffer[start + i - 1]
    PROVE  /\ SubSeq(buffer, start, (start + n) - 1) = SubSeq(s, 1, n)
           /\ SubSeq(buffer, start + n, Len(buffer)) = SubSeq(s, n + 1, Len(s))
<1>1. PICK len \in Nat, m \in Nat : len = Len(buffer) /\ m = Len(s)
  BY LenProperties
<1>2. /\ start \in Int /\ n \in Int /\ start >= 1 /\ start <= len /\ n >= 0 /\ n <= m
      /\ m = len + 1 - start
  BY <1>1
<1>3. (\A i \in 1 .. len : buffer[i] \in Byte) /\ (\A i \in 1 .. m : s[i] \in Byte)
  BY <1>1, ElementOfSeq
<1>4. PICK a : a = SubSeq(buffer, start, (start + n) - 1)
  OBVIOUS
<1>5. PICK b : b = SubSeq(s, 1, n)
  OBVIOUS
<1>6. a \in Seq(Byte) /\ Len(a) = n /\ \A i \in 1 .. n : a[i] = buffer[start + i - 1]
  <2>1. PICK e \in Int : e = (start + n) - 1
    BY <1>2
  <2>2. \A i \in start .. e : buffer[i] \in Byte
    BY <1>2, <1>3, <2>1
  <2>3. /\ a \in Seq(Byte) /\ Len(a) = IF start <= e THEN e - start + 1 ELSE 0
        /\ \A i \in 1 .. e - start + 1 : a[i] = buffer[start + i - 1]
    <3>1. a = SubSeq(buffer, start, e) /\ start \in Int
      BY <1>2, <1>4, <2>1
    <3> QED
      BY <2>2, <3>1, SubSeqProperties
  <2>4. e - start + 1 = n /\ (~(start <= e) => n = 0)
    BY <1>2, <2>1
  <2> QED
    BY <2>3, <2>4
<1>7. b \in Seq(Byte) /\ Len(b) = n /\ \A i \in 1 .. n : b[i] = s[i]
  <2>1. PICK one \in Int : one = 1
    OBVIOUS
  <2>2. \A i \in one .. n : s[i] \in Byte
    BY <1>2, <1>3, <2>1
  <2>3. /\ b \in Seq(Byte) /\ Len(b) = IF one <= n THEN n - one + 1 ELSE 0
        /\ \A i \in 1 .. n - one + 1 : b[i] = s[one + i - 1]
    BY <1>2, <1>5, <2>1, <2>2, SubSeqProperties
  <2>4. n - one + 1 = n /\ (~(one <= n) => n = 0) /\ \A i \in 1 .. n : one + i - 1 = i
    BY <1>2, <2>1
  <2> QED
    BY <2>3, <2>4
<1>8. a = b
  <2>1. ASSUME NEW i \in 1 .. n PROVE a[i] = b[i]
    <3>1. i \in 1 .. Len(s)
      BY <1>1, <1>2
    <3>2. s[i] = buffer[start + i - 1]
      BY <3>1
    <3> QED
      BY <1>6, <1>7, <3>2
  <2> QED
    BY <1>6, <1>7, <2>1, SeqEqual
<1>9. PICK c : c = SubSeq(buffer, start + n, len)
  OBVIOUS
<1>10. PICK d : d = SubSeq(s, n + 1, m)
  OBVIOUS
<1>11. c \in Seq(Byte) /\ Len(c) = m - n /\ \A i \in 1 .. m - n : c[i] = buffer[start + n + i - 1]
  <2>1. PICK e \in Int : e = start + n
    BY <1>2
  <2>2. \A i \in e .. len : buffer[i] \in Byte
    BY <1>2, <1>3, <2>1
  <2>3. /\ c \in Seq(Byte) /\ Len(c) = IF e <= len THEN len - e + 1 ELSE 0
        /\ \A i \in 1 .. len - e + 1 : c[i] = buffer[e + i - 1]
    BY <1>2, <1>9, <2>1, <2>2, SubSeqProperties
  <2>4. len - e + 1 = m - n /\ (~(e <= len) => m - n = 0)
    BY <1>2, <2>1
  <2> QED
    BY <2>1, <2>3, <2>4
<1>12. d \in Seq(Byte) /\ Len(d) = m - n /\ \A i \in 1 .. m - n : d[i] = s[n + i]
  <2>1. PICK e \in Int : e = n + 1
    BY <1>2
  <2>2. \A i \in e .. m : s[i] \in Byte
    BY <1>2, <1>3, <2>1
  <2>3. /\ d \in Seq(Byte) /\ Len(d) = IF e <= m THEN m - e + 1 ELSE 0
        /\ \A i \in 1 .. m - e + 1 : d[i] = s[e + i - 1]
    BY <1>2, <1>10, <2>1, <2>2, SubSeqProperties
  <2>4. m - e + 1 = m - n /\ (~(e <= m) => m - n = 0) /\ \A i \in 1 .. m - n : e + i - 1 = n + i
    BY <1>2, <2>1
  <2> QED
    BY <2>3, <2>4
<1>13. c = d
  <2>1. ASSUME NEW i \in 1 .. m - n PROVE c[i] = d[i]
    <3>1. n + i \in 1 .. m /\ start + (n + i) - 1 = start + n + i - 1
      BY <1>2
    <3>2. s[n + i] = buffer[start + (n + i) - 1]
      BY <1>1, <3>1
    <3> QED
      BY <1>11, <1>12, <3>1, <3>2
  <2> QED
    BY <1>11, <1>12, <2>1, SeqEqual
<1> QED
  BY <1>1, <1>4, <1>5, <1>8, <1>9, <1>10, <1>13

\* A packet whose length is that of its header, and one of the broker.
Framed == {p \in Seq(Byte) : Len(p) = PacketSize(RemainingLength(p, 2))}
Whole == {p \in Framed : LastDigit(p, 2) # {} /\ p[1].at = 1}

\* A header that does not reach beyond the buffer ends in it.
LEMMA HeaderEnds ==
    ASSUME NEW s \in Seq(Byte), PacketSize(RemainingLength(s, 2)) <= Len(s)
    PROVE  /\ 2 \in 1 .. Len(s)
           /\ \E last \in LastDigit(s, 2) : last <= PacketSize(RemainingLength(s, 2))
<1>1. PICK n \in Nat : n = Len(s)
  BY LenProperties
<1>2. PICK length \in [value : Nat, size : Nat \ {0}] : length = RemainingLength(s, 2)
  BY LengthTyped
<1>3. PacketSize(length) = length.value + 1 + length.size
  BY DEF PacketSize
<1>4. 2 <= n
  BY <1>1, <1>2, <1>3
<1>5. LastDigit(s, 2) # {}
  <2> SUFFICES ASSUME LastDigit(s, 2) = {} PROVE FALSE
    OBVIOUS
  <2>1. length = [value |-> 0, size |-> n - 2 + 2]
    BY <1>1, <1>2, <1>4 DEF RemainingLength
  <2>2. length.value = 0 /\ length.size = n
    BY <2>1
  <2> QED
    BY <1>1, <1>2, <1>3, <2>2
<1>6. PICK last \in LastDigit(s, 2) : TRUE
  BY <1>5
<1>7. 2 \in 1 .. Len(s)
  BY <1>1, <1>4
<1>8. last \in 2 .. n /\ length.size = last - 2 + 1
  <2>1. PICK v : /\ last \in 2 .. Len(s)
                 /\ RemainingLength(s, 2) = [value |-> v, size |-> last - 2 + 1]
    BY <1>7, LengthFound
  <2> QED
    BY <1>1, <1>2, <2>1
<1>9. last <= PacketSize(length)
  BY <1>1, <1>2, <1>3, <1>8
<1> QED
  BY <1>2, <1>6, <1>7, <1>9

\* Two buffers that begin alike have the same length when that of one is there.
LEMMA LikeLength ==
    ASSUME NEW s \in Seq(Byte), NEW p \in Seq(Byte), NEW last \in LastDigit(s, 2),
           2 <= Len(s), last <= Len(p), \A i \in 2 .. last : s[i] = p[i]
    PROVE  RemainingLength(s, 2) = RemainingLength(p, 2)
<1>1. PICK n \in Nat, m \in Nat : n = Len(s) /\ m = Len(p)
  BY LenProperties
<1>2. 2 \in 1 .. Len(s)
  BY <1>1
<1>3. last \in 2 .. n
  BY <1>1, <1>2, LengthFound
<1>4. 2 \in 1 .. Len(p)
  BY <1>1, <1>3
<1>5. PICK d \in Nat : d = last - 2
  BY <1>3
<1>6. 2 + d = last
  BY <1>3, <1>5
<1>7. \A k \in 0 .. d : s[2 + k] = p[2 + k]
  BY <1>3, <1>5
<1>8. 2 + d \in LastDigit(s, 2) /\ 2 + d <= Len(p)
  BY <1>6
<1> QED
  <2>1. Alike(s, 2, p, 2, d)
    BY <1>2, <1>4, <1>7, <1>8 DEF Alike
  <2> QED
    BY <2>1, SameLength

\* A buffer that holds all the bytes its header promises begins with a packet.
LEMMA PacketFirst ==
    ASSUME NEW s \in Seq(Byte), NEW n, n = PacketSize(RemainingLength(s, 2)), n <= Len(s)
    PROVE  /\ n \in 2 .. Len(s)
           /\ SubSeq(s, 1, n) \in Framed
           /\ SubSeq(s, n + 1, Len(s)) \in Seq(Byte)
           /\ s = SubSeq(s, 1, n) \o SubSeq(s, n + 1, Len(s))
<1>1. PICK m \in Nat : m = Len(s)
  BY LenProperties
<1>2. n \in Nat /\ n >= 2
  BY LengthTyped
<1>3. n \in 2 .. m
  BY <1>1, <1>2
<1>4. PICK p : p = SubSeq(s, 1, n)
  OBVIOUS
<1>5. p \in Seq(Byte) /\ Len(p) = n /\ \A i \in 1 .. n : p[i] = s[i]
  <2>1. \A i \in 1 .. n : s[i] \in Byte
    BY <1>1, <1>3, ElementOfSeq
  <2>2. /\ SubSeq(s, 1, n) \in Seq(Byte) /\ Len(SubSeq(s, 1, n)) = IF 1 <= n THEN n - 1 + 1 ELSE 0
        /\ \A i \in 1 .. n - 1 + 1 : SubSeq(s, 1, n)[i] = s[1 + i - 1]
    BY <1>2, <2>1, SubSeqProperties
  <2>3. 1 <= n /\ n - 1 + 1 = n /\ \A i \in 1 .. n : 1 + i - 1 = i
    BY <1>2
  <2> QED
    BY <1>4, <2>2, <2>3
<1>6. PICK last \in LastDigit(s, 2) : last <= n
  BY HeaderEnds
<1>7. last \in 2 .. m
  <2>1. 2 \in 1 .. Len(s)
    BY <1>1, <1>3
  <2>2. last \in 2 .. Len(s)
    BY <1>6, <2>1, LengthFound
  <2> QED
    BY <1>1, <2>2
<1>8. RemainingLength(s, 2) = RemainingLength(p, 2)
  <2>1. 2 <= Len(s) /\ last <= Len(p) /\ \A i \in 2 .. last : s[i] = p[i]
    BY <1>1, <1>3, <1>5, <1>6, <1>7
  <2> QED
    BY <1>5, <1>6, <2>1, LikeLength
<1>9. p \in Framed
  BY <1>5, <1>8 DEF Framed
<1>10. SubSeq(s, n + 1, Len(s)) \in Seq(Byte)
  <2>1. n + 1 \in 1 .. Len(s) + 1
    BY <1>1, <1>3
  <2> QED
    BY <2>1, RestOf DEF Rest
<1>11. s = SubSeq(s, 1, n) \o SubSeq(s, n + 1, Len(s))
  <2>1. 1 \in 1 .. Len(s) + 1 /\ n \in 1 - 1 .. Len(s) /\ Len(s) \in n .. Len(s)
    BY <1>1, <1>3
  <2>2. SubSeq(s, 1, n) \o SubSeq(s, n + 1, Len(s)) = SubSeq(s, 1, Len(s))
    BY <2>1, ConcatAdjacentSubSeq
  <2> QED
    BY <2>2, SubSeqFull
<1> QED
  BY <1>1, <1>3, <1>4, <1>9, <1>10, <1>11

\* A buffer that begins with a whole packet is as long as its header says; one that
\* holds a part of it only is too short.
LEMMA WholeFirst ==
    ASSUME NEW s \in Seq(Byte), NEW p \in Whole, Len(p) <= Len(s),
           \A i \in 1 .. Len(p) : s[i] = p[i]
    PROVE  PacketSize(RemainingLength(s, 2)) = Len(p)
<1>1. p \in Seq(Byte) /\ Len(p) = PacketSize(RemainingLength(p, 2)) /\ LastDigit(p, 2) # {}
  BY DEF Whole, Framed
<1>2. PICK n \in Nat, m \in Nat : n = Len(p) /\ m = Len(s)
  BY <1>1, LenProperties
<1>3. 2 \in 1 .. Len(p) /\ n >= 2
  BY <1>1, <1>2, HeaderEnds
<1>4. PICK last \in LastDigit(p, 2) : TRUE
  BY <1>1
<1>5. last \in 2 .. n
  BY <1>1, <1>2, <1>3, <1>4, LengthFound
<1>6. RemainingLength(p, 2) = RemainingLength(s, 2)
  <2>1. 2 <= Len(p) /\ last <= Len(s) /\ \A i \in 2 .. last : p[i] = s[i]
    BY <1>2, <1>3, <1>5
  <2> QED
    BY <1>1, <2>1, LikeLength
<1> QED
  BY <1>1, <1>6

LEMMA PartFirst ==
    ASSUME NEW s \in Seq(Byte), NEW p \in Whole, Len(s) < Len(p),
           \A i \in 1 .. Len(s) : s[i] = p[i]
    PROVE  Len(s) < PacketSize(RemainingLength(s, 2))
<1>1. p \in Seq(Byte) /\ Len(p) = PacketSize(RemainingLength(p, 2))
  BY DEF Whole, Framed
<1>2. PICK n \in Nat, m \in Nat : n = Len(p) /\ m = Len(s)
  BY <1>1, LenProperties
<1>3. PICK size \in Nat : size = PacketSize(RemainingLength(s, 2))
  BY LengthTyped
<1> SUFFICES ASSUME size <= m PROVE FALSE
  BY <1>2, <1>3
<1>4. 2 \in 1 .. Len(s) /\ \E last \in LastDigit(s, 2) : last <= size
  BY <1>2, <1>3, HeaderEnds
<1>5. PICK last \in LastDigit(s, 2) : last <= size
  BY <1>4
<1>6. last \in 2 .. m
  BY <1>2, <1>4, <1>5, LengthFound
<1>7. RemainingLength(s, 2) = RemainingLength(p, 2)
  <2>1. 2 <= Len(s) /\ last <= Len(p) /\ \A i \in 2 .. last : s[i] = p[i]
    BY <1>2, <1>4, <1>6
  <2> QED
    BY <1>1, <2>1, LikeLength
<1> QED
  BY <1>1, <1>2, <1>3, <1>7

\* What the broker sends is a whole packet.
LEMMA PacketWhole ==
    ASSUME NEW n \in Nat, NEW body \in Nat
    PROVE  /\ Packet(n, body) \in Whole
           /\ \A i \in 1 .. Len(Packet(n, body)) : Packet(n, body)[i].packet = n
<1>1. PICK digits : digits = Digits[body]
  OBVIOUS
<1>2. /\ digits \in Seq(Nat) /\ Len(digits) >= 1
      /\ digits[Len(digits)] < Base
      /\ \A i \in 1 .. Len(digits) - 1 : digits[i] >= Base
      /\ FromDigits(digits) = body
  BY <1>1, DigitsNumeral DEF Numeral
<1>3. PICK k \in Nat : k = Len(digits)
  BY <1>2, LenProperties
<1>4. Base \in Nat /\ TypeByte \in Nat /\ BodyByte \in Nat
  BY FramingAssumption DEF FramingAssumption, TypeByte, BodyByte
<1>5. PICK t : t = <<TypeByte>> \o digits
  OBVIOUS
<1>6. t \in Seq(Nat) /\ Len(t) = k + 1 /\ \A i \in 1 .. k : t[i + 1] = digits[i]
  BY <1>2, <1>3, <1>4, <1>5, ElementInFront
<1>7. PICK b : b = [i \in 1 .. body |-> BodyByte]
  OBVIOUS
<1>8. b \in Seq(Nat) /\ Len(b) = body
  <2>1. b \in [1 .. body -> Nat]
    BY <1>4, <1>7
  <2>2. b \in Seq(Nat)
    BY <2>1
  <2> QED
    BY <2>1, <2>2, LenProperties
<1>9. PICK values : values = t \o b
  OBVIOUS
<1>10. values \in Seq(Nat) /\ Len(values) = k + 1 + body /\ \A i \in 1 .. k : values[i + 1] = digits[i]
  <2>1. /\ values \in Seq(Nat) /\ Len(values) = Len(t) + Len(b)
        /\ \A i \in 1 .. Len(t) + Len(b) : values[i] = IF i <= Len(t) THEN t[i] ELSE b[i - Len(t)]
    BY <1>6, <1>8, <1>9, ConcatProperties
  <2>2. ASSUME NEW i \in 1 .. k PROVE values[i + 1] = digits[i]
    <3>1. i + 1 \in 1 .. Len(t) + Len(b) /\ i + 1 <= Len(t)
      BY <1>6, <1>8
    <3> QED
      BY <1>6, <2>1, <3>1
  <2> QED
    BY <1>6, <1>8, <2>1, <2>2
<1>11. PICK size \in Nat : size = k + 1 + body
  OBVIOUS
<1>12. DOMAIN values = 1 .. size
  BY <1>10, <1>11, LenProperties
<1>13. PICK p : p = [i \in 1 .. size |-> [packet |-> n, at |-> i, value |-> values[i]]]
  OBVIOUS
<1>14. Packet(n, body) = p
  BY <1>1, <1>5, <1>7, <1>9, <1>12, <1>13 DEF Packet
<1>15. /\ p \in Seq(Byte) /\ Len(p) = size
       /\ \A i \in 1 .. size : p[i].packet = n /\ p[i].at = i /\ p[i].value = values[i]
  <2>1. ASSUME NEW i \in 1 .. size
        PROVE  [packet |-> n, at |-> i, value |-> values[i]] \in Byte
    <3>1. values[i] \in Nat
      BY <1>10, <1>11, ElementOfSeq
    <3>2. i \in Nat
      OBVIOUS
    <3> QED
      BY <3>1, <3>2 DEF Byte
  <2>2. p \in [1 .. size -> Byte]
    BY <1>13, <2>1
  <2>3. p \in Seq(Byte)
    BY <2>2
  <2>4. Len(p) = size
    BY <2>2, <2>3, LenProperties
  <2> QED
    BY <1>13, <2>3, <2>4
<1>16. k >= 1 /\ size >= k + 1
  BY <1>2, <1>3, <1>11
<1>17. ASSUME NEW i \in 1 .. k PROVE i + 1 \in 1 .. size /\ p[i + 1].value = digits[i]
  <2>1. i + 1 \in 1 .. size
    BY <1>16
  <2>2. p[i + 1].value = values[i + 1]
    BY <1>15, <2>1
  <2> QED
    BY <1>10, <2>1, <2>2
<1>18. k + 1 \in LastDigit(p, 2)
  <2>1. k + 1 \in 2 .. Len(p)
    BY <1>15, <1>16
  <2>2. p[k + 1].value < Base
    BY <1>2, <1>3, <1>16, <1>17
  <2>3. ASSUME NEW j \in 2 .. (k + 1) - 1 PROVE p[j].value >= Base
    <3>1. PICK i \in Nat : i = j - 1
      OBVIOUS
    <3>2. i \in 1 .. k /\ i \in 1 .. Len(digits) - 1 /\ i + 1 = j
      BY <1>3, <3>1
    <3> QED
      BY <1>2, <1>17, <3>2
  <2> QED
    BY <2>1, <2>2, <2>3 DEF LastDigit
<1>19. RemainingLength(p, 2) = [value |-> body, size |-> k]
  <2>1. 2 \in 1 .. Len(p)
    BY <1>15, <1>16
  <2>2. PICK last : last = k + 1
    OBVIOUS
  <2>3. RemainingLength(p, 2) = [value |-> FromDigits([i \in 1 .. last - 2 + 1 |-> p[2 + i - 1].value]),
                                 size |-> last - 2 + 1]
    BY <1>15, <1>18, <2>1, <2>2, LengthFound
  <2>4. last - 2 + 1 = k
    BY <2>2
  <2>5. [i \in 1 .. k |-> p[2 + i - 1].value] = digits
    <3>1. ASSUME NEW i \in 1 .. k PROVE p[2 + i - 1].value = digits[i]
      <4>1. 2 + i - 1 = i + 1
        OBVIOUS
      <4> QED
        BY <1>17, <4>1
    <3>2. digits \in [1 .. k -> Nat]
      BY <1>2, <1>3, LenProperties
    <3> QED
      BY <3>1, <3>2
  <2> QED
    BY <1>2, <2>3, <2>4, <2>5
<1>20. PacketSize(RemainingLength(p, 2)) = size
  BY <1>11, <1>19 DEF PacketSize
<1>21. p[1].at = 1
  BY <1>15, <1>16
<1> QED
  BY <1>14, <1>15, <1>18, <1>20, <1>21 DEF Whole, Framed

-----------------------------------------------------------------------------
(* How a buffer is cut.                                                     *)

Spots(buffer) == [start : 1 .. Len(buffer) + 1, cursor : 0 .. Len(buffer)]
Results == [packets : Seq(Seq(Byte)), leftOver : Nat]

Nothing(leftOver) == [packets |-> <<>>, leftOver |-> leftOver]
After(p, rest) == [packets |-> <<p>> \o rest.packets, leftOver |-> rest.leftOver]

\* Where a packet that begins at a spot ends, and the spot behind it.
EndOf(buffer, at) == at.start + PacketSize(RemainingLength(buffer, at.start + 1))
NextSpot(buffer, at) ==
    [start |-> EndOf(buffer, at),
     cursor |-> at.start + RemainingLength(buffer, at.start + 1).size]

GivesUp(buffer, at) == at.start > Len(buffer) \/ Len(buffer) < at.cursor + 2

\* One round of separateMqttPacketByteBuffers, with the result f of those that follow.
Round(f, buffer, at) ==
    IF GivesUp(buffer, at) THEN Nothing(0)
    ELSE IF EndOf(buffer, at) > Len(buffer) + 1 THEN Nothing(Len(buffer) + 1 - at.start)
    ELSE [f[NextSpot(buffer, at)] EXCEPT
            !.packets = <<SubSeq(buffer, at.start, EndOf(buffer, at) - 1)>> \o @]

LEMMA NextSpotBehind ==
    ASSUME NEW buffer \in Seq(Byte), NEW at \in Spots(buffer),
           ~GivesUp(buffer, at), ~(EndOf(buffer, at) > Len(buffer) + 1)
    PROVE  /\ NextSpot(buffer, at) \in Spots(buffer)
           /\ NextSpot(buffer, at).start > at.start
           /\ NextSpot(buffer, at).start = EndOf(buffer, at)
           /\ NextSpot(buffer, at).cursor < NextSpot(buffer, at).start
<1>1. PICK n \in Nat : n = Len(buffer)
  BY LenProperties
<1>2. /\ at.start \in 1 .. n + 1 /\ at.cursor \in 0 .. n /\ at.start <= n
  BY <1>1 DEF Spots, GivesUp
<1>3. PICK start \in Nat : start = at.start /\ start >= 1
  BY <1>2
<1>4. start + 1 \in Nat \ {0}
  OBVIOUS
<1>5. PICK length \in [value : Nat, size : Nat \ {0}] : length = RemainingLength(buffer, start + 1)
  BY <1>4, LengthTyped
<1>6. PICK value \in Nat, size \in Nat \ {0}, end \in Nat :
         value = length.value /\ size = length.size /\ end = start + (value + 1 + size)
  BY <1>5
<1>7. EndOf(buffer, at) = end
  BY <1>3, <1>5, <1>6 DEF EndOf, PacketSize
<1>8. NextSpot(buffer, at) = [start |-> end, cursor |-> start + size]
  BY <1>3, <1>5, <1>6, <1>7 DEF NextSpot
<1>9. end <= n + 1
  BY <1>1, <1>7
<1>10. end > start /\ start + size < end /\ end \in 1 .. n + 1 /\ start + size \in 0 .. n
  <2>1. start >= 1 /\ end = start + (value + 1 + size)
    BY <1>3, <1>6
  <2>2. end > start /\ start + size < end
    BY <2>1
  <2> QED
    BY <1>9, <2>1, <2>2
<1>11. [start |-> end, cursor |-> start + size] \in Spots(buffer)
  BY <1>1, <1>10 DEF Spots
<1> QED
  BY <1>3, <1>7, <1>8, <1>10, <1>11

LEMMA NothingTyped ==
    ASSUME NEW n \in Nat
    PROVE  Nothing(n) \in Results
<1>1. <<>> \in Seq(Seq(Byte))
  BY EmptySeq
<1> QED
  BY <1>1 DEF Nothing, Results

LEMMA AfterTyped ==
    ASSUME NEW p \in Seq(Byte), NEW rest \in Results
    PROVE  After(p, rest) \in Results /\ After(p, rest) = [rest EXCEPT !.packets = <<p>> \o @]
<1>1. rest.packets \in Seq(Seq(Byte)) /\ rest.leftOver \in Nat
  BY DEF Results
<1>2. PICK v : v = <<p>> \o rest.packets
  OBVIOUS
<1>3. v \in Seq(Seq(Byte))
  <2>1. PICK S : S = Seq(Byte)
    OBVIOUS
  <2>2. p \in S /\ rest.packets \in Seq(S)
    BY <1>1, <2>1
  <2>3. v \in Seq(S)
    BY <1>2, <2>2, ElementInFront
  <2> QED
    BY <2>1, <2>3
<1>4. \A w : [rest EXCEPT !.packets = w] = [packets |-> w, leftOver |-> rest.leftOver]
  BY DEF Results
<1> QED
  BY <1>1, <1>2, <1>3, <1>4 DEF After, Results

\* A round yields a result when the rounds that follow do.
LEMMA RoundTyped ==
    ASSUME NEW buffer \in Seq(Byte), NEW at \in Spots(buffer), NEW f,
           NextSpot(buffer, at) \in Spots(buffer) => f[NextSpot(buffer, at)] \in Results
    PROVE  /\ Round(f, buffer, at) \in Results
           /\ Round(f, buffer, at) =
                 IF GivesUp(buffer, at) THEN Nothing(0)
                 ELSE IF EndOf(buffer, at) > Len(buffer) + 1 THEN Nothing(Len(buffer) + 1 - at.start)
                 ELSE After(SubSeq(buffer, at.start, EndOf(buffer, at) - 1), f[NextSpot(buffer, at)])
<1>1. PICK n \in Nat : n = Len(buffer)
  BY LenProperties
<1>2. at.start \in 1 .. n + 1
  BY <1>1 DEF Spots
<1>3. CASE GivesUp(buffer, at)
  BY <1>3, NothingTyped DEF Round
<1>4. CASE ~GivesUp(buffer, at) /\ EndOf(buffer, at) > Len(buffer) + 1
  <2>1. Len(buffer) + 1 - at.start \in Nat
    BY <1>1, <1>2
  <2> QED
    BY <1>4, <2>1, NothingTyped DEF Round
<1>5. CASE ~GivesUp(buffer, at) /\ ~(EndOf(buffer, at) > Len(buffer) + 1)
  <2>1. NextSpot(buffer, at) \in Spots(buffer) /\ EndOf(buffer, at) \in 1 .. n + 1
    BY <1>1, <1>5, NextSpotBehind DEF Spots
  <2>2. PICK rest \in Results : rest = f[NextSpot(buffer, at)]
    BY <2>1
  <2>3. PICK p : p = SubSeq(buffer, at.start, EndOf(buffer, at) - 1)
    OBVIOUS
  <2>4. p \in Seq(Byte)
    <3>1. PICK m \in Int, e \in Int : m = at.start /\ e = EndOf(buffer, at) - 1 /\ m >= 1 /\ e <= n
      BY <1>2, <2>1
    <3>2. \A i \in m .. e : buffer[i] \in Byte
      BY <1>1, <3>1, ElementOfSeq
    <3> QED
      BY <2>3, <3>1, <3>2, SubSeqProperties
  <2>5. Round(f, buffer, at) = [rest EXCEPT !.packets = <<p>> \o @]
    BY <1>5, <2>2, <2>3 DEF Round
  <2>6. After(p, rest) \in Results /\ After(p, rest) = [rest EXCEPT !.packets = <<p>> \o @]
    BY <2>4, AfterTyped
  <2> QED
    BY <1>5, <2>2, <2>3, <2>5, <2>6
<1> QED
  BY <1>3, <1>4, <1>5

Rounds(f, buffer) == f = [at \in Spots(buffer) |-> Round(f, buffer, at)]

\* Each round depends only on rounds that begin farther on.
LEMMA RoundsExist ==
    ASSUME NEW buffer \in Seq(Byte)
    PROVE  \E f \in [Spots(buffer) -> Results] : Rounds(f, buffer)
<1>1. PICK n \in Nat : n = Len(buffer)
  BY LenProperties
<1>2. PICK D : D = Spots(buffer)
  OBVIOUS
<1>3. PICK R : R = Results
  OBVIOUS
<1>4. \A at \in D : at.start \in 1 .. n + 1
  BY <1>1, <1>2 DEF Spots
<1> DEFINE M == [at \in D |-> n + 1 - at.start]
           F == [g \in [D -> R] |-> [at \in D |-> Round(g, buffer, at)]]
<1>5. M \in [D -> Nat]
  <2>1. \A at \in D : n + 1 - at.start \in Nat
    BY <1>4
  <2> QED
    BY <2>1
<1>6. F \in [[D -> R] -> [D -> R]]
  <2>1. ASSUME NEW g \in [D -> R], NEW at \in D PROVE Round(g, buffer, at) \in R
    <3>1. at \in Spots(buffer) /\ (NextSpot(buffer, at) \in Spots(buffer) => g[NextSpot(buffer, at)] \in Results)
      BY <1>2, <1>3
    <3> QED
      BY <1>3, <3>1, RoundTyped
  <2> QED
    BY <2>1
<1>7. \A g, h \in [D -> R] : \A at \in D :
         (\A y \in D : M[y] < M[at] => g[y] = h[y]) => F[g][at] = F[h][at]
  <2> SUFFICES ASSUME NEW g \in [D -> R], NEW h \in [D -> R], NEW at \in D,
                      \A y \in D : M[y] < M[at] => g[y] = h[y]
               PROVE  F[g][at] = F[h][at]
    OBVIOUS
  <2>1. F[g][at] = Round(g, buffer, at) /\ F[h][at] = Round(h, buffer, at)
    OBVIOUS
  <2>2. CASE GivesUp(buffer, at) \/ EndOf(buffer, at) > Len(buffer) + 1
    BY <2>1, <2>2 DEF Round
  <2>3. CASE ~GivesUp(buffer, at) /\ ~(EndOf(buffer, at) > Len(buffer) + 1)
    <3>1. PICK y : y = NextSpot(buffer, at)
      OBVIOUS
    <3>2. y \in D /\ y.start > at.start
      <4>1. at \in Spots(buffer)
        BY <1>2
      <4>2. NextSpot(buffer, at) \in Spots(buffer) /\ NextSpot(buffer, at).start > at.start
        BY <2>3, <4>1, NextSpotBehind
      <4> QED
        BY <1>2, <3>1, <4>2
    <3>3. M[y] < M[at]
      BY <1>4, <3>2
    <3>4. g[y] = h[y]
      BY <3>2, <3>3
    <3> QED
      BY <2>1, <2>3, <3>1, <3>4 DEF Round
  <2> QED
    BY <2>2, <2>3
<1>8. R # {}
  BY <1>3, NothingTyped
<1> HIDE DEF M, F
<1>9. Recursion(F, M, D, R)
  BY <1>5, <1>6, <1>7, <1>8 DEF Recursion
<1>10. PICK f \in [D -> R] : f = F[f]
  BY <1>9, RecursiveFunction DEF Defines
<1>11. Rounds(f, buffer)
  BY <1>2, <1>10 DEF Rounds, F
<1> QED
  BY <1>2, <1>3, <1>11

\* Separate begins at the first byte, with the cursor in front of it.
Walk(f, buffer) ==
    /\ Rounds(f, buffer)
    /\ Separate(buffer) = f[[start |-> 1, cursor |-> 0]]

LEMMA SeparateRounds ==
    ASSUME NEW buffer \in Seq(Byte)
    PROVE  \E f : Walk(f, buffer)
<1> DEFINE c == CHOOSE h : Rounds(h, buffer)
<1>1. Rounds(c, buffer)
  BY RoundsExist
<1>2. Separate(buffer) = c[[start |-> 1, cursor |-> 0]]
  BY DEF Separate, Rounds, Round, Nothing, EndOf, NextSpot, GivesUp, Spots
<1> HIDE DEF c
<1> QED
  BY <1>1, <1>2 DEF Walk

LEMMA NextSpotLater ==
    ASSUME NEW buffer \in Seq(Byte), NEW at \in Spots(buffer)
    PROVE  NextSpot(buffer, at).start > at.start
<1>1. PICK start \in Nat : start = at.start
  <2>1. Len(buffer) \in Nat
    BY LenProperties
  <2> QED
    BY <2>1 DEF Spots
<1>2. start + 1 \in Nat \ {0}
  OBVIOUS
<1>3. PICK size \in Nat : size = PacketSize(RemainingLength(buffer, start + 1)) /\ size >= 2
  BY <1>2, LengthTyped
<1>4. start + size > start
  BY <1>3
<1> QED
  BY <1>1, <1>3, <1>4 DEF NextSpot, EndOf

\* What is cut off at a spot.
Cut(f, buffer, at) ==
    /\ f[at] \in Results
    /\ f[at] = IF GivesUp(buffer, at) THEN Nothing(0)
               ELSE IF EndOf(buffer, at) > Len(buffer) + 1 THEN Nothing(Len(buffer) + 1 - at.start)
               ELSE After(SubSeq(buffer, at.start, EndOf(buffer, at) - 1), f[NextSpot(buffer, at)])

\* Induction on spots, from the end of the buffer.
LEMMA SpotsInduction ==
    ASSUME NEW buffer \in Seq(Byte), NEW S,
           \A at \in Spots(buffer) :
              (\A y \in Spots(buffer) : y.start > at.start => y \in S) => at \in S
    PROVE  Spots(buffer) \subseteq S
<1>1. PICK n \in Nat : n = Len(buffer)
  BY LenProperties
<1>2. \A at \in Spots(buffer) : at.start \in 1 .. n + 1
  BY <1>1 DEF Spots
<1> DEFINE T == {m \in Nat : \A at \in Spots(buffer) : n + 1 - at.start < m => at \in S}
<1>3. T = Nat
  <2>1. 0 \in T
    BY <1>2
  <2>2. ASSUME NEW m \in T PROVE m + 1 \in T
    <3>1. SUFFICES ASSUME NEW at \in Spots(buffer), n + 1 - at.start < m + 1
                   PROVE  at \in S
      OBVIOUS
    <3>2. ASSUME NEW y \in Spots(buffer), y.start > at.start PROVE y \in S
      <4>1. at.start \in Nat /\ y.start \in Nat /\ m \in Nat
        BY <1>2
      <4>2. n + 1 - y.start < m
        BY <3>1, <3>2, <4>1
      <4> QED
        BY <4>2
    <3> QED
      BY <3>2
  <2>3. T \in SUBSET Nat
    OBVIOUS
  <2> HIDE DEF T
  <2> QED
    BY <2>1, <2>2, <2>3, Induction
<1>4. ASSUME NEW at \in Spots(buffer) PROVE at \in S
  <2>1. n + 2 \in Nat /\ n + 1 - at.start < n + 2
    BY <1>2
  <2>2. n + 2 \in T
    BY <1>3, <2>1
  <2> QED
    BY <2>1, <2>2
<1> QED
  BY <1>4

LEMMA RoundsCut ==
    ASSUME NEW buffer \in Seq(Byte), NEW f, Rounds(f, buffer)
    PROVE  \A at \in Spots(buffer) : Cut(f, buffer, at)
<1> DEFINE S == {at \in Spots(buffer) : Cut(f, buffer, at)}
<1>1. \A at \in Spots(buffer) : f[at] = Round(f, buffer, at)
  BY DEF Rounds
<1>2. ASSUME NEW at \in Spots(buffer), \A y \in Spots(buffer) : y.start > at.start => y \in S
      PROVE  at \in S
  <2>1. PICK next : next = NextSpot(buffer, at)
    OBVIOUS
  <2>2. next.start > at.start
    BY <2>1, NextSpotLater
  <2>3. next \in Spots(buffer) => f[next] \in Results
    BY <1>2, <2>2 DEF Cut
  <2>4. NextSpot(buffer, at) \in Spots(buffer) => f[NextSpot(buffer, at)] \in Results
    BY <2>1, <2>3
  <2>5. /\ Round(f, buffer, at) \in Results
        /\ Round(f, buffer, at) =
              IF GivesUp(buffer, at) THEN Nothing(0)
              ELSE IF EndOf(buffer, at) > Len(buffer) + 1 THEN Nothing(Len(buffer) + 1 - at.start)
              ELSE After(SubSeq(buffer, at.start, EndOf(buffer, at) - 1), f[NextSpot(buffer, at)])
    BY <2>4, RoundTyped
  <2>6. Cut(f, buffer, at)
    BY <1>1, <2>5 DEF Cut
  <2> QED
    BY <2>6
<1> HIDE DEF S
<1>3. Spots(buffer) \subseteq S
  BY <1>2, SpotsInduction
<1> QED
  BY <1>3 DEF S

\* A result in which every packet has its length and what is left over has not.
Tidy(buffer, r) ==
    /\ r.packets \in Seq(Framed) /\ r.leftOver \in 0 .. Len(buffer)
    /\ r.leftOver > 0 =>
          LET s == Rest(buffer, Len(buffer) + 1 - r.leftOver)
          IN  Len(s) < PacketSize(RemainingLength(s, 2))

\* A spot where a packet is cut off, one where bytes are left over, or neither.
LEMMA CutCases ==
    ASSUME NEW buffer \in Seq(Byte), NEW f, Rounds(f, buffer), NEW at \in Spots(buffer)
    PROVE  \/ GivesUp(buffer, at) /\ f[at] = Nothing(0)
           \/ /\ at.start \in 1 .. Len(buffer)
              /\ Len(Rest(buffer, at.start)) < PacketSize(RemainingLength(Rest(buffer, at.start), 2))
              /\ f[at] = Nothing(Len(buffer) + 1 - at.start)
           \/ \E n, next :
                /\ at.start \in 1 .. Len(buffer) /\ next \in Spots(buffer)
                /\ n = PacketSize(RemainingLength(Rest(buffer, at.start), 2))
                /\ n <= Len(Rest(buffer, at.start))
                /\ next.start = at.start + n /\ next.cursor < next.start
                /\ f[next] \in Results
                /\ f[at] = After(SubSeq(Rest(buffer, at.start), 1, n), f[next])
                /\ Rest(buffer, next.start) = SubSeq(Rest(buffer, at.start), n + 1, Len(Rest(buffer, at.start)))
<1>1. PICK len \in Nat : len = Len(buffer)
  BY LenProperties
<1>2. PICK start \in Nat : start = at.start /\ start \in 1 .. len + 1
  BY <1>1 DEF Spots
<1>3. Cut(f, buffer, at)
  BY RoundsCut
<1>4. CASE GivesUp(buffer, at)
  BY <1>3, <1>4 DEF Cut
<1>5. CASE ~GivesUp(buffer, at)
  <2>1. start \in 1 .. len
    BY <1>1, <1>2, <1>5 DEF GivesUp
  <2>2. PICK s : s = Rest(buffer, start)
    OBVIOUS
  <2>3. /\ s \in Seq(Byte) /\ Len(s) = len + 1 - start
        /\ \A i \in 1 .. len + 1 - start : s[i] = buffer[start + i - 1]
    <3>1. start \in 1 .. Len(buffer) + 1
      BY <1>1, <1>2
    <3>2. /\ Rest(buffer, start) \in Seq(Byte)
          /\ Len(Rest(buffer, start)) = Len(buffer) + 1 - start
          /\ \A i \in 1 .. Len(buffer) + 1 - start : Rest(buffer, start)[i] = buffer[start + i - 1]
      BY <3>1, RestOf
    <3> QED
      BY <1>1, <2>2, <3>2
  <2>4. RemainingLength(s, 2) = RemainingLength(buffer, start + 1)
    <3>1. start \in 1 .. Len(buffer)
      BY <1>1, <2>1
    <3>2. RemainingLength(Rest(buffer, start), 2) = RemainingLength(buffer, start + 1)
      BY <3>1, RestLength
    <3> QED
      BY <2>2, <3>2
  <2>5. PICK n \in Nat : n = PacketSize(RemainingLength(s, 2)) /\ n >= 2
    <3>1. start + 1 \in Nat \ {0}
      OBVIOUS
    <3>2. PacketSize(RemainingLength(buffer, start + 1)) \in Nat /\ PacketSize(RemainingLength(buffer, start + 1)) >= 2
      BY <3>1, LengthTyped
    <3> QED
      BY <2>4, <3>2
  <2>6. EndOf(buffer, at) = start + n
    BY <1>2, <2>4, <2>5 DEF EndOf
  <2>7. CASE EndOf(buffer, at) > Len(buffer) + 1
    <3>1. f[at] = Nothing(Len(buffer) + 1 - at.start)
      BY <1>3, <1>5, <2>7 DEF Cut
    <3>2. Len(s) < n
      BY <1>1, <1>2, <2>3, <2>6, <2>7
    <3> QED
      BY <1>1, <1>2, <2>1, <2>2, <2>5, <3>1, <3>2
  <2>8. CASE ~(EndOf(buffer, at) > Len(buffer) + 1)
    <3>1. PICK next : next = NextSpot(buffer, at)
      OBVIOUS
    <3>2. /\ next \in Spots(buffer) /\ next.start = EndOf(buffer, at) /\ next.cursor < next.start
      BY <1>5, <2>8, <3>1, NextSpotBehind
    <3>3. f[at] = After(SubSeq(buffer, at.start, EndOf(buffer, at) - 1), f[next])
      BY <1>3, <1>5, <2>8, <3>1 DEF Cut
    <3>4. n <= Len(s) /\ start + n <= len + 1
      BY <1>1, <1>2, <2>3, <2>6, <2>8
    <3>5. f[next] \in Results
      <4>1. Cut(f, buffer, next)
        BY <3>2, RoundsCut
      <4> QED
        BY <4>1 DEF Cut
    <3>6. /\ SubSeq(buffer, start, (start + n) - 1) = SubSeq(s, 1, n)
          /\ SubSeq(buffer, start + n, Len(buffer)) = SubSeq(s, n + 1, Len(s))
      <4>1. /\ s \in Seq(Byte) /\ start \in 1 .. Len(buffer) /\ n \in 0 .. Len(s)
            /\ Len(s) = Len(buffer) + 1 - start
        BY <1>1, <1>2, <2>1, <2>3, <2>5, <3>4
      <4>2. \A i \in 1 .. Len(s) : s[i] = buffer[start + i - 1]
        BY <2>3
      <4> QED
        BY <4>1, <4>2, SubSeqTwice
    <3>7. SubSeq(buffer, start + n, len) = SubSeq(s, n + 1, Len(s))
      BY <1>1, <3>6
    <3>8. Rest(buffer, next.start) = SubSeq(s, n + 1, Len(s))
      BY <1>1, <2>6, <3>2, <3>7 DEF Rest
    <3>9. f[at] = After(SubSeq(s, 1, n), f[next])
      BY <1>2, <2>6, <3>3, <3>6
    <3> QED
      BY <1>1, <1>2, <2>1, <2>2, <2>5, <2>6, <3>2, <3>4, <3>5, <3>8, <3>9
  <2> QED
    BY <2>7, <2>8
<1> QED
  BY <1>4, <1>5

LEMMA TidyRounds ==
    ASSUME NEW buffer \in Seq(Byte), NEW f, Rounds(f, buffer)
    PROVE  \A at \in Spots(buffer) : Tidy(buffer, f[at])
<1> DEFINE S == {at \in Spots(buffer) : Tidy(buffer, f[at])}
<1>1. PICK len \in Nat : len = Len(buffer)
  BY LenProperties
<1>2. ASSUME NEW at \in Spots(buffer), \A y \in Spots(buffer) : y.start > at.start => y \in S
      PROVE  Tidy(buffer, f[at])
  <2>1. <<>> \in Seq(Framed)
    BY EmptySeq
  <2>2. PICK s : s = Rest(buffer, at.start)
    OBVIOUS
  <2>3. CASE GivesUp(buffer, at) /\ f[at] = Nothing(0)
    BY <1>1, <2>1, <2>3 DEF Tidy, Nothing
  <2>4. CASE /\ at.start \in 1 .. Len(buffer)
             /\ Len(s) < PacketSize(RemainingLength(s, 2))
             /\ f[at] = Nothing(Len(buffer) + 1 - at.start)
    <3>1. PICK left \in 0 .. len : left = len + 1 - at.start /\ len + 1 - left = at.start
      BY <1>1, <2>4
    <3> QED
      BY <1>1, <2>1, <2>2, <2>4, <3>1 DEF Tidy, Nothing
  <2>5. ASSUME NEW n, NEW next \in Spots(buffer),
               at.start \in 1 .. Len(buffer),
               n = PacketSize(RemainingLength(s, 2)), n <= Len(s),
               next.start = at.start + n,
               f[at] = After(SubSeq(s, 1, n), f[next])
        PROVE  Tidy(buffer, f[at])
    <3>1. s \in Seq(Byte)
      <4>1. at.start \in 1 .. Len(buffer) + 1
        BY <1>1, <2>5
      <4> QED
        BY <2>2, <4>1, RestOf
    <3>2. PICK p \in Framed : p = SubSeq(s, 1, n)
      BY <2>5, <3>1, PacketFirst
    <3>3. n \in 2 .. Len(s) /\ Len(s) \in Nat
      BY <2>5, <3>1, PacketFirst, LenProperties
    <3>4. Tidy(buffer, f[next])
      <4>1. next.start > at.start
        BY <1>1, <2>5, <3>3
      <4> QED
        BY <1>2, <4>1
    <3>5. PICK packets \in Seq(Framed), left \in 0 .. len :
             packets = f[next].packets /\ left = f[next].leftOver
      BY <1>1, <3>4 DEF Tidy
    <3>6. <<p>> \o packets \in Seq(Framed)
      BY ElementInFront
    <3>7. f[at].packets = <<p>> \o packets /\ f[at].leftOver = f[next].leftOver
      <4>1. f[at] = After(p, f[next])
        BY <2>5, <3>2
      <4> QED
        BY <3>5, <4>1 DEF After
    <3> QED
      BY <3>4, <3>6, <3>7 DEF Tidy
  <2> QED
    BY <2>2, <2>3, <2>4, <2>5, CutCases
<1>3. \A at \in Spots(buffer) :
         (\A y \in Spots(buffer) : y.start > at.start => y \in S) => at \in S
  BY <1>2
<1>4. Spots(buffer) \subseteq S
  <2> HIDE DEF S
  <2> QED
    BY <1>3, SpotsInduction
<1> QED
  BY <1>4

LEMMA FirstSpot ==
    ASSUME NEW buffer \in Seq(Byte)
    PROVE  [start |-> 1, cursor |-> 0] \in Spots(buffer)
<1>1. PICK len \in Nat : len = Len(buffer)
  BY LenProperties
<1> QED
  BY <1>1 DEF Spots

\* Whatever the bytes, what is cut off has the length of its header, and what is
\* left over is less.
LEMMA SeparateTidy ==
    ASSUME NEW buffer \in Seq(Byte)
    PROVE  Tidy(buffer, Separate(buffer))
<1>1. PICK f : Rounds(f, buffer) /\ Separate(buffer) = f[[start |-> 1, cursor |-> 0]]
  BY SeparateRounds DEF Walk
<1>2. PICK at : at = [start |-> 1, cursor |-> 0] /\ at \in Spots(buffer)
  BY FirstSpot
<1>3. Tidy(buffer, f[at])
  BY <1>1, <1>2, TidyRounds
<1> QED
  BY <1>1, <1>2, <1>3

\* A sequence of packets, flattened, begins with the first one.
LEMMA FlattenFirst ==
    ASSUME NEW S, NEW p \in Seq(S), NEW L \in Seq(Seq(S))
    PROVE  FlattenSeq(<<p>> \o L) = p \o FlattenSeq(L)
<1>1. PICK one : one = <<p>>
  OBVIOUS
<1>2. PICK none \in Seq(Seq(S)) : none = <<>> /\ one = Append(none, p)
  <2>1. <<>> \in Seq(Seq(S))
    BY EmptySeq
  <2>2. Append(<<>>, p) = <<p>>
    OBVIOUS
  <2> QED
    BY <1>1, <2>1, <2>2
<1>3. one \in Seq(Seq(S))
  BY <1>2, AppendProperties
<1>4. FlattenSeq(one) = FlattenSeq(none) \o p
  BY <1>2, FlattenSeqAppend
<1>5. FlattenSeq(none) \o p = p
  <2>1. FlattenSeq(none) = <<>>
    BY <1>2, FlattenSeqEmpty
  <2>2. <<>> \o p = p
    BY ConcatEmptySeq
  <2> QED
    BY <2>1, <2>2
<1>6. FlattenSeq(one \o L) = FlattenSeq(one) \o FlattenSeq(L)
  BY <1>3, FlattenSeqConcat
<1> QED
  BY <1>1, <1>4, <1>5, <1>6

LEMMA WholeTyped ==
    ASSUME NEW p \in Whole
    PROVE  /\ p \in Seq(Byte) /\ Len(p) \in Nat /\ Len(p) >= 2
           /\ Len(p) = PacketSize(RemainingLength(p, 2)) /\ p[1].at = 1
<1>1. /\ p \in Seq(Byte) /\ Len(p) = PacketSize(RemainingLength(p, 2)) /\ p[1].at = 1
  BY DEF Whole, Framed
<1>2. PICK two \in Nat \ {0} : two = 2
  OBVIOUS
<1>3. PacketSize(RemainingLength(p, two)) >= 2
  BY <1>1, LengthTyped
<1>4. Len(p) \in Nat
  BY <1>1, LenProperties
<1> QED
  BY <1>1, <1>2, <1>3, <1>4

LEMMA WholesTyped ==
    ASSUME NEW L \in Seq(Whole)
    PROVE  L \in Seq(Seq(Byte)) /\ FlattenSeq(L) \in Seq(Byte)
<1>1. Whole \subseteq Seq(Byte)
  BY DEF Whole, Framed
<1>2. L \in Seq(Seq(Byte))
  BY <1>1, SeqMonotonic
<1>3. <<>> \in Seq(Byte)
  BY EmptySeq
<1> QED
  BY <1>2, <1>3, FlattenSeqAppend

\* What is here and what is to come are packets of the broker.
Opens(s, future, L) ==
    /\ s \in Seq(Byte) /\ future \in Seq(Byte) /\ L \in Seq(Whole)
    /\ Len(s) >= 1 /\ s \o future = FlattenSeq(L)

FirstOf(s, future, L, p, L1) ==
    /\ L = <<p>> \o L1
    /\ s \o future = p \o FlattenSeq(L1)
    /\ \A i \in 1 .. Len(s) : i <= Len(p) => s[i] = p[i]

\* Bytes that begin with a packet of the broker begin with its bytes.
LEMMA FirstPacket ==
    ASSUME NEW s, NEW future, NEW L, Opens(s, future, L)
    PROVE  \E p \in Whole, L1 \in Seq(Whole) : FirstOf(s, future, L, p, L1)
<1> USE DEF Opens, FirstOf
<1>1. Len(s) \in Nat /\ Len(future) \in Nat
  BY LenProperties
<1>2. L # <<>>
  <2>1. SUFFICES ASSUME L = <<>> PROVE FALSE
    OBVIOUS
  <2>2. s \o future = <<>>
    BY <2>1, FlattenSeqEmpty
  <2>3. Len(s \o future) = Len(s) + Len(future)
    BY ConcatProperties
  <2>4. Len(<<>>) = 0
    BY EmptySeq
  <2> QED
    BY <1>1, <2>2, <2>3, <2>4
<1>3. PICK p \in Whole, L1 \in Seq(Whole) : L = <<p>> \o L1
  <2>1. Head(L) \in Whole /\ Tail(L) \in Seq(Whole) /\ L = <<Head(L)>> \o Tail(L)
    BY <1>2, HeadThenTail
  <2> QED
    BY <2>1
<1>4. p \in Seq(Byte) /\ Len(p) \in Nat /\ L1 \in Seq(Seq(Byte)) /\ FlattenSeq(L1) \in Seq(Byte)
  BY WholeTyped, WholesTyped
<1>5. PICK more \in Seq(Byte) : more = FlattenSeq(L1)
  BY <1>4
<1>6. s \o future = p \o more
  BY <1>3, <1>4, <1>5, FlattenFirst
<1>7. \A i \in 1 .. Len(s) + Len(future) : (s \o future)[i] = IF i <= Len(s) THEN s[i] ELSE future[i - Len(s)]
  BY ConcatProperties
<1>8. \A i \in 1 .. Len(p) + Len(more) : (p \o more)[i] = IF i <= Len(p) THEN p[i] ELSE more[i - Len(p)]
  BY <1>4, ConcatProperties
<1>9. ASSUME NEW i \in 1 .. Len(s), i <= Len(p) PROVE s[i] = p[i]
  <2>1. Len(more) \in Nat
    BY LenProperties
  <2>2. i \in 1 .. Len(s) + Len(future) /\ i \in 1 .. Len(p) + Len(more) /\ i <= Len(s)
    BY <1>1, <1>4, <1>9, <2>1
  <2> QED
    BY <1>6, <1>7, <1>8, <1>9, <2>2
<1> QED
  BY <1>3, <1>5, <1>6, <1>9

\* One sequence behind another. ConcatAssociative is cited for Glued, which the
\* provers do not expand.
Glued(s, t) == s \o t

GluesWell(S) == \A s, t, u \in S : Glued(Glued(s, t), u) = Glued(s, Glued(t, u))

LEMMA GluesWellSeq ==
    ASSUME NEW E
    PROVE  GluesWell(Seq(E))
<1>1. \A s, t, u \in Seq(E) : (s \o t) \o u = s \o (t \o u)
  <2> TAKE s, t, u \in Seq(E)
  <2> QED
    BY ConcatAssociative
<1> QED
  BY <1>1 DEF GluesWell, Glued

LEMMA GluedAssociative ==
    ASSUME NEW E, NEW s \in Seq(E), NEW t \in Seq(E), NEW u \in Seq(E)
    PROVE  Glued(Glued(s, t), u) = Glued(s, Glued(t, u))
BY GluesWellSeq DEF GluesWell

\* What is kept of a buffer.
Left(buffer, r) == IF r.leftOver > 0 THEN Rest(buffer, Len(buffer) + 1 - r.leftOver) ELSE <<>>

\* Bytes that are packets of the broker, if more come, are cut into them.
Divides(buffer, s, r) ==
    \A L \in Seq(Whole), future \in Seq(Byte) :
       s \o future = FlattenSeq(L) =>
          \E L2 \in Seq(Whole) : L = r.packets \o L2 /\ Left(buffer, r) \o future = FlattenSeq(L2)

\* When nothing is cut off, everything must be kept.
LEMMA DividesNothing ==
    ASSUME NEW buffer, NEW s, NEW n, Left(buffer, Nothing(n)) = s
    PROVE  Divides(buffer, s, Nothing(n))
<1> SUFFICES ASSUME NEW L \in Seq(Whole), NEW future \in Seq(Byte), s \o future = FlattenSeq(L)
             PROVE  L = Nothing(n).packets \o L /\ Left(buffer, Nothing(n)) \o future = FlattenSeq(L)
  BY DEF Divides
<1>1. <<>> \o L = L
  BY ConcatEmptySeq
<1> QED
  BY <1>1 DEF Nothing

\* A packet in front.
LEMMA DividesAfter ==
    ASSUME NEW buffer, NEW s \in Seq(Byte), NEW n, NEW r \in Results,
           n = PacketSize(RemainingLength(s, 2)), n <= Len(s),
           Divides(buffer, SubSeq(s, n + 1, Len(s)), r)
    PROVE  Divides(buffer, s, After(SubSeq(s, 1, n), r))
<1>1. PICK first : first = SubSeq(s, 1, n)
  OBVIOUS
<1>2. PICK behind : behind = SubSeq(s, n + 1, Len(s))
  OBVIOUS
<1>3. n \in 2 .. Len(s) /\ first \in Framed /\ behind \in Seq(Byte) /\ s = first \o behind
  BY <1>1, <1>2, PacketFirst
<1>4. Len(s) \in Nat /\ first \in Seq(Byte) /\ Len(first) = n
  <2>1. first \in Seq(Byte)
    BY <1>3 DEF Framed
  <2>2. Len(first) \in Nat /\ Len(behind) \in Nat /\ Len(s) \in Nat
    BY <1>3, <2>1, LenProperties
  <2>3. 1 \in Int /\ n \in Int /\ \A i \in 1 .. n : s[i] \in Byte
    BY <1>3, <2>2, ElementOfSeq
  <2>4. PICK one \in Int : one = 1
    OBVIOUS
  <2>5. Len(SubSeq(s, one, n)) = IF one <= n THEN n - one + 1 ELSE 0
    BY <2>3, <2>4, SubSeqProperties
  <2>6. n - one + 1 = n /\ one <= n
    BY <1>3, <2>2, <2>4
  <2> QED
    BY <1>1, <2>1, <2>2, <2>4, <2>5, <2>6
<1>5. SUFFICES ASSUME NEW L \in Seq(Whole), NEW future \in Seq(Byte), s \o future = FlattenSeq(L)
               PROVE  \E L2 \in Seq(Whole) :
                         /\ L = After(first, r).packets \o L2
                         /\ Left(buffer, After(first, r)) \o future = FlattenSeq(L2)
  BY <1>1 DEF Divides
<1>6. PICK p \in Whole, L1 \in Seq(Whole) :
         /\ L = <<p>> \o L1
         /\ s \o future = p \o FlattenSeq(L1)
         /\ \A i \in 1 .. Len(s) : i <= Len(p) => s[i] = p[i]
  <2>1. Len(s) >= 1
    BY <1>3, <1>4
  <2>2. Opens(s, future, L)
    BY <1>5, <2>1 DEF Opens
  <2>3. PICK p \in Whole, L1 \in Seq(Whole) : FirstOf(s, future, L, p, L1)
    BY <2>2, FirstPacket
  <2> QED
    BY <2>3 DEF FirstOf
<1>7. Len(p) <= Len(s)
  <2>1. SUFFICES ASSUME ~(Len(p) <= Len(s)) PROVE FALSE
    OBVIOUS
  <2>2. Len(p) \in Nat
    BY WholeTyped
  <2>3. Len(s) < Len(p) /\ \A i \in 1 .. Len(s) : s[i] = p[i]
    BY <1>4, <1>6, <2>1, <2>2
  <2>4. Len(s) < PacketSize(RemainingLength(s, 2))
    BY <2>3, PartFirst
  <2> QED
    BY <1>3, <1>4, <2>4
<1>8. n = Len(p)
  <2>1. Len(p) \in Nat
    BY WholeTyped
  <2>2. \A i \in 1 .. Len(p) : s[i] = p[i]
    BY <1>4, <1>6, <1>7, <2>1
  <2> QED
    BY <1>7, <2>2, WholeFirst
<1>9. first = p
  <2>1. p \in Seq(Byte)
    BY WholeTyped
  <2>2. \A i \in 1 .. Len(first) : first[i] = p[i]
    <3> SUFFICES ASSUME NEW i \in 1 .. n PROVE first[i] = p[i]
      BY <1>4
    <3>1. \A j \in 1 .. Len(first) + Len(behind) :
             (first \o behind)[j] = IF j <= Len(first) THEN first[j] ELSE behind[j - Len(first)]
      BY <1>3, <1>4, ConcatProperties
    <3>2. Len(behind) \in Nat
      BY <1>3, LenProperties
    <3>3. PICK m \in Nat, k \in Nat : m = Len(s) /\ k = Len(behind)
      BY <1>4, <3>2
    <3>4. n \in Nat /\ n <= m
      BY <1>3, <3>3
    <3>5. i \in 1 .. n + k /\ i <= n /\ i \in 1 .. m
      BY <3>3, <3>4
    <3>6. i \in 1 .. Len(first) + Len(behind) /\ i <= Len(first) /\ i \in 1 .. Len(s) /\ i <= Len(p)
      BY <1>4, <1>8, <3>3, <3>5
    <3> QED
      BY <1>3, <1>6, <3>1, <3>6
  <2> QED
    BY <1>4, <1>8, <2>1, <2>2, SeqEqual
<1>10. PICK more \in Seq(Byte) : more = FlattenSeq(L1)
  BY WholesTyped
<1>11. behind \o future = more
  <2>1. behind \o future \in Seq(Byte)
    BY <1>3, ConcatProperties
  <2>2. s \o future = first \o (behind \o future)
    <3>1. first \in Seq(Byte) /\ behind \in Seq(Byte)
      BY <1>3, <1>4
    <3>2. Glued(Glued(first, behind), future) = Glued(first, Glued(behind, future))
      BY <3>1, GluedAssociative
    <3>3. (first \o behind) \o future = first \o (behind \o future)
      BY ONLY <3>2 DEF Glued
    <3> QED
      BY <1>3, <3>3
  <2>3. first \o (behind \o future) = first \o more
    BY <1>6, <1>9, <1>10, <2>2
  <2>4. \A t, v \in Seq(Byte) : first \o t = first \o v => t = v
    BY <1>4, ConcatSimplifications
  <2> QED
    BY <2>1, <2>3, <2>4
<1>12. PICK L2 \in Seq(Whole) : L1 = r.packets \o L2 /\ Left(buffer, r) \o future = FlattenSeq(L2)
  <2>1. Divides(buffer, behind, r)
    BY <1>2
  <2>2. behind \o future = FlattenSeq(L1)
    BY <1>10, <1>11
  <2> QED
    BY ONLY <2>1, <2>2, L1 \in Seq(Whole), future \in Seq(Byte) DEF Divides
<1>13. L = (<<first>> \o r.packets) \o L2
  <2>1. r.packets \in Seq(Seq(Byte)) /\ L2 \in Seq(Seq(Byte))
    BY WholesTyped DEF Results
  <2>2. PICK one : one = <<first>>
    OBVIOUS
  <2>3. PICK S : S = Seq(Byte)
    OBVIOUS
  <2>4. one \in Seq(S)
    BY <1>4, <2>2, <2>3
  <2>5. one \in Seq(Seq(Byte))
    BY <2>3, <2>4
  <2>6. (one \o r.packets) \o L2 = one \o (r.packets \o L2)
    <3>1. Glued(Glued(one, r.packets), L2) = Glued(one, Glued(r.packets, L2))
      BY <2>1, <2>5, GluedAssociative
    <3> QED
      BY ONLY <3>1 DEF Glued
  <2> QED
    BY <1>6, <1>9, <1>12, <2>2, <2>6
<1>14. After(first, r).packets = <<first>> \o r.packets /\ After(first, r).leftOver = r.leftOver
  BY DEF After
<1>15. Left(buffer, After(first, r)) = Left(buffer, r)
  BY <1>14 DEF Left
<1> QED
  BY <1>12, <1>13, <1>14, <1>15

\* No packet is cut after its first byte.
LoneByte(buffer) == Len(buffer) >= 1 /\ buffer[Len(buffer)].at = 1

LEMMA DividesRounds ==
    ASSUME NEW buffer \in Seq(Byte), ~LoneByte(buffer), NEW f, Rounds(f, buffer)
    PROVE  \A at \in Spots(buffer) :
              at.cursor < at.start => Divides(buffer, Rest(buffer, at.start), f[at])
<1> DEFINE S == {at \in Spots(buffer) :
                    at.cursor < at.start => Divides(buffer, Rest(buffer, at.start), f[at])}
<1>1. PICK len \in Nat : len = Len(buffer)
  BY LenProperties
<1>2. ASSUME NEW at \in Spots(buffer), \A y \in Spots(buffer) : y.start > at.start => y \in S,
             at.cursor < at.start
      PROVE  Divides(buffer, Rest(buffer, at.start), f[at])
  <2>1. PICK start \in 1 .. len + 1, cursor \in 0 .. len :
           start = at.start /\ cursor = at.cursor /\ cursor < start
    BY <1>1, <1>2 DEF Spots
  <2>2. PICK s : s = Rest(buffer, start)
    OBVIOUS
  <2>3. /\ s \in Seq(Byte) /\ Len(s) = len + 1 - start
        /\ \A i \in 1 .. len + 1 - start : s[i] = buffer[start + i - 1]
    <3>1. start \in 1 .. Len(buffer) + 1
      BY <1>1
    <3>2. /\ Rest(buffer, start) \in Seq(Byte)
          /\ Len(Rest(buffer, start)) = Len(buffer) + 1 - start
          /\ \A i \in 1 .. Len(buffer) + 1 - start : Rest(buffer, start)[i] = buffer[start + i - 1]
      BY <3>1, RestOf
    <3> QED
      BY <1>1, <2>2, <3>2
  <2>4. CASE GivesUp(buffer, at) /\ f[at] = Nothing(0) /\ start = len + 1
    <3>1. s = <<>>
      <4>1. Len(s) = 0
        BY <2>3, <2>4
      <4> QED
        BY <2>3, <4>1, EmptySeq
    <3>2. Left(buffer, Nothing(0)) = s
      BY <3>1 DEF Left, Nothing
    <3>3. Divides(buffer, s, Nothing(0))
      BY <3>2, DividesNothing
    <3> QED
      BY <2>1, <2>2, <2>4, <3>3
  <2>5. CASE GivesUp(buffer, at) /\ start # len + 1
    <3>1. start = len /\ Len(s) = 1
      BY <1>1, <2>1, <2>3, <2>5 DEF GivesUp
    <3>2. s[1].at # 1
      <4>1. 1 \in 1 .. len + 1 - start /\ start + 1 - 1 = len
        BY <3>1
      <4>2. s[1] = buffer[start + 1 - 1]
        BY <2>3, <4>1
      <4>3. len >= 1
        BY <2>1, <3>1
      <4> QED
        BY <1>1, <4>1, <4>2, <4>3 DEF LoneByte
    <3>3. ASSUME NEW L \in Seq(Whole), NEW future \in Seq(Byte), s \o future = FlattenSeq(L)
          PROVE  FALSE
      <4>1. Len(s) >= 1
        BY <3>1
      <4>2. PICK p \in Whole, L1 \in Seq(Whole) : FirstOf(s, future, L, p, L1)
        <5>1. Opens(s, future, L)
          BY <2>3, <3>3, <4>1 DEF Opens
        <5> QED
          BY <5>1, FirstPacket
      <4>3. Len(p) \in Nat /\ Len(p) >= 2 /\ p[1].at = 1
        BY WholeTyped
      <4>4. 1 \in 1 .. Len(s) /\ 1 <= Len(p)
        BY <3>1, <4>3
      <4> QED
        BY <3>2, <4>2, <4>3, <4>4 DEF FirstOf
    <3>4. Divides(buffer, s, f[at])
      BY <3>3 DEF Divides
    <3> QED
      BY <2>1, <2>2, <3>4
  <2>6. CASE /\ at.start \in 1 .. Len(buffer)
             /\ f[at] = Nothing(Len(buffer) + 1 - at.start)
    <3>1. PICK left \in Nat : left = len + 1 - start /\ left > 0 /\ len + 1 - left = start
      BY <1>1, <2>1, <2>6
    <3>2. Left(buffer, Nothing(left)) = s
      BY <1>1, <2>2, <3>1 DEF Left, Nothing
    <3>3. Divides(buffer, s, Nothing(left))
      BY <3>2, DividesNothing
    <3> QED
      BY <1>1, <2>1, <2>2, <2>6, <3>1, <3>3
  <2>7. ASSUME NEW n, NEW next \in Spots(buffer),
               n = PacketSize(RemainingLength(s, 2)), n <= Len(s),
               next.start = at.start + n, next.cursor < next.start,
               f[next] \in Results,
               f[at] = After(SubSeq(s, 1, n), f[next]),
               Rest(buffer, next.start) = SubSeq(s, n + 1, Len(s))
        PROVE  Divides(buffer, s, f[at])
    <3>1. n \in 2 .. Len(s) /\ Len(s) \in Nat
      BY <2>3, <2>7, PacketFirst, LenProperties
    <3>2. next.start > at.start
      BY <2>1, <2>7, <3>1
    <3>3. Divides(buffer, SubSeq(s, n + 1, Len(s)), f[next])
      BY <1>2, <2>7, <3>2
    <3>4. Divides(buffer, s, After(SubSeq(s, 1, n), f[next]))
      BY <2>3, <2>7, <3>3, DividesAfter
    <3> QED
      BY <2>7, <3>4
  <2>8. \/ GivesUp(buffer, at) /\ f[at] = Nothing(0)
        \/ /\ at.start \in 1 .. Len(buffer)
           /\ Len(Rest(buffer, at.start)) < PacketSize(RemainingLength(Rest(buffer, at.start), 2))
           /\ f[at] = Nothing(Len(buffer) + 1 - at.start)
        \/ \E n, next :
             /\ at.start \in 1 .. Len(buffer) /\ next \in Spots(buffer)
             /\ n = PacketSize(RemainingLength(Rest(buffer, at.start), 2))
             /\ n <= Len(Rest(buffer, at.start))
             /\ next.start = at.start + n /\ next.cursor < next.start
             /\ f[next] \in Results
             /\ f[at] = After(SubSeq(Rest(buffer, at.start), 1, n), f[next])
             /\ Rest(buffer, next.start) = SubSeq(Rest(buffer, at.start), n + 1, Len(Rest(buffer, at.start)))
    BY CutCases
  <2> HIDE DEF S
  <2> QED
    BY <2>1, <2>2, <2>4, <2>5, <2>6, <2>7, <2>8
<1>3. \A at \in Spots(buffer) :
         (\A y \in Spots(buffer) : y.start > at.start => y \in S) => at \in S
  BY <1>2
<1>4. Spots(buffer) \subseteq S
  <2> HIDE DEF S
  <2> QED
    BY <1>3, SpotsInduction
<1> QED
  BY <1>4

\* The packets of the broker are cut as they were sent.
LEMMA SeparateDivides ==
    ASSUME NEW buffer \in Seq(Byte), ~LoneByte(buffer)
    PROVE  Divides(buffer, buffer, Separate(buffer))
<1>1. PICK f : Rounds(f, buffer) /\ Separate(buffer) = f[[start |-> 1, cursor |-> 0]]
  BY SeparateRounds DEF Walk
<1>2. PICK at : at = [start |-> 1, cursor |-> 0] /\ at \in Spots(buffer)
  BY FirstSpot
<1>3. Rest(buffer, at.start) = buffer
  BY <1>2, SubSeqFull DEF Rest
<1>4. at.cursor < at.start
  BY <1>2
<1>5. Divides(buffer, Rest(buffer, at.start), f[at])
  BY <1>1, <1>2, <1>4, DividesRounds
<1> QED
  BY <1>1, <1>2, <1>3, <1>5

-----------------------------------------------------------------------------
(* The types.                                                               *)

Types ==
    /\ m_leftOverBuffer \in Seq(Byte) /\ stream \in Seq(Byte) /\ arrived \in Seq(Byte)
    /\ m_inQueueData \in Seq(Framed) /\ m_inProgressData \in Seq(Framed)
    /\ handled \in Seq(Framed) /\ sent \in Seq(Whole)
    /\ batch \in {"idle", "next", "handled"}
    /\ connected \in BOOLEAN /\ fresh \in BOOLEAN /\ intact \in BOOLEAN
    /\ connections \in 0 .. MaxConnections
    /\ m_leftOverBuffer # <<>> =>
          Len(m_leftOverBuffer) < PacketSize(RemainingLength(m_leftOverBuffer, 2))

\* The first bytes of a sequence, and those behind.
LEMMA ChunkTyped ==
    ASSUME NEW s \in Seq(Byte), NEW k \in 1 .. Len(s)
    PROVE  /\ SubSeq(s, 1, k) \in Seq(Byte) /\ SubSeq(s, k + 1, Len(s)) \in Seq(Byte)
           /\ Len(SubSeq(s, 1, k)) = k /\ SubSeq(s, 1, k)[k] = s[k]
           /\ s = SubSeq(s, 1, k) \o SubSeq(s, k + 1, Len(s))
<1>1. PICK n \in Nat : n = Len(s)
  BY LenProperties
<1>2. \A i \in 1 .. n : s[i] \in Byte
  BY <1>1, ElementOfSeq
<1>3. PICK one \in Int : one = 1
  OBVIOUS
<1>4. k \in Int /\ one <= k /\ k <= n /\ k + 1 \in Int /\ n \in Int
  BY <1>1, <1>3
<1>5. /\ SubSeq(s, one, k) \in Seq(Byte)
      /\ Len(SubSeq(s, one, k)) = IF one <= k THEN k - one + 1 ELSE 0
      /\ \A i \in 1 .. k - one + 1 : SubSeq(s, one, k)[i] = s[one + i - 1]
  <2>1. \A i \in one .. k : s[i] \in Byte
    BY <1>2, <1>3, <1>4
  <2> QED
    BY <1>4, <2>1, SubSeqProperties
<1>6. k - one + 1 = k /\ k \in 1 .. k - one + 1 /\ one + k - 1 = k
  BY <1>3, <1>4
<1>7. SubSeq(s, k + 1, n) \in Seq(Byte)
  <2>1. PICK m \in Int : m = k + 1
    BY <1>4
  <2>2. \A i \in m .. n : s[i] \in Byte
    BY <1>2, <1>4, <2>1
  <2>3. SubSeq(s, m, n) \in Seq(Byte)
    BY <1>4, <2>2, SubSeqProperties
  <2> QED
    BY <2>1, <2>3
<1>8. SubSeq(s, one, k) \o SubSeq(s, k + 1, n) = SubSeq(s, one, n)
  <2>1. one \in 1 .. Len(s) + 1 /\ k \in one - 1 .. Len(s) /\ n \in k .. Len(s)
    BY <1>1, <1>3, <1>4
  <2> QED
    BY <2>1, ConcatAdjacentSubSeq
<1>9. SubSeq(s, 1, Len(s)) = s
  BY SubSeqFull
<1>10. /\ SubSeq(s, 1, k) \in Seq(Byte) /\ Len(SubSeq(s, 1, k)) = k
       /\ SubSeq(s, 1, k)[k] = s[k]
  BY <1>3, <1>5, <1>6
<1> QED
  BY <1>1, <1>3, <1>7, <1>8, <1>9, <1>10

\* What LeftOver keeps.
LEMMA LeftOverTyped ==
    ASSUME NEW full \in Seq(Byte), NEW r, Tidy(full, r)
    PROVE  /\ r.leftOver > 0 => LeftOver(full, r.leftOver) = Left(full, r)
           /\ ~(r.leftOver > 0) => LeftOver(full, r.leftOver) = m_leftOverBuffer
           /\ Left(full, r) \in Seq(Byte)
           /\ r.leftOver > 0 =>
                 Len(Left(full, r)) < PacketSize(RemainingLength(Left(full, r), 2))
<1>1. PICK len \in Nat : len = Len(full)
  BY LenProperties
<1>2. PICK left \in 0 .. len : left = r.leftOver
  BY <1>1 DEF Tidy
<1>3. CASE left > 0
  <2>1. len - left + 1 = len + 1 - left /\ len + 1 - left \in 1 .. len + 1
    BY <1>3
  <2>2. Rest(full, len + 1 - left) \in Seq(Byte)
    BY <1>1, <2>1, RestOf
  <2>3. LeftOver(full, r.leftOver) = Rest(full, len + 1 - left)
    BY <1>1, <1>2, <1>3, <2>1 DEF LeftOver, Rest
  <2>4. Left(full, r) = Rest(full, len + 1 - left)
    BY <1>1, <1>2, <1>3 DEF Left
  <2>5. Len(Rest(full, len + 1 - left)) < PacketSize(RemainingLength(Rest(full, len + 1 - left), 2))
    BY <1>1, <1>2, <1>3 DEF Tidy
  <2> QED
    BY <1>2, <1>3, <2>2, <2>3, <2>4, <2>5
<1>4. CASE ~(left > 0)
  <2>1. Left(full, r) = <<>> /\ LeftOver(full, r.leftOver) = m_leftOverBuffer
    BY <1>2, <1>4 DEF Left, LeftOver
  <2>2. <<>> \in Seq(Byte)
    BY EmptySeq
  <2> QED
    BY <1>2, <1>4, <2>1, <2>2
<1> QED
  BY <1>3, <1>4

\* What an arrival of bytes does.
LEMMA Arrival ==
    ASSUME Types, SocketDataReceived
    PROVE  \E r : \E k \in Chunks, chunk \in Seq(Byte), rest \in Seq(Byte), full \in Seq(Byte) :
              /\ k \in 1 .. Len(stream)
              /\ Len(chunk) = k /\ chunk[k] = stream[k] /\ stream = chunk \o rest
              /\ full = m_leftOverBuffer \o chunk /\ r = Separate(full) /\ Tidy(full, r)
              /\ m_inQueueData' = m_inQueueData \o r.packets
              /\ m_leftOverBuffer' = LeftOver(full, r.leftOver)
              /\ fresh' = (r.leftOver > 0)
              /\ arrived' = arrived \o chunk
              /\ stream' = rest
<1>1. stream \in Seq(Byte) /\ m_leftOverBuffer \in Seq(Byte)
  BY DEF Types
<1>2. PICK k \in Chunks :
         /\ m_inQueueData' = m_inQueueData \o Separate(m_leftOverBuffer \o SubSeq(stream, 1, k)).packets
         /\ m_leftOverBuffer' = LeftOver(m_leftOverBuffer \o SubSeq(stream, 1, k),
                                         Separate(m_leftOverBuffer \o SubSeq(stream, 1, k)).leftOver)
         /\ fresh' = (Separate(m_leftOverBuffer \o SubSeq(stream, 1, k)).leftOver > 0)
         /\ arrived' = arrived \o SubSeq(stream, 1, k)
         /\ stream' = SubSeq(stream, k + 1, Len(stream))
  BY Zenon DEF SocketDataReceived, AddToQueue
<1>3. k \in 1 .. Len(stream)
  <2>1. k \in DOMAIN stream
    BY DEF Chunks
  <2> QED
    BY <1>1, <2>1, LenProperties
<1>4. PICK chunk : chunk = SubSeq(stream, 1, k)
  OBVIOUS
<1>5. PICK rest : rest = SubSeq(stream, k + 1, Len(stream))
  OBVIOUS
<1>6. /\ chunk \in Seq(Byte) /\ rest \in Seq(Byte)
      /\ Len(chunk) = k /\ chunk[k] = stream[k] /\ stream = chunk \o rest
  BY <1>1, <1>3, <1>4, <1>5, ChunkTyped
<1>7. PICK full : full = m_leftOverBuffer \o chunk
  OBVIOUS
<1>8. full \in Seq(Byte)
  BY <1>1, <1>6, <1>7, ConcatProperties
<1>9. PICK r : r = Separate(full)
  OBVIOUS
<1>10. Tidy(full, r)
  BY <1>8, <1>9, SeparateTidy
<1> QED
  BY <1>2, <1>3, <1>4, <1>5, <1>6, <1>7, <1>8, <1>9, <1>10

LEMMA TypesInit == Init => Types
<1> SUFFICES ASSUME Init PROVE Types
  OBVIOUS
<1>1. \A S : <<>> \in Seq(S)
  BY EmptySeq
<1>2. 0 \in 0 .. MaxConnections
  BY FramingAssumption DEF FramingAssumption
<1> QED
  BY <1>1, <1>2 DEF Init, Types

\* A new connection empties everything but m_leftOverBuffer.
LEMMA TypesNewConnection ==
    ASSUME Types, NewConnection, batch' \in {"idle", "next", "handled"}
    PROVE  Types'
<1>1. \A S : <<>> \in Seq(S)
  BY EmptySeq
<1>2. connections' \in 0 .. MaxConnections
  <2>1. MaxConnections \in Nat
    BY FramingAssumption DEF FramingAssumption
  <2> QED
    BY <2>1 DEF Types, NewConnection
<1>3. /\ m_inQueueData' = <<>> /\ m_inProgressData' = <<>> /\ stream' = <<>> /\ sent' = <<>>
      /\ handled' = <<>> /\ arrived' = <<>> /\ connected' = TRUE /\ fresh' = FALSE
      /\ UNCHANGED <<m_leftOverBuffer, intact>>
  BY DEF NewConnection, ClearQueues
<1> QED
  BY <1>1, <1>2, <1>3 DEF Types

LEMMA TypesNext == Types /\ [Next]_vars => Types'
<1> SUFFICES ASSUME Types, [Next]_vars PROVE Types'
  OBVIOUS
<1>1. ASSUME NEW body \in Bodies, BrokerSends(body) PROVE Types'
  <2>1. sent \in Seq(Whole) /\ stream \in Seq(Byte)
    BY DEF Types
  <2>2. PICK n \in Nat : n = Len(sent) + 1
    BY <2>1, LenProperties
  <2>3. body \in Nat
    BY FramingAssumption DEF FramingAssumption
  <2>4. PICK p \in Whole : p = Packet(n, body)
    BY <2>3, PacketWhole
  <2>5. sent' = Append(sent, p) /\ stream' = stream \o p
    BY <1>1, <2>2, <2>4 DEF BrokerSends
  <2>6. sent' \in Seq(Whole)
    BY <2>1, <2>5, AppendProperties
  <2>7. stream' \in Seq(Byte)
    BY <2>1, <2>5, WholeTyped, ConcatProperties
  <2>8. UNCHANGED <<leftOverVars, queueVars, handled, arrived, connected, connections>>
    BY <1>1 DEF BrokerSends
  <2> QED
    BY <2>6, <2>7, <2>8 DEF Types, leftOverVars, queueVars
<1>2. CASE SocketDataReceived
  <2>1. PICK r : \E k \in Chunks, chunk \in Seq(Byte), rest \in Seq(Byte), full \in Seq(Byte) :
           /\ k \in 1 .. Len(stream)
           /\ Len(chunk) = k /\ chunk[k] = stream[k] /\ stream = chunk \o rest
           /\ full = m_leftOverBuffer \o chunk /\ r = Separate(full) /\ Tidy(full, r)
           /\ m_inQueueData' = m_inQueueData \o r.packets
           /\ m_leftOverBuffer' = LeftOver(full, r.leftOver)
           /\ fresh' = (r.leftOver > 0)
           /\ arrived' = arrived \o chunk
           /\ stream' = rest
    BY <1>2, Arrival
  <2>2. PICK chunk \in Seq(Byte), rest \in Seq(Byte), full \in Seq(Byte) :
           /\ Tidy(full, r)
           /\ m_inQueueData' = m_inQueueData \o r.packets
           /\ m_leftOverBuffer' = LeftOver(full, r.leftOver)
           /\ fresh' = (r.leftOver > 0)
           /\ arrived' = arrived \o chunk
           /\ stream' = rest
    BY <2>1
  <2>3. m_inQueueData' \in Seq(Framed)
    <3>1. m_inQueueData \in Seq(Framed) /\ r.packets \in Seq(Framed)
      BY <2>2 DEF Types, Tidy
    <3> QED
      BY <2>2, <3>1, ConcatProperties
  <2>4. arrived' \in Seq(Byte) /\ stream' \in Seq(Byte)
    <3>1. arrived \in Seq(Byte)
      BY DEF Types
    <3> QED
      BY <2>2, <3>1, ConcatProperties
  <2>5. /\ m_leftOverBuffer' \in Seq(Byte)
        /\ m_leftOverBuffer' # <<>> =>
              Len(m_leftOverBuffer') < PacketSize(RemainingLength(m_leftOverBuffer', 2))
    <3>1. /\ r.leftOver > 0 => LeftOver(full, r.leftOver) = Left(full, r)
          /\ ~(r.leftOver > 0) => LeftOver(full, r.leftOver) = m_leftOverBuffer
          /\ Left(full, r) \in Seq(Byte)
          /\ r.leftOver > 0 =>
                Len(Left(full, r)) < PacketSize(RemainingLength(Left(full, r), 2))
      BY <2>2, LeftOverTyped
    <3> QED
      BY <2>2, <3>1 DEF Types
  <2>6. fresh' \in BOOLEAN /\ intact' \in BOOLEAN
    BY <1>2, <2>2 DEF SocketDataReceived, Types
  <2>7. UNCHANGED <<m_inProgressData, batch, sent, handled, connected, connections>>
    BY <1>2 DEF SocketDataReceived
  <2> QED
    BY <2>3, <2>4, <2>5, <2>6, <2>7 DEF Types
<1>3. CASE SocketCloses
  <2>1. <<>> \in Seq(Byte)
    BY EmptySeq
  <2> QED
    BY <1>3, <2>1 DEF SocketCloses, Types, leftOverVars, queueVars
<1>4. CASE BeginBatch
  BY <1>4 DEF BeginBatch, Swap, Types, leftOverVars, brokerVars
<1>5. CASE HandlePacket
  <2>1. handled' \in Seq(Framed)
    <3>1. handled \in Seq(Framed) /\ Head(m_inProgressData) \in Framed
      <4>1. m_inProgressData \in Seq(Framed) /\ m_inProgressData # <<>> /\ handled \in Seq(Framed)
        BY <1>5 DEF HandlePacket, Handling, Types
      <4> QED
        BY <4>1, HeadTailProperties
    <3>2. handled' = Append(handled, Head(m_inProgressData))
      BY <1>5 DEF HandlePacket
    <3> QED
      BY <3>1, <3>2, AppendProperties
  <2> QED
    BY <1>5, <2>1 DEF HandlePacket, Types, leftOverVars, brokerVars
<1>6. CASE PopPacket
  <2>1. m_inProgressData' \in Seq(Framed)
    <3>1. m_inProgressData \in Seq(Framed)
      BY DEF Types
    <3>2. m_inProgressData # <<>> => Tail(m_inProgressData) \in Seq(Framed)
      BY <3>1, HeadTailProperties
    <3> QED
      BY <1>6, <3>1, <3>2 DEF PopPacket
  <2> QED
    BY <1>6, <2>1 DEF PopPacket, Types, leftOverVars, brokerVars
<1>7. CASE EndBatch
  BY <1>7 DEF EndBatch, Types, leftOverVars, brokerVars
<1>8. CASE HandleRedirection
  BY <1>8, TypesNewConnection DEF HandleRedirection
<1>9. CASE DecodeFails
  <2>1. <<>> \in Seq(Byte) /\ <<>> \in Seq(Framed)
    BY EmptySeq
  <2> QED
    BY <1>9, <2>1 DEF DecodeFails, Types, leftOverVars
<1>10. CASE Connect
  BY <1>10, TypesNewConnection DEF Connect, Types
<1>11. CASE UNCHANGED vars
  BY <1>11 DEF vars, leftOverVars, queueVars, brokerVars, Types
<1> QED
  BY <1>1, <1>2, <1>3, <1>4, <1>5, <1>6, <1>7, <1>8, <1>9, <1>10, <1>11
  DEF Next, ReceiveNextBatch

LEMMA TypesHold == Types => TypeOK
<1> SUFFICES ASSUME Types PROVE TypeOK
  OBVIOUS
<1>1. /\ m_inQueueData \in Seq(Framed) /\ m_inProgressData \in Seq(Framed) /\ handled \in Seq(Framed)
  BY DEF Types
<1>2. ASSUME NEW p \in ToSet(m_inQueueData \o m_inProgressData \o handled)
      PROVE  Len(p) = PacketSize(RemainingLength(p, 2))
  <2>1. PICK all : all = (m_inQueueData \o m_inProgressData) \o handled
    OBVIOUS
  <2>2. all \in Seq(Framed)
    <3>1. m_inQueueData \o m_inProgressData \in Seq(Framed)
      BY <1>1, ConcatProperties
    <3> QED
      BY <1>1, <2>1, <3>1, ConcatProperties
  <2>3. PICK i \in DOMAIN all : p = all[i]
    BY <2>1 DEF ToSet
  <2>4. all[i] \in Framed
    BY <2>2, <2>3, LenProperties, ElementOfSeq
  <2> QED
    BY <2>3, <2>4 DEF Framed
<1> QED
  BY <1>2 DEF Types, TypeOK

\* Whatever bytes arrive and however they are cut into chunks, what is handed on
\* as a packet has the length its header states, and what is kept for the next
\* chunk is less than a packet (the loop of separateMqttPacketByteBuffers).
THEOREM TypeCorrect == Spec => []TypeOK
<1>1. Init => Types
  BY TypesInit
<1>2. Types /\ [Next]_vars => Types'
  BY TypesNext
<1>3. Types => TypeOK
  BY TypesHold
<1> QED
  BY <1>1, <1>2, <1>3, PTL DEF Spec

-----------------------------------------------------------------------------
(* The bytes that arrive are the packets that were sent.                    *)

\* The packets taken so far, the bytes behind them that were kept, and those that
\* are coming: with the packets sent and the bytes that arrived.
Consistent(line, kept, coming, packets, bytes, live) ==
    /\ FlattenSeq(line) \o kept = bytes
    /\ \E rest \in Seq(Whole) :
          /\ packets = line \o rest
          /\ live => kept \o coming = FlattenSeq(rest)

Line == handled \o Waiting

\* An emptied connection.
LEMMA ConsistentStart ==
    ASSUME NEW live
    PROVE  Consistent(<<>>, <<>>, <<>>, <<>>, <<>>, live)
<1>1. FlattenSeq(<<>>) = <<>>
  BY FlattenSeqEmpty
<1>2. <<>> \o <<>> = <<>>
  <2>1. <<>> \in Seq(Byte)
    BY EmptySeq
  <2> QED
    BY <2>1, ConcatEmptySeq
<1>3. <<>> \in Seq(Whole)
  BY EmptySeq
<1> QED
  BY <1>1, <1>2, <1>3 DEF Consistent

\* The broker sends a packet.
LEMMA ConsistentSends ==
    ASSUME NEW line \in Seq(Framed), NEW kept \in Seq(Byte), NEW coming \in Seq(Byte),
           NEW packets \in Seq(Whole), NEW bytes, NEW p \in Whole,
           Consistent(line, kept, coming, packets, bytes, TRUE)
    PROVE  Consistent(line, kept, coming \o p, Append(packets, p), bytes, TRUE)
<1>1. PICK rest \in Seq(Whole) : packets = line \o rest /\ kept \o coming = FlattenSeq(rest)
  BY DEF Consistent
<1>2. Append(rest, p) \in Seq(Whole)
  BY AppendProperties
<1>3. Append(packets, p) = line \o Append(rest, p)
  <2>1. Whole \subseteq Framed
    BY DEF Whole
  <2>2. PICK E : E = Framed
    OBVIOUS
  <2>3. line \in Seq(E) /\ rest \in Seq(E) /\ p \in E
    BY <2>1, <2>2, SeqMonotonic
  <2>4. line \o Append(rest, p) = Append(line \o rest, p)
    BY <2>3, ConcatAppend
  <2> QED
    BY <1>1, <2>4
<1>4. FlattenSeq(Append(rest, p)) = FlattenSeq(rest) \o p
  BY WholeTyped, WholesTyped, FlattenSeqAppend
<1>5. kept \o (coming \o p) = (kept \o coming) \o p
  <2>1. p \in Seq(Byte)
    BY WholeTyped
  <2>2. Glued(Glued(kept, coming), p) = Glued(kept, Glued(coming, p))
    BY <2>1, GluedAssociative
  <2> QED
    BY ONLY <2>2 DEF Glued
<1> QED
  BY <1>1, <1>2, <1>3, <1>4, <1>5 DEF Consistent

\* A chunk arrives.
LEMMA ConsistentArrives ==
    ASSUME NEW line \in Seq(Framed), NEW kept \in Seq(Byte), NEW chunk \in Seq(Byte),
           NEW coming \in Seq(Byte), NEW packets, NEW bytes, NEW full, NEW r,
           full = kept \o chunk, r.packets \in Seq(Framed), Left(full, r) \in Seq(Byte),
           Divides(full, full, r),
           Consistent(line, kept, chunk \o coming, packets, bytes, TRUE)
    PROVE  Consistent(line \o r.packets, Left(full, r), coming, packets, bytes \o chunk, TRUE)
<1>1. PICK rest \in Seq(Whole) :
         packets = line \o rest /\ kept \o (chunk \o coming) = FlattenSeq(rest)
  BY DEF Consistent
<1>2. PICK cut \in Seq(Framed) : cut = r.packets
  OBVIOUS
<1>3. PICK left \in Seq(Byte) : left = Left(full, r)
  OBVIOUS
<1>4. Framed \subseteq Seq(Byte) /\ Whole \subseteq Framed
  BY DEF Whole, Framed
<1>5. line \in Seq(Seq(Byte)) /\ cut \in Seq(Seq(Byte))
  BY <1>4, SeqMonotonic
<1>6. full \in Seq(Byte)
  BY ConcatProperties
<1>7. full \o coming = FlattenSeq(rest)
  <2>1. (kept \o chunk) \o coming = kept \o (chunk \o coming)
    <3>1. Glued(Glued(kept, chunk), coming) = Glued(kept, Glued(chunk, coming))
      BY GluedAssociative
    <3> QED
      BY ONLY <3>1 DEF Glued
  <2> QED
    BY <1>1, <2>1
<1>8. PICK L2 \in Seq(Whole) : rest = cut \o L2 /\ left \o coming = FlattenSeq(L2)
  BY <1>2, <1>3, <1>7 DEF Divides
<1>9. L2 \in Seq(Seq(Byte)) /\ FlattenSeq(L2) \in Seq(Byte)
  BY WholesTyped
<1>10. FlattenSeq(cut) \in Seq(Byte) /\ FlattenSeq(line) \in Seq(Byte)
  <2>1. <<>> \in Seq(Byte)
    BY EmptySeq
  <2> QED
    BY <1>5, <2>1, FlattenSeqAppend
<1>11. PICK taken \in Seq(Byte), before \in Seq(Byte) : taken = FlattenSeq(cut) /\ before = FlattenSeq(line)
  BY <1>10
<1>12. full = taken \o left
  <2>1. FlattenSeq(rest) = taken \o (left \o coming)
    BY <1>5, <1>8, <1>9, <1>11, FlattenSeqConcat
  <2>2. (taken \o left) \o coming = taken \o (left \o coming)
    <3>1. Glued(Glued(taken, left), coming) = Glued(taken, Glued(left, coming))
      BY <1>3, <1>11, GluedAssociative
    <3> QED
      BY ONLY <3>1 DEF Glued
  <2>3. taken \o left \in Seq(Byte)
    BY ConcatProperties
  <2>4. \A t, u, v \in Seq(Byte) : t \o v = u \o v => t = u
    BY ConcatSimplifications
  <2>5. full \o coming = (taken \o left) \o coming
    BY <1>7, <2>1, <2>2
  <2> QED
    BY <1>6, <2>3, <2>4, <2>5
<1>13. FlattenSeq(line \o cut) = before \o taken
  BY <1>5, <1>11, FlattenSeqConcat
<1>14. bytes = before \o kept
  BY <1>11 DEF Consistent
<1>15. (before \o kept) \o chunk = (before \o taken) \o left
  <2>1. Glued(Glued(before, kept), chunk) = Glued(before, Glued(kept, chunk))
    BY <1>11, GluedAssociative
  <2>2. Glued(Glued(before, taken), left) = Glued(before, Glued(taken, left))
    BY <1>3, <1>11, GluedAssociative
  <2>3. Glued(kept, chunk) = Glued(taken, left)
    BY <1>12 DEF Glued
  <2>4. Glued(Glued(before, kept), chunk) = Glued(Glued(before, taken), left)
    BY <2>1, <2>2, <2>3
  <2> QED
    BY ONLY <2>4 DEF Glued
<1>16. packets = (line \o cut) \o L2
  <2>1. (line \o cut) \o L2 = line \o (cut \o L2)
    <3>1. Glued(Glued(line, cut), L2) = Glued(line, Glued(cut, L2))
      BY <1>5, <1>9, GluedAssociative
    <3> QED
      BY ONLY <3>1 DEF Glued
  <2> QED
    BY <1>1, <1>8, <2>1
<1> QED
  BY <1>2, <1>3, <1>8, <1>13, <1>14, <1>15, <1>16 DEF Consistent

\* A packet goes from the front of a queue to those that are handled.
LEMMA MovesOne ==
    ASSUME NEW E, NEW h \in Seq(E), NEW p \in Seq(E), NEW q \in Seq(E), p # <<>>
    PROVE  Glued(Append(h, Head(p)), Glued(Tail(p), q)) = Glued(h, Glued(p, q))
<1>1. Head(p) \in E /\ Tail(p) \in Seq(E) /\ p = <<Head(p)>> \o Tail(p)
  BY HeadThenTail
<1>2. PICK e \in E, t \in Seq(E) : e = Head(p) /\ t = Tail(p)
  BY <1>1
<1>3. PICK one \in Seq(E) : one = <<e>> /\ p = one \o t
  <2>1. <<e>> \in Seq(E) /\ p = <<e>> \o t
    BY <1>1, <1>2
  <2> QED
    BY <2>1
<1>4. Append(h, e) = h \o one
  BY <1>3, AppendIsConcat
<1>5. Glued(t, q) \in Seq(E)
  <2>1. t \o q \in Seq(E)
    BY ConcatProperties
  <2> QED
    BY <2>1 DEF Glued
<1>6. Glued(Glued(h, one), Glued(t, q)) = Glued(h, Glued(one, Glued(t, q)))
  BY <1>5, GluedAssociative
<1>7. Glued(Glued(one, t), q) = Glued(one, Glued(t, q))
  BY GluedAssociative
<1>8. Glued(Append(h, e), Glued(t, q)) = Glued(h, Glued(p, q))
  <2>1. Append(h, e) = Glued(h, one) /\ p = Glued(one, t)
    BY <1>3, <1>4 DEF Glued
  <2> QED
    BY <1>6, <1>7, <2>1
<1> QED
  BY <1>2, <1>8

\* The packets of a chunk go behind the others.
LEMMA GluedFour ==
    ASSUME NEW E, NEW s \in Seq(E), NEW t \in Seq(E), NEW u \in Seq(E), NEW v \in Seq(E)
    PROVE  Glued(s, Glued(t, Glued(u, v))) = Glued(Glued(s, Glued(t, u)), v)
<1>1. Glued(t, u) \in Seq(E)
  <2>1. t \o u \in Seq(E)
    BY ConcatProperties
  <2> QED
    BY <2>1 DEF Glued
<1>2. Glued(Glued(t, u), v) = Glued(t, Glued(u, v))
  BY GluedAssociative
<1>3. Glued(Glued(s, Glued(t, u)), v) = Glued(s, Glued(Glued(t, u), v))
  BY <1>1, GluedAssociative
<1> QED
  BY <1>2, <1>3

LEMMA PacketsConcat ==
    \A s, t, u, v \in Seq(Framed) : s \o (t \o (u \o v)) = (s \o (t \o u)) \o v
<1> TAKE s, t, u, v \in Seq(Framed)
<1>1. Glued(s, Glued(t, Glued(u, v))) = Glued(Glued(s, Glued(t, u)), v)
  BY GluedFour
<1> QED
  BY ONLY <1>1 DEF Glued

LEMMA LineTyped ==
    ASSUME Types
    PROVE  Line \in Seq(Framed)
<1>1. /\ m_inQueueData \in Seq(Framed) /\ m_inProgressData \in Seq(Framed) /\ handled \in Seq(Framed)
  BY DEF Types
<1>2. PICK front : front = IF batch = "handled" /\ m_inProgressData # <<>> THEN Tail(m_inProgressData)
                                                                       ELSE m_inProgressData
  OBVIOUS
<1>3. front \in Seq(Framed)
  <2>1. m_inProgressData # <<>> => Tail(m_inProgressData) \in Seq(Framed)
    BY <1>1, HeadTailProperties
  <2> QED
    BY <1>1, <1>2, <2>1
<1>4. front \o m_inQueueData \in Seq(Framed)
  BY <1>1, <1>3, ConcatProperties
<1>5. handled \o (front \o m_inQueueData) \in Seq(Framed)
  BY <1>1, <1>4, ConcatProperties
<1> QED
  BY <1>2, <1>5 DEF Line, Waiting

LEMMA LineGrows ==
    ASSUME Types, NEW cut \in Seq(Framed),
           m_inQueueData' = m_inQueueData \o cut,
           m_inProgressData' = m_inProgressData, batch' = batch, handled' = handled
    PROVE  Line' = Line \o cut
<1>1. /\ m_inQueueData \in Seq(Framed) /\ m_inProgressData \in Seq(Framed) /\ handled \in Seq(Framed)
  BY DEF Types
<1>2. PICK front : front = IF batch = "handled" /\ m_inProgressData # <<>> THEN Tail(m_inProgressData)
                                                                       ELSE m_inProgressData
  OBVIOUS
<1>3. front \in Seq(Framed)
  <2>1. m_inProgressData # <<>> => Tail(m_inProgressData) \in Seq(Framed)
    BY <1>1, HeadTailProperties
  <2> QED
    BY <1>1, <1>2, <2>1
<1>4. Waiting = front \o m_inQueueData /\ Waiting' = front \o m_inQueueData'
  BY <1>2 DEF Waiting
<1>5. handled \o (front \o (m_inQueueData \o cut)) = (handled \o (front \o m_inQueueData)) \o cut
  <2>1. \A t, u, v \in Seq(Framed) : handled \o (t \o (u \o v)) = (handled \o (t \o u)) \o v
    BY ONLY <1>1, PacketsConcat, Zenon
  <2>2. \A u, v \in Seq(Framed) : handled \o (front \o (u \o v)) = (handled \o (front \o u)) \o v
    BY ONLY <1>3, <2>1, Zenon
  <2>3. \A v \in Seq(Framed) :
           handled \o (front \o (m_inQueueData \o v)) = (handled \o (front \o m_inQueueData)) \o v
    BY ONLY <1>1, <2>2, Zenon
  <2> QED
    BY <2>3
<1> QED
  BY <1>4, <1>5 DEF Line

\* The packets of a batch are handled one by one, and both queues are one line.
IdleEmpty == batch = "idle" => m_inProgressData = <<>>

LEMMA IdleEmptyNext == Types /\ IdleEmpty /\ [Next]_vars => IdleEmpty'
<1> SUFFICES ASSUME Types, IdleEmpty, [Next]_vars PROVE IdleEmpty'
  OBVIOUS
<1>1. ASSUME NEW body \in Bodies, BrokerSends(body) PROVE IdleEmpty'
  BY <1>1 DEF BrokerSends, queueVars, IdleEmpty
<1>2. CASE SocketDataReceived
  BY <1>2 DEF SocketDataReceived, IdleEmpty
<1>3. CASE SocketCloses
  BY <1>3 DEF SocketCloses, queueVars, IdleEmpty
<1>4. CASE ReceiveNextBatch
  BY <1>4 DEF ReceiveNextBatch, BeginBatch, HandlePacket, PopPacket, EndBatch, IdleEmpty
<1>5. CASE HandleRedirection
  BY <1>5 DEF HandleRedirection, IdleEmpty
<1>6. CASE DecodeFails
  BY <1>6 DEF DecodeFails, IdleEmpty
<1>7. CASE Connect
  BY <1>7 DEF Connect, NewConnection, ClearQueues, IdleEmpty
<1>8. CASE UNCHANGED vars
  BY <1>8 DEF vars, queueVars, IdleEmpty
<1> QED
  BY <1>1, <1>2, <1>3, <1>4, <1>5, <1>6, <1>7, <1>8 DEF Next

LEMMA LineOfBatch ==
    ASSUME Types, IdleEmpty, ReceiveNextBatch
    PROVE  Line' = Line
<1>1. /\ m_inQueueData \in Seq(Framed) /\ m_inProgressData \in Seq(Framed) /\ handled \in Seq(Framed)
  BY DEF Types
<1>2. CASE BeginBatch
  <2>1. /\ m_inProgressData = <<>> /\ m_inProgressData' = m_inQueueData /\ m_inQueueData' = <<>>
        /\ batch = "idle" /\ batch' = "next" /\ handled' = handled
    BY <1>2 DEF BeginBatch, Swap, IdleEmpty
  <2>2. <<>> \o m_inQueueData = m_inQueueData /\ m_inQueueData \o <<>> = m_inQueueData
    BY <1>1, ConcatEmptySeq
  <2>3. Waiting = <<>> \o m_inQueueData
    BY <2>1 DEF Waiting
  <2>4. Waiting' = m_inQueueData \o <<>>
    BY <2>1 DEF Waiting
  <2> QED
    BY <2>1, <2>2, <2>3, <2>4 DEF Line
<1>3. CASE HandlePacket
  <2>1. /\ batch = "next" /\ m_inProgressData # <<>> /\ batch' = "handled"
        /\ handled' = Append(handled, Head(m_inProgressData))
        /\ m_inQueueData' = m_inQueueData /\ m_inProgressData' = m_inProgressData
    BY <1>3 DEF HandlePacket, Handling
  <2>2. Waiting = m_inProgressData \o m_inQueueData
    BY <2>1 DEF Waiting
  <2>3. Waiting' = Tail(m_inProgressData) \o m_inQueueData
    BY <2>1 DEF Waiting
  <2>4. Append(handled, Head(m_inProgressData)) \o (Tail(m_inProgressData) \o m_inQueueData)
           = handled \o (m_inProgressData \o m_inQueueData)
    <3>1. Glued(Append(handled, Head(m_inProgressData)), Glued(Tail(m_inProgressData), m_inQueueData))
             = Glued(handled, Glued(m_inProgressData, m_inQueueData))
      BY <1>1, <2>1, MovesOne
    <3> QED
      BY ONLY <3>1 DEF Glued
  <2> QED
    BY <2>1, <2>2, <2>3, <2>4 DEF Line
<1>4. CASE PopPacket
  <2>1. /\ batch = "handled" /\ batch' = "next" /\ handled' = handled /\ m_inQueueData' = m_inQueueData
        /\ m_inProgressData' = IF m_inProgressData = <<>> THEN <<>> ELSE Tail(m_inProgressData)
    BY <1>4 DEF PopPacket
  <2>2. Waiting' = Waiting
    BY <2>1, Zenon DEF Waiting
  <2> QED
    BY <2>1, <2>2 DEF Line
<1>5. CASE EndBatch
  <2>1. /\ batch = "next" /\ batch' = "idle" /\ handled' = handled
        /\ m_inQueueData' = m_inQueueData /\ m_inProgressData' = m_inProgressData
    BY <1>5 DEF EndBatch
  <2>2. Waiting' = Waiting
    BY <2>1 DEF Waiting
  <2> QED
    BY <2>1, <2>2 DEF Line
<1> QED
  BY <1>2, <1>3, <1>4, <1>5 DEF ReceiveNextBatch

\* Every byte of the stream is of a packet that was sent.
StreamSent == \A i \in 1 .. Len(stream) : stream[i].packet \in 1 .. Len(sent)

LEMMA StreamSentNext == Types /\ StreamSent /\ [Next]_vars => StreamSent'
<1> SUFFICES ASSUME Types, StreamSent, [Next]_vars PROVE StreamSent'
  OBVIOUS
<1>1. stream \in Seq(Byte) /\ sent \in Seq(Whole)
  BY DEF Types
<1>2. PICK len \in Nat, m \in Nat : len = Len(stream) /\ m = Len(sent)
  BY <1>1, LenProperties
<1>3. Len(<<>>) = 0
  OBVIOUS
<1>4. ASSUME stream' = <<>> PROVE StreamSent'
  BY <1>3, <1>4 DEF StreamSent
<1>5. ASSUME stream' = stream, sent' = sent PROVE StreamSent'
  BY <1>5 DEF StreamSent
<1>6. ASSUME NEW body \in Bodies, BrokerSends(body) PROVE StreamSent'
  <2>1. body \in Nat
    BY FramingAssumption DEF FramingAssumption
  <2>2. PICK p \in Whole : p = Packet(m + 1, body) /\ \A i \in 1 .. Len(p) : p[i].packet = m + 1
    <3>1. PICK n \in Nat : n = m + 1
      OBVIOUS
    <3>2. /\ Packet(n, body) \in Whole
          /\ \A i \in 1 .. Len(Packet(n, body)) : Packet(n, body)[i].packet = n
      BY <2>1, PacketWhole
    <3> QED
      BY <3>1, <3>2
  <2>3. sent' = Append(sent, p) /\ stream' = stream \o p
    BY <1>2, <1>6, <2>2 DEF BrokerSends
  <2>4. Len(sent') = m + 1
    BY <1>1, <1>2, <2>3, AppendProperties
  <2>5. p \in Seq(Byte) /\ Len(p) \in Nat
    BY WholeTyped
  <2>6. /\ Len(stream') = len + Len(p)
        /\ \A i \in 1 .. len + Len(p) : stream'[i] = IF i <= len THEN stream[i] ELSE p[i - len]
    BY <1>1, <1>2, <2>3, <2>5, ConcatProperties
  <2>7. ASSUME NEW i \in 1 .. len + Len(p) PROVE stream'[i].packet \in 1 .. m + 1
    <3>1. CASE i <= len
      <4>1. stream[i].packet \in 1 .. m
        BY <1>2, <3>1 DEF StreamSent
      <4> QED
        BY <2>6, <3>1, <4>1
    <3>2. CASE ~(i <= len)
      <4>1. i - len \in 1 .. Len(p)
        BY <2>5, <3>2
      <4>2. stream'[i].packet = m + 1
        BY <2>2, <2>6, <3>2, <4>1
      <4> QED
        BY <4>2
    <3> QED
      BY <3>1, <3>2
  <2> QED
    BY <2>4, <2>6, <2>7 DEF StreamSent
<1>7. CASE SocketDataReceived
  <2>1. PICK k \in 1 .. len : stream' = SubSeq(stream, k + 1, len)
    <3>1. PICK k \in Chunks : stream' = SubSeq(stream, k + 1, Len(stream))
      BY <1>7, Zenon DEF SocketDataReceived
    <3>2. k \in DOMAIN stream
      BY DEF Chunks
    <3>3. k \in 1 .. len
      BY <1>1, <1>2, <3>2, LenProperties
    <3> QED
      BY <1>2, <3>1, <3>3
  <2>2. PICK a \in Int : a = k + 1
    OBVIOUS
  <2>3. \A i \in a .. len : stream[i] \in Byte
    BY <1>1, <1>2, <2>2, ElementOfSeq
  <2>4. /\ Len(stream') = IF a <= len THEN len - a + 1 ELSE 0
        /\ \A i \in 1 .. len - a + 1 : stream'[i] = stream[a + i - 1]
    BY <2>1, <2>2, <2>3, SubSeqProperties
  <2>5. sent' = sent
    BY <1>7 DEF SocketDataReceived
  <2>6. ASSUME NEW i \in 1 .. Len(stream') PROVE stream'[i].packet \in 1 .. m
    <3>1. i \in 1 .. len - a + 1 /\ a + i - 1 \in 1 .. len
      BY <2>2, <2>4
    <3>2. stream[a + i - 1].packet \in 1 .. m
      BY <1>2, <3>1 DEF StreamSent
    <3> QED
      BY <2>4, <3>1, <3>2
  <2> QED
    BY <1>2, <2>5, <2>6 DEF StreamSent
<1>8. CASE SocketCloses \/ DecodeFails \/ HandleRedirection \/ Connect
  <2>1. stream' = <<>>
    BY <1>8 DEF SocketCloses, DecodeFails, HandleRedirection, Connect, NewConnection
  <2> QED
    BY <1>4, <2>1
<1>9. CASE ReceiveNextBatch \/ UNCHANGED vars
  <2>1. stream' = stream /\ sent' = sent
    BY <1>9 DEF ReceiveNextBatch, BeginBatch, HandlePacket, PopPacket, EndBatch, vars, brokerVars
  <2> QED
    BY <1>5, <2>1
<1> QED
  BY <1>6, <1>7, <1>8, <1>9 DEF Next

Kept == intact => Consistent(Line, Unframed, stream, sent, arrived, connected)

\* What is read from m_leftOverBuffer while it is intact are the bytes kept.
LEMMA ReadsUnframed ==
    ASSUME Types, SocketDataReceived, intact'
    PROVE  intact /\ Unframed = m_leftOverBuffer
BY DEF Types, SocketDataReceived, Unframed

LEMMA UnframedTyped == Types => Unframed \in Seq(Byte)
<1>1. <<>> \in Seq(Byte)
  BY EmptySeq
<1> QED
  BY <1>1 DEF Types, Unframed

\* A chunk does not end with the first byte of a packet.
LEMMA NoLoneByte ==
    ASSUME 1 \notin Cuts, Types, StreamSent,
           NEW k \in Chunks, k \in 1 .. Len(stream)
    PROVE  stream[k].at # 1
<1>1. stream \in Seq(Byte) /\ sent \in Seq(Whole)
  BY DEF Types
<1>2. stream[k].packet \in 1 .. Len(sent)
  BY DEF StreamSent
<1>3. PICK p \in Whole : p = sent[stream[k].packet]
  BY <1>1, <1>2, ElementOfSeq
<1>4. PICK n \in Nat : n = Len(p) /\ n >= 2
  BY WholeTyped
<1>5. stream[k].at % n \in Cuts
  BY <1>3, <1>4 DEF Chunks
<1>6. 1 % n = 1
  BY <1>4
<1> QED
  BY <1>5, <1>6

LEMMA KeptArrives ==
    ASSUME 1 \notin Cuts, Types, StreamSent, Kept, SocketDataReceived, intact'
    PROVE  Consistent(Line, Unframed, stream, sent, arrived, connected)'
<1>1. PICK r : \E k \in Chunks, chunk \in Seq(Byte), rest \in Seq(Byte), full \in Seq(Byte) :
         /\ k \in 1 .. Len(stream)
         /\ Len(chunk) = k /\ chunk[k] = stream[k] /\ stream = chunk \o rest
         /\ full = m_leftOverBuffer \o chunk /\ r = Separate(full) /\ Tidy(full, r)
         /\ m_inQueueData' = m_inQueueData \o r.packets
         /\ m_leftOverBuffer' = LeftOver(full, r.leftOver)
         /\ fresh' = (r.leftOver > 0)
         /\ arrived' = arrived \o chunk
         /\ stream' = rest
  BY Arrival
<1>2. PICK k \in Chunks, chunk \in Seq(Byte), rest \in Seq(Byte), full \in Seq(Byte) :
         /\ k \in 1 .. Len(stream)
         /\ Len(chunk) = k /\ chunk[k] = stream[k] /\ stream = chunk \o rest
         /\ full = m_leftOverBuffer \o chunk /\ r = Separate(full) /\ Tidy(full, r)
         /\ m_inQueueData' = m_inQueueData \o r.packets
         /\ m_leftOverBuffer' = LeftOver(full, r.leftOver)
         /\ fresh' = (r.leftOver > 0)
         /\ arrived' = arrived \o chunk
         /\ stream' = rest
  BY <1>1
<1>3. intact /\ Unframed = m_leftOverBuffer /\ m_leftOverBuffer \in Seq(Byte)
  BY ReadsUnframed DEF Types
<1>4. connected = TRUE /\ connected' = TRUE /\ sent' = sent /\ batch' = batch /\ handled' = handled
      /\ m_inProgressData' = m_inProgressData
  BY DEF SocketDataReceived
<1>5. Consistent(Line, m_leftOverBuffer, chunk \o rest, sent, arrived, TRUE)
  BY <1>2, <1>3, <1>4 DEF Kept
<1>6. ~LoneByte(full)
  <2>1. stream[k].at # 1
    BY <1>2, NoLoneByte
  <2>2. PICK m \in Nat : m = Len(m_leftOverBuffer)
    BY <1>3, LenProperties
  <2>3. k \in Nat /\ k >= 1
    <3>1. Len(stream) \in Nat
      BY LenProperties DEF Types
    <3> QED
      BY <1>2, <3>1
  <2>4. /\ Len(full) = m + k
        /\ \A i \in 1 .. m + k : full[i] = IF i <= m THEN m_leftOverBuffer[i] ELSE chunk[i - m]
    BY <1>2, <1>3, <2>2, ConcatProperties
  <2>5. m + k \in 1 .. m + k /\ ~(m + k <= m) /\ (m + k) - m = k
    BY <2>3
  <2>6. full[m + k] = stream[k]
    BY <1>2, <2>4, <2>5
  <2> QED
    BY <2>1, <2>4, <2>6 DEF LoneByte
<1>7. Divides(full, full, r)
  BY <1>2, <1>6, SeparateDivides
<1>8. r.packets \in Seq(Framed)
  BY <1>2 DEF Tidy
<1>9. /\ r.leftOver > 0 => LeftOver(full, r.leftOver) = Left(full, r)
      /\ Left(full, r) \in Seq(Byte)
  BY <1>2, LeftOverTyped
<1>10. Consistent(Line \o r.packets, Left(full, r), rest, sent, arrived \o chunk, TRUE)
  <2>1. Line \in Seq(Framed)
    BY LineTyped
  <2> QED
    BY <1>2, <1>3, <1>5, <1>7, <1>8, <1>9, <2>1, ConsistentArrives
<1>11. Unframed' = Left(full, r)
  BY <1>2, <1>9 DEF Unframed, Left
<1>12. Line' = Line \o r.packets
  <2>1. PICK cut \in Seq(Framed) : cut = r.packets
    BY <1>8
  <2>2. Line' = Line \o cut
    BY <1>2, <1>4, <2>1, LineGrows
  <2> QED
    BY <2>1, <2>2
<1> QED
  BY <1>2, <1>4, <1>10, <1>11, <1>12

\* While the bytes are intact, every packet of a batch is one the broker sent.
LEMMA NothingFails ==
    ASSUME Types, Kept, intact, DecodeFails
    PROVE  FALSE
<1>1. /\ m_inQueueData \in Seq(Framed) /\ m_inProgressData \in Seq(Framed) /\ handled \in Seq(Framed)
  BY DEF Types
<1>2. /\ batch = "next" /\ m_inProgressData # <<>> /\ Head(m_inProgressData) \notin ToSet(sent)
  BY DEF DecodeFails, Handling
<1>3. Waiting = m_inProgressData \o m_inQueueData
  BY <1>2 DEF Waiting
<1>4. Head(m_inProgressData) \in ToSet(m_inProgressData)
  <2>1. Len(m_inProgressData) \in Nat \ {0}
    BY <1>1, <1>2, EmptySeq
  <2>2. 1 \in DOMAIN m_inProgressData
    BY <1>1, <2>1, LenProperties
  <2>3. Head(m_inProgressData) = m_inProgressData[1]
    BY <1>1, <1>2
  <2> QED
    BY <2>2, <2>3 DEF ToSet
<1>5. PICK rest \in Seq(Whole) : sent = Line \o rest
  BY DEF Kept, Consistent
<1>6. rest \in Seq(Framed)
  <2>1. Whole \subseteq Framed
    BY DEF Whole
  <2> QED
    BY <2>1, SeqMonotonic
<1>7. PICK E : E = Framed
  OBVIOUS
<1>8. PICK h \in Seq(E), p \in Seq(E), q \in Seq(E), w \in Seq(E) :
         h = handled /\ p = m_inProgressData /\ q = m_inQueueData /\ w = rest
  BY <1>1, <1>6, <1>7
<1>9. ToSet(p \o q) = ToSet(p) \union ToSet(q) /\ p \o q \in Seq(E)
  BY ElementsConcat, ConcatProperties
<1>10. PICK pq \in Seq(E) : pq = p \o q
  BY <1>9
<1>11. ToSet(h \o pq) = ToSet(h) \union ToSet(pq) /\ h \o pq \in Seq(E)
  BY ElementsConcat, ConcatProperties
<1>12. PICK line \in Seq(E) : line = h \o pq
  BY <1>11
<1>13. ToSet(line \o w) = ToSet(line) \union ToSet(w)
  BY ElementsConcat
<1>14. sent = line \o w
  BY <1>3, <1>5, <1>8, <1>10, <1>12 DEF Line
<1>15. Head(m_inProgressData) \in ToSet(line \o w)
  BY <1>4, <1>8, <1>9, <1>10, <1>11, <1>12, <1>13
<1> QED
  BY <1>2, <1>14, <1>15

\* A new connection has nothing yet.
LEMMA KeptNewConnection ==
    ASSUME NewConnection
    PROVE  Consistent(Line, Unframed, stream, sent, arrived, connected)'
<1>1. /\ m_inQueueData' = <<>> /\ m_inProgressData' = <<>> /\ stream' = <<>> /\ sent' = <<>>
      /\ handled' = <<>> /\ arrived' = <<>> /\ fresh' = FALSE
  BY DEF NewConnection, ClearQueues
<1>2. <<>> \o <<>> = <<>>
  <2>1. <<>> \in Seq(Byte)
    BY EmptySeq
  <2> QED
    BY <2>1, ConcatEmptySeq
<1>3. Waiting' = <<>> \o <<>>
  BY <1>1 DEF Waiting
<1>4. Line' = <<>> /\ Unframed' = <<>>
  BY <1>1, <1>2, <1>3 DEF Line, Unframed
<1>5. PICK live : live = connected'
  OBVIOUS
<1>6. Consistent(<<>>, <<>>, <<>>, <<>>, <<>>, live)
  BY ConsistentStart
<1> QED
  BY <1>1, <1>4, <1>5, <1>6

LEMMA KeptInit == Init => Kept
<1> SUFFICES ASSUME Init PROVE Kept
  OBVIOUS
<1>1. <<>> \o <<>> = <<>>
  <2>1. <<>> \in Seq(Byte)
    BY EmptySeq
  <2> QED
    BY <2>1, ConcatEmptySeq
<1>2. Line = <<>> /\ Unframed = <<>>
  BY <1>1 DEF Init, Line, Waiting, Unframed
<1>3. Consistent(<<>>, <<>>, <<>>, <<>>, <<>>, connected)
  BY ConsistentStart
<1> QED
  BY <1>2, <1>3 DEF Init, Kept

LEMMA KeptNext ==
    ASSUME 1 \notin Cuts
    PROVE  Types /\ IdleEmpty /\ StreamSent /\ Kept /\ [Next]_vars => Kept'
<1> SUFFICES ASSUME Types, IdleEmpty, StreamSent, Kept, [Next]_vars, intact'
             PROVE  Consistent(Line, Unframed, stream, sent, arrived, connected)'
  BY DEF Kept
<1>1. ASSUME intact = intact', fresh = fresh', m_leftOverBuffer = m_leftOverBuffer',
             Line' = Line, stream' = stream, sent' = sent, arrived' = arrived, connected' = connected
      PROVE  Consistent(Line, Unframed, stream, sent, arrived, connected)'
  <2>1. Unframed' = Unframed
    BY <1>1 DEF Unframed
  <2>2. Consistent(Line, Unframed, stream, sent, arrived, connected)
    BY <1>1 DEF Kept
  <2> QED
    BY <1>1, <2>1, <2>2
<1>2. ASSUME NEW body \in Bodies, BrokerSends(body)
      PROVE  Consistent(Line, Unframed, stream, sent, arrived, connected)'
  <2>1. sent \in Seq(Whole) /\ stream \in Seq(Byte) /\ Line \in Seq(Framed) /\ Unframed \in Seq(Byte)
    BY LineTyped, UnframedTyped DEF Types
  <2>2. PICK n \in Nat : n = Len(sent) + 1
    BY <2>1, LenProperties
  <2>3. body \in Nat
    BY FramingAssumption DEF FramingAssumption
  <2>4. PICK p \in Whole : p = Packet(n, body)
    BY <2>3, PacketWhole
  <2>5. sent' = Append(sent, p) /\ stream' = stream \o p
    BY <1>2, <2>2, <2>4 DEF BrokerSends
  <2>6. connected = TRUE /\ connected' = TRUE /\ intact' = intact /\ arrived' = arrived
    BY <1>2 DEF BrokerSends, leftOverVars, Types
  <2>7. Line' = Line /\ Unframed' = Unframed
    BY <1>2 DEF BrokerSends, leftOverVars, queueVars, Line, Waiting, Unframed
  <2>8. Consistent(Line, Unframed, stream, sent, arrived, TRUE)
    BY <2>6 DEF Kept
  <2>9. Consistent(Line, Unframed, stream \o p, Append(sent, p), arrived, TRUE)
    BY <2>1, <2>8, ConsistentSends
  <2> QED
    BY <2>5, <2>6, <2>7, <2>9
<1>3. CASE SocketDataReceived
  BY <1>3, KeptArrives
<1>4. CASE SocketCloses
  <2>1. /\ Line' = Line /\ Unframed' = Unframed /\ intact' = intact /\ sent' = sent
        /\ arrived' = arrived /\ connected' = FALSE
    BY <1>4 DEF SocketCloses, leftOverVars, queueVars, Line, Waiting, Unframed
  <2>2. Consistent(Line, Unframed, stream, sent, arrived, connected)
    BY <2>1 DEF Kept
  <2>3. \A coming : Consistent(Line, Unframed, coming, sent, arrived, FALSE)
    BY <2>2 DEF Consistent
  <2> QED
    BY <2>1, <2>3
<1>5. CASE ReceiveNextBatch
  <2>1. Line' = Line
    BY <1>5, LineOfBatch
  <2>2. /\ intact = intact' /\ fresh = fresh' /\ m_leftOverBuffer = m_leftOverBuffer'
        /\ stream' = stream /\ sent' = sent /\ arrived' = arrived /\ connected' = connected
    BY <1>5 DEF ReceiveNextBatch, BeginBatch, HandlePacket, PopPacket, EndBatch, leftOverVars, brokerVars
  <2> QED
    BY <1>1, <2>1, <2>2
<1>6. CASE HandleRedirection \/ Connect
  BY <1>6, KeptNewConnection DEF HandleRedirection, Connect
<1>7. CASE DecodeFails
  <2>1. intact
    BY <1>7 DEF DecodeFails, leftOverVars
  <2> QED
    BY <1>7, <2>1, NothingFails
<1>8. CASE UNCHANGED vars
  <2>1. Line' = Line
    BY <1>8 DEF vars, queueVars, Line, Waiting
  <2>2. /\ intact = intact' /\ fresh = fresh' /\ m_leftOverBuffer = m_leftOverBuffer'
        /\ stream' = stream /\ sent' = sent /\ arrived' = arrived /\ connected' = connected
    BY <1>8 DEF vars, leftOverVars, brokerVars
  <2> QED
    BY <1>1, <2>1, <2>2
<1> QED
  BY <1>2, <1>3, <1>4, <1>5, <1>6, <1>7, <1>8 DEF Next

LEMMA PrefixOfConcat ==
    ASSUME NEW E, NEW s \in Seq(E), NEW t \in Seq(E)
    PROVE  IsPrefix(s, s \o t)
<1>1. PICK m \in Nat, n \in Nat : m = Len(s) /\ n = Len(t)
  BY LenProperties
<1>2. s \o t \in Seq(E) /\ Len(s \o t) = m + n
  BY <1>1, ConcatProperties
<1>3. SubSeq(s, 1, m) = SubSeq(s \o t, 1, m)
  <2>1. CASE m = 0
    <3>1. PICK one \in Int : one = 1 /\ m < one
      BY <2>1
    <3>2. SubSeq(s, one, m) = <<>> /\ SubSeq(s \o t, one, m) = <<>>
      BY <3>1, SubSeqEmpty
    <3> QED
      BY <3>1, <3>2
  <2>2. CASE m # 0
    <3>1. PICK one \in 1 .. Len(s) : one = 1
      BY <1>1, <2>2
    <3>2. m \in 1 .. Len(s)
      BY <1>1, <2>2
    <3>3. SubSeq(s \o t, one, m) = SubSeq(s, one, m)
      BY <3>2, SubSeqOfConcat1
    <3> QED
      BY <3>1, <3>3
  <2> QED
    BY <2>1, <2>2
<1>4. Len(s) <= Len(s \o t)
  BY <1>1, <1>2
<1> QED
  BY <1>1, <1>3, <1>4 DEF IsPrefix

LEMMA KeptOrder == Types /\ Kept => BytesKeptWhileIntact /\ PacketsInOrder
<1> SUFFICES ASSUME Types, Kept, intact
             PROVE  BytesKept /\ IsPrefix(handled, sent)
  BY DEF BytesKeptWhileIntact, PacketsInOrder
<1>1. PICK rest \in Seq(Whole) : sent = Line \o rest
  BY DEF Kept, Consistent
<1>2. BytesKept
  BY DEF Kept, Consistent, BytesKept, Line
<1>3. IsPrefix(handled, sent)
  <2>1. PICK E : E = Framed
    OBVIOUS
  <2>2. rest \in Seq(E)
    <3>1. Whole \subseteq E
      BY <2>1 DEF Whole
    <3> QED
      BY <3>1, SeqMonotonic
  <2>3. PICK h \in Seq(E), q \in Seq(E), p \in Seq(E) :
           h = handled /\ q = m_inQueueData /\ p = m_inProgressData
    BY <2>1 DEF Types
  <2>4. PICK front \in Seq(E) : front = IF batch = "handled" /\ p # <<>> THEN Tail(p) ELSE p
    <3>1. p # <<>> => Tail(p) \in Seq(E)
      BY HeadTailProperties
    <3> QED
      BY <3>1
  <2>5. PICK w \in Seq(E) : w = front \o q
    BY ConcatProperties
  <2>6. Line = h \o w
    BY <2>3, <2>4, <2>5 DEF Line, Waiting
  <2>7. PICK more \in Seq(E) : more = rest
    BY <2>2
  <2>8. (h \o w) \o more = h \o (w \o more)
    <3>1. Glued(Glued(h, w), more) = Glued(h, Glued(w, more))
      BY GluedAssociative
    <3> QED
      BY ONLY <3>1 DEF Glued
  <2>9. PICK behind \in Seq(E) : behind = w \o more
    BY ConcatProperties
  <2>10. IsPrefix(h, h \o behind)
    BY PrefixOfConcat
  <2> QED
    BY <1>1, <2>3, <2>6, <2>7, <2>8, <2>9, <2>10
<1> QED
  BY <1>2, <1>3

\* Until m_leftOverBuffer is read when it holds bytes of an earlier packet or an
\* earlier connection, the packets handled, those in both queues and the bytes
\* kept are all that has arrived, in order, wherever the stream is cut except
\* behind the first byte of a packet (FramingLoneByte.cfg shows that exception).
THEOREM EveryByteKept ==
    ASSUME 1 \notin Cuts
    PROVE  Spec => []BytesKeptWhileIntact
<1> DEFINE Inv == Types /\ IdleEmpty /\ StreamSent /\ Kept
<1>1. Init => Inv
  BY TypesInit, KeptInit DEF Init, IdleEmpty, StreamSent
<1>2. Inv /\ [Next]_vars => Inv'
  BY TypesNext, IdleEmptyNext, StreamSentNext, KeptNext
<1>3. Inv => BytesKeptWhileIntact
  BY KeptOrder
<1> QED
  BY <1>1, <1>2, <1>3, PTL DEF Spec

\* Under the same conditions the packets that are handled are the first ones the
\* broker sent on this connection, in its order, none twice and none left out.
THEOREM HandledInOrder ==
    ASSUME 1 \notin Cuts
    PROVE  Spec => []PacketsInOrder
<1> DEFINE Inv == Types /\ IdleEmpty /\ StreamSent /\ Kept
<1>1. Init => Inv
  BY TypesInit, KeptInit DEF Init, IdleEmpty, StreamSent
<1>2. Inv /\ [Next]_vars => Inv'
  BY TypesNext, IdleEmptyNext, StreamSentNext, KeptNext
<1>3. Inv => PacketsInOrder
  BY KeptOrder
<1> QED
  BY <1>1, <1>2, <1>3, PTL DEF Spec

=============================================================================
