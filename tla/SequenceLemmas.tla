---------------------------- MODULE SequenceLemmas ---------------------------
(***************************************************************************)
(* Facts about natural numbers and sequences that the proofs about several *)
(* components rest on: induction in a first-order form, and what           *)
(* FlattenSeq, a recursive function of the community modules, computes for *)
(* every sequence of sequences.                                            *)
(***************************************************************************)
EXTENDS SequencesExt, SequenceTheorems, FiniteSetTheorems, TLAPS

\* Induction on the natural numbers for a set in place of a predicate: what
\* every proof about a recursive definition comes down to.
LEMMA Induction ==
    ASSUME NEW S \in SUBSET Nat, 0 \in S, \A n \in S : n + 1 \in S
    PROVE  S = Nat
<1> DEFINE R == {ss \in Nat \X Nat : ss[1] < ss[2]}
           T == Nat \ S
<1>1. IsWellFoundedOn(R, Nat)
  BY NatLessThanWellFounded DEF OpToRel
<1>2. SUFFICES ASSUME T # {} PROVE FALSE
  OBVIOUS
<1> HIDE DEF R
<1>3. PICK x \in T : \A y \in T : ~ (<<y, x>> \in R)
  BY <1>1, <1>2, WFMin
<1>4. x # 0 /\ x - 1 \in Nat /\ x - 1 < x
  BY <1>3
<1>5. x - 1 \notin T
  BY <1>3, <1>4 DEF R
<1>6. x - 1 + 1 \in S
  BY <1>4, <1>5
<1> QED
  BY <1>3, <1>4, <1>6

\* ConcatAssociative, for the sequences of bytes.
LEMMA BytesAssociative ==
    \A s, t, u \in Seq(Nat) : (s \o t) \o u = s \o (t \o u)
<1> DEFINE S == Nat
<1>1. \A s, t, u \in Seq(S) : (s \o t) \o u = s \o (t \o u)
  <2> HIDE DEF S
  <2> TAKE s, t, u \in Seq(S)
  <2> QED
    BY ConcatAssociative
<1> QED
  BY <1>1

\* Appending to a concatenation.
LEMMA ConcatAppend ==
    ASSUME NEW E, NEW s \in Seq(E), NEW t \in Seq(E), NEW e \in E
    PROVE  s \o Append(t, e) = Append(s \o t, e)
<1>1. /\ Len(s) \in Nat /\ Len(t) \in Nat
      /\ Append(t, e) \in Seq(E) /\ Len(Append(t, e)) = Len(t) + 1
      /\ \A i \in 1 .. Len(t) : Append(t, e)[i] = t[i]
      /\ Append(t, e)[Len(t) + 1] = e
  BY AppendProperties, LenProperties
<1>2. /\ s \o t \in Seq(E) /\ Len(s \o t) = Len(s) + Len(t)
      /\ \A i \in 1 .. Len(s) + Len(t) : (s \o t)[i] = IF i <= Len(s) THEN s[i] ELSE t[i - Len(s)]
  BY ConcatProperties
<1>3. /\ Append(s \o t, e) \in Seq(E) /\ Len(Append(s \o t, e)) = Len(s) + Len(t) + 1
      /\ \A i \in 1 .. Len(s) + Len(t) : Append(s \o t, e)[i] = (s \o t)[i]
      /\ Append(s \o t, e)[Len(s) + Len(t) + 1] = e
  BY <1>2, AppendProperties
<1>4. PICK a \in Seq(E) : a = Append(t, e)
  BY <1>1
<1>5. /\ s \o a \in Seq(E) /\ Len(s \o a) = Len(s) + Len(t) + 1
      /\ \A i \in 1 .. Len(s) + (Len(t) + 1) : (s \o a)[i] = IF i <= Len(s) THEN s[i] ELSE a[i - Len(s)]
  <2>1. Len(a) = Len(t) + 1
    BY <1>1, <1>4
  <2>2. /\ s \o a \in Seq(E) /\ Len(s \o a) = Len(s) + Len(a)
        /\ \A i \in 1 .. Len(s) + Len(a) : (s \o a)[i] = IF i <= Len(s) THEN s[i] ELSE a[i - Len(s)]
    BY ConcatProperties
  <2>3. Len(s) \in Nat /\ Len(t) \in Nat
    BY <1>1
  <2> QED
    BY ONLY <2>1, <2>2, <2>3
<1> DEFINE b == Append(s \o t, e)
<1>6. b \in Seq(E) /\ Len(b) = Len(s) + Len(t) + 1
  BY <1>3
<1> HIDE DEF b
<1>7. ASSUME NEW i \in 1 .. Len(s) + Len(t) + 1 PROVE (s \o a)[i] = b[i]
  <2>1. CASE i <= Len(s)
    <3>1. i \in 1 .. Len(s) + Len(t) /\ i \in 1 .. Len(s) + (Len(t) + 1)
      BY <1>1, <2>1
    <3>2. (s \o a)[i] = s[i]
      BY <1>5, <2>1, <3>1
    <3>3. b[i] = s[i]
      BY <1>2, <1>3, <2>1, <3>1 DEF b
    <3> QED
      BY <3>2, <3>3
  <2>2. CASE ~(i <= Len(s)) /\ i # Len(s) + Len(t) + 1
    <3>1. i \in 1 .. Len(s) + Len(t) /\ i \in 1 .. Len(s) + (Len(t) + 1) /\ i - Len(s) \in 1 .. Len(t)
      BY <1>1, <2>2
    <3>2. (s \o a)[i] = a[i - Len(s)]
      BY <1>5, <2>2, <3>1
    <3>3. b[i] = t[i - Len(s)]
      BY <1>2, <1>3, <2>2, <3>1 DEF b
    <3>4. a[i - Len(s)] = t[i - Len(s)]
      BY <1>1, <1>4, <3>1
    <3> QED
      BY <3>2, <3>3, <3>4
  <2>3. CASE i = Len(s) + Len(t) + 1
    <3>1. i \in 1 .. Len(s) + (Len(t) + 1) /\ ~(i <= Len(s)) /\ i - Len(s) = Len(t) + 1
      BY <1>1, <2>3
    <3>2. (s \o a)[i] = a[i - Len(s)]
      BY <1>5, <3>1
    <3>3. a[Len(t) + 1] = e
      BY <1>1, <1>4
    <3>4. b[i] = e
      BY <1>3, <2>3 DEF b
    <3> QED
      BY <3>1, <3>2, <3>3, <3>4
  <2> QED
    BY <2>1, <2>2, <2>3
<1>8. s \o a = b
  BY <1>5, <1>6, <1>7, SeqEqual
<1> QED
  BY <1>4, <1>8 DEF b

\* A recursion over the numbers up to n defines a function into the set its
\* steps stay in.
LEMMA FunctionByRecursion ==
    ASSUME NEW S, NEW b \in S, NEW F \in [Nat -> [S -> S]], NEW m \in Nat
    PROVE  \E f \in [0 .. m -> S] : f[0] = b /\ \A i \in 1 .. m : f[i] = F[i][f[i - 1]]
<1> DEFINE Is(f, n) == f[0] = b /\ \A i \in 1 .. n : f[i] = F[i][f[i - 1]]
           T == {n \in Nat : \E f \in [0 .. n -> S] : Is(f, n)}
<1>1. 0 \in T
  <2>1. [i \in 0 .. 0 |-> b] \in [0 .. 0 -> S] /\ Is([i \in 0 .. 0 |-> b], 0)
    OBVIOUS
  <2> QED
    BY <2>1
<1>2. ASSUME NEW n \in T PROVE n + 1 \in T
  <2>1. PICK f \in [0 .. n -> S] : Is(f, n)
    OBVIOUS
  <2> DEFINE g == [i \in 0 .. n + 1 |-> IF i = n + 1 THEN F[i][f[n]] ELSE f[i]]
  <2>2. F[n + 1][f[n]] \in S
    OBVIOUS
  <2>3. g \in [0 .. n + 1 -> S]
    BY <2>2
  <2>4. Is(g, n + 1)
    BY <2>1
  <2> HIDE DEF g, Is
  <2>5. n + 1 \in Nat /\ \E h \in [0 .. n + 1 -> S] : Is(h, n + 1)
    BY <2>3, <2>4
  <2> QED
    BY <2>5
<1>3. T = Nat
  <2> HIDE DEF T
  <2>1. T \in SUBSET Nat
    BY DEF T
  <2> QED
    BY <1>1, <1>2, <2>1, Induction
<1> QED
  BY <1>3

\* The elements of an empty sequence, with one more, and of a concatenation.
LEMMA ElementsEmpty == ToSet(<<>>) = {}
BY DEF ToSet

\* One element more.
LEMMA ElementsAppend ==
    ASSUME NEW E, NEW s \in Seq(E), NEW e \in E
    PROVE  ToSet(Append(s, e)) = ToSet(s) \union {e}
<1> DEFINE t == Append(s, e)
<1>1. /\ Len(s) \in Nat /\ DOMAIN s = 1 .. Len(s) /\ DOMAIN t = 1 .. Len(s) + 1
      /\ \A i \in 1 .. Len(s) : t[i] = s[i]
      /\ t[Len(s) + 1] = e
  <2>1. /\ t \in Seq(E) /\ Len(t) = Len(s) + 1
        /\ \A i \in 1 .. Len(s) : t[i] = s[i]
        /\ t[Len(s) + 1] = e
    BY AppendProperties
  <2> HIDE DEF t
  <2> QED
    BY <2>1, LenProperties
<1> HIDE DEF t
<1>2. \A i \in DOMAIN t : (i \in DOMAIN s /\ t[i] = s[i]) \/ (i = Len(s) + 1 /\ t[i] = e)
  BY <1>1
<1>3. \A i \in DOMAIN s : i \in DOMAIN t /\ t[i] = s[i]
  BY <1>1
<1>4. Len(s) + 1 \in DOMAIN t
  BY <1>1
<1>5. ToSet(t) = ToSet(s) \union {e}
  BY <1>1, <1>2, <1>3, <1>4 DEF ToSet
<1> QED
  BY <1>5 DEF t

\* The elements of two sequences end to end.
LEMMA ElementsConcat ==
    ASSUME NEW E, NEW s \in Seq(E), NEW t \in Seq(E)
    PROVE  ToSet(s \o t) = ToSet(s) \union ToSet(t)
<1> DEFINE u == s \o t
<1>1. /\ Len(s) \in Nat /\ DOMAIN s = 1 .. Len(s) /\ Len(t) \in Nat /\ DOMAIN t = 1 .. Len(t)
      /\ DOMAIN u = 1 .. Len(s) + Len(t)
      /\ \A i \in 1 .. Len(s) + Len(t) : u[i] = IF i <= Len(s) THEN s[i] ELSE t[i - Len(s)]
  <2>1. /\ u \in Seq(E) /\ Len(u) = Len(s) + Len(t)
        /\ \A i \in 1 .. Len(s) + Len(t) : u[i] = IF i <= Len(s) THEN s[i] ELSE t[i - Len(s)]
    BY ConcatProperties
  <2> HIDE DEF u
  <2> QED
    BY <2>1, LenProperties
<1> HIDE DEF u
<1>2. \A i \in DOMAIN u : \/ i \in DOMAIN s /\ u[i] = s[i]
                          \/ i - Len(s) \in DOMAIN t /\ u[i] = t[i - Len(s)]
  BY <1>1
<1>3. /\ \A i \in DOMAIN s : i \in DOMAIN u /\ u[i] = s[i]
      /\ \A i \in DOMAIN t : i + Len(s) \in DOMAIN u /\ u[i + Len(s)] = t[i]
  BY <1>1
<1>4. ToSet(u) = ToSet(s) \union ToSet(t)
  BY <1>2, <1>3 DEF ToSet
<1> QED
  BY <1>4 DEF u

\* Sets of one element at most.
LEMMA AtMostOne ==
    ASSUME NEW S, \A i, j \in S : i = j
    PROVE  Cardinality(S) <= 1 /\ (S = {} => Cardinality(S) = 0)
<1>1. CASE S = {}
  BY <1>1, FS_EmptySet
<1>2. CASE S # {}
  <2>1. PICK i : S = {i}
    BY <1>2
  <2>2. Cardinality(S) = 1
    BY <2>1, FS_Singleton
  <2> QED
    BY <1>2, <2>2
<1> QED
  BY <1>1, <1>2

\* A sequence is its first element and the rest.
LEMMA HeadThenTail ==
    ASSUME NEW E, NEW s \in Seq(E), s # <<>>
    PROVE  Head(s) \in E /\ Tail(s) \in Seq(E) /\ s = <<Head(s)>> \o Tail(s)
<1>1. /\ Head(s) \in E /\ Head(s) = s[1] /\ Tail(s) \in Seq(E) /\ Len(Tail(s)) = Len(s) - 1
      /\ \A i \in 1 .. Len(Tail(s)) : Tail(s)[i] = s[i + 1]
      /\ Len(s) \in Nat
  BY HeadTailProperties, LenProperties
<1>2. PICK v \in Seq(E) : v = Tail(s)
  BY <1>1
<1>3. \A e \in E : <<e>> \in Seq(E) /\ Len(<<e>>) = 1 /\ <<e>>[1] = e
  OBVIOUS
<1>4. PICK u \in Seq(E) : u = <<Head(s)>> /\ Len(u) = 1 /\ u[1] = s[1]
  BY <1>1, <1>3
<1>5. /\ u \o v \in Seq(E) /\ Len(u \o v) = Len(u) + Len(v)
      /\ \A i \in 1 .. Len(u) + Len(v) : (u \o v)[i] = IF i <= Len(u) THEN u[i] ELSE v[i - Len(u)]
  BY ConcatProperties
<1>6. PICK w \in Seq(E) : w = u \o v
  BY <1>5
<1>7. Len(w) = Len(s) /\ Len(v) = Len(s) - 1
  BY <1>1, <1>2, <1>4, <1>5, <1>6
<1>8. ASSUME NEW i \in 1 .. Len(s) PROVE w[i] = s[i]
  <2>1. CASE i = 1
    BY <1>1, <1>4, <1>5, <1>6, <1>7, <2>1
  <2>2. CASE i # 1
    <3>1. i \in 1 .. Len(u) + Len(v) /\ ~(i <= Len(u)) /\ i - Len(u) \in 1 .. Len(v)
          /\ i - Len(u) + 1 = i
      BY <1>1, <1>4, <1>7, <2>2
    <3>2. w[i] = v[i - Len(u)]
      BY <1>5, <1>6, <3>1
    <3>3. v[i - Len(u)] = s[i - Len(u) + 1]
      BY <1>1, <1>2, <3>1
    <3> QED
      BY <3>1, <3>2, <3>3
  <2> QED
    BY <2>1, <2>2
<1>9. w = s
  BY <1>7, <1>8, SeqEqual
<1> QED
  BY <1>1, <1>2, <1>4, <1>6, <1>9

-----------------------------------------------------------------------------
(* FlattenSeq.                                                              *)

\* The function f flattens the first n elements of the sequence seqs.
Flattens(f, seqs, n) ==
    f = [i \in 1 .. n |-> IF i = 1 THEN seqs[i] ELSE f[i - 1] \o seqs[i]]

\* What the function computes, element by element.
LEMMA FlattensElement ==
    ASSUME NEW f, NEW seqs, NEW n \in Nat
    PROVE  Flattens(f, seqs, n) =>
              \A i \in 1 .. n : f[i] = IF i = 1 THEN seqs[i] ELSE f[i - 1] \o seqs[i]
<1> DEFINE g == [i \in 1 .. n |-> IF i = 1 THEN seqs[i] ELSE f[i - 1] \o seqs[i]]
<1>1. \A i \in 1 .. n : g[i] = IF i = 1 THEN seqs[i] ELSE f[i - 1] \o seqs[i]
  OBVIOUS
<1>2. Flattens(f, seqs, n) => f = g
  BY DEF Flattens
<1> HIDE DEF g
<1> QED
  BY <1>1, <1>2

\* The recursion of FlattenSeq defines a function.
LEMMA FlattensExists ==
    ASSUME NEW seqs
    PROVE  \A n \in Nat : \E f : Flattens(f, seqs, n)
<1> DEFINE S == {n \in Nat : \E f : Flattens(f, seqs, n)}
<1>1. 0 \in S
  <2>1. Flattens([i \in 1 .. 0 |-> 0], seqs, 0)
    BY DEF Flattens
  <2> QED
    BY <2>1
<1>2. ASSUME NEW n \in S PROVE n + 1 \in S
  <2>1. PICK f : Flattens(f, seqs, n)
    OBVIOUS
  <2> DEFINE g == [i \in 1 .. n + 1 |->
                      IF i <= n THEN f[i]
                      ELSE IF i = 1 THEN seqs[i] ELSE f[n] \o seqs[i]]
  <2>2. ASSUME NEW i \in 1 .. n + 1
        PROVE  g[i] = IF i = 1 THEN seqs[i] ELSE g[i - 1] \o seqs[i]
    <3>1. CASE i <= n
      BY <2>1, <3>1, FlattensElement
    <3>2. CASE i = n + 1
      BY <3>2
    <3> QED
      BY <3>1, <3>2
  <2>3. Flattens(g, seqs, n + 1)
    <3> DEFINE h == [i \in 1 .. n + 1 |-> IF i = 1 THEN seqs[i] ELSE g[i - 1] \o seqs[i]]
    <3>1. \A i \in 1 .. n + 1 : g[i] = h[i]
      BY <2>2
    <3> HIDE DEF h
    <3>2. g = h
      BY <3>1 DEF h
    <3> QED
      BY <3>2 DEF Flattens, h
  <2> QED
    BY <2>3
<1> HIDE DEF S
<1>3. S = Nat
  BY <1>1, <1>2, Induction DEF S
<1> QED
  BY <1>3 DEF S

\* FlattenSeq takes the last element of that function.
LEMMA FlattenSeqValue ==
    ASSUME NEW seqs, Len(seqs) \in Nat \ {0}
    PROVE  \E f : Flattens(f, seqs, Len(seqs)) /\ FlattenSeq(seqs) = f[Len(seqs)]
<1> DEFINE f == CHOOSE g : Flattens(g, seqs, Len(seqs))
<1>1. Flattens(f, seqs, Len(seqs))
  BY FlattensExists
<1>2. FlattenSeq(seqs) = f[Len(seqs)]
  BY DEF FlattenSeq, Flattens
<1> QED
  BY <1>1, <1>2

Agree(f, g, n) == \A i \in 1 .. n : f[i] = g[i]

\* Functions that flatten two sequences agree as long as the sequences do.
LEMMA FlattensUnique ==
    ASSUME NEW f, NEW s, NEW m \in Nat, NEW g, NEW t, NEW n \in Nat,
           Flattens(f, s, m), Flattens(g, t, n),
           n <= m, Agree(s, t, n)
    PROVE  Agree(f, g, n)
<1> DEFINE S == {i \in Nat : i \in 1 .. n => f[i] = g[i]}
<1>1. 0 \in S
  OBVIOUS
<1>2. ASSUME NEW i \in S PROVE i + 1 \in S
  <2>1. SUFFICES ASSUME i + 1 \in 1 .. n PROVE f[i + 1] = g[i + 1]
    OBVIOUS
  <2>2. f[i + 1] = IF i + 1 = 1 THEN s[i + 1] ELSE f[i + 1 - 1] \o s[i + 1]
    BY <2>1, FlattensElement
  <2>3. g[i + 1] = IF i + 1 = 1 THEN t[i + 1] ELSE g[i + 1 - 1] \o t[i + 1]
    BY <2>1, FlattensElement
  <2>4. i + 1 # 1 => f[i + 1 - 1] = g[i + 1 - 1]
    BY <2>1
  <2> QED
    BY <2>1, <2>2, <2>3, <2>4 DEF Agree
<1> HIDE DEF S
<1>3. S = Nat
  BY <1>1, <1>2, Induction DEF S
<1> QED
  BY <1>3 DEF S, Agree

\* Flattening sequences over a set gives a sequence over the set.
LEMMA FlattensType ==
    ASSUME NEW S, NEW seqs \in Seq(Seq(S)), NEW f, Flattens(f, seqs, Len(seqs))
    PROVE  \A i \in 1 .. Len(seqs) : f[i] \in Seq(S)
<1>1. Len(seqs) \in Nat /\ \A i \in 1 .. Len(seqs) : seqs[i] \in Seq(S)
  BY LenProperties, ElementOfSeq
<1> DEFINE T == {i \in Nat : i \in 1 .. Len(seqs) => f[i] \in Seq(S)}
<1>2. 0 \in T
  OBVIOUS
<1>3. ASSUME NEW i \in T PROVE i + 1 \in T
  <2>1. SUFFICES ASSUME i + 1 \in 1 .. Len(seqs) PROVE f[i + 1] \in Seq(S)
    OBVIOUS
  <2>2. f[i + 1] = IF i + 1 = 1 THEN seqs[i + 1] ELSE f[i + 1 - 1] \o seqs[i + 1]
    BY <1>1, <2>1, FlattensElement
  <2>3. i + 1 # 1 => i + 1 - 1 = i /\ f[i] \in Seq(S)
    BY <1>1, <2>1
  <2>4. seqs[i + 1] \in Seq(S)
    BY <1>1, <2>1
  <2>5. i + 1 # 1 => f[i] \o seqs[i + 1] \in Seq(S)
    BY <2>3, <2>4, ConcatProperties
  <2> QED
    BY <2>2, <2>3, <2>4, <2>5
<1> HIDE DEF T
<1>4. T = Nat
  BY <1>2, <1>3, Induction DEF T
<1>5. \A i \in 1 .. Len(seqs) : i \in T
  BY <1>1, <1>4
<1> QED
  BY <1>5 DEF T

\* FlattenSeq of the empty sequence and of a sequence with an element more.
LEMMA FlattenSeqEmpty == FlattenSeq(<<>>) = <<>>
<1>1. Len(<<>>) = 0
  BY EmptySeq
<1> QED
  BY <1>1 DEF FlattenSeq

\* Flattening a sequence with one more at its end.
LEMMA FlattenSeqAppend ==
    ASSUME NEW S, NEW seqs \in Seq(Seq(S)), NEW s \in Seq(S)
    PROVE  /\ FlattenSeq(seqs) \in Seq(S)
           /\ FlattenSeq(Append(seqs, s)) = FlattenSeq(seqs) \o s
<1> DEFINE n == Len(seqs)
           more == Append(seqs, s)
<1>1. n \in Nat
  BY LenProperties
<1>2. /\ more \in Seq(Seq(S)) /\ Len(more) = n + 1
      /\ \A i \in 1 .. n : more[i] = seqs[i]
      /\ more[n + 1] = s
  BY AppendProperties
<1> HIDE DEF more
<1>3. PICK g : Flattens(g, more, n + 1) /\ FlattenSeq(more) = g[n + 1]
  <2>1. Len(more) \in Nat \ {0}
    BY <1>1, <1>2
  <2> QED
    BY <1>2, <2>1, FlattenSeqValue
<1>4. g[n + 1] = IF n + 1 = 1 THEN more[n + 1] ELSE g[n + 1 - 1] \o more[n + 1]
  BY <1>1, <1>3, FlattensElement
<1>5. CASE n = 0
  <2>1. seqs = <<>>
    BY <1>5, EmptySeq
  <2>2. FlattenSeq(seqs) = <<>>
    BY <2>1, FlattenSeqEmpty
  <2>3. FlattenSeq(more) = s
    BY <1>2, <1>3, <1>4, <1>5
  <2>4. <<>> \o s = s /\ <<>> \in Seq(S)
    BY ConcatEmptySeq, EmptySeq
  <2> QED
    BY <2>2, <2>3, <2>4 DEF more
<1>6. CASE n # 0
  <2>1. PICK f : Flattens(f, seqs, n) /\ FlattenSeq(seqs) = f[n]
    BY <1>1, <1>6, FlattenSeqValue
  <2>2. \A i \in 1 .. n : g[i] = f[i]
    <3>1. n <= n + 1 /\ n + 1 \in Nat
      BY <1>1
    <3>2. Agree(more, seqs, n)
      BY <1>2 DEF Agree
    <3>3. Agree(g, f, n)
      BY <1>1, <1>3, <2>1, <3>1, <3>2, FlattensUnique
    <3> QED
      BY <3>3 DEF Agree
  <2>3. g[n] = f[n] /\ n + 1 - 1 = n /\ n + 1 # 1
    BY <1>1, <1>6, <2>2
  <2>4. FlattenSeq(more) = f[n] \o s
    BY <1>2, <1>3, <1>4, <2>3
  <2>5. f[n] \in Seq(S)
    BY <1>1, <1>6, <2>1, FlattensType
  <2> QED
    BY <2>1, <2>4, <2>5 DEF more
<1> QED
  BY <1>5, <1>6

\* Flattening a concatenation: by induction on the length of its second part.
LEMMA FlattenSeqConcat ==
    ASSUME NEW S, NEW s \in Seq(Seq(S)), NEW t \in Seq(Seq(S))
    PROVE  FlattenSeq(s \o t) = FlattenSeq(s) \o FlattenSeq(t)
<1> DEFINE Splits(u) == FlattenSeq(s \o u) = FlattenSeq(s) \o FlattenSeq(u)
           T == {n \in Nat : \A u \in Seq(Seq(S)) : Len(u) = n => Splits(u)}
<1>1. 0 \in T
  <2>1. SUFFICES ASSUME NEW u \in Seq(Seq(S)), Len(u) = 0 PROVE Splits(u)
    OBVIOUS
  <2>2. u = <<>>
    BY <2>1, EmptySeq
  <2>3. s \o <<>> = s
    BY ConcatEmptySeq
  <2>4. FlattenSeq(s) \in Seq(S)
    <3>1. <<>> \in Seq(S)
      BY EmptySeq
    <3> QED
      BY <3>1, FlattenSeqAppend
  <2>5. FlattenSeq(s) \o <<>> = FlattenSeq(s)
    BY <2>4, ConcatEmptySeq
  <2> QED
    BY <2>2, <2>3, <2>5, FlattenSeqEmpty
<1>2. ASSUME NEW n \in T PROVE n + 1 \in T
  <2>1. SUFFICES ASSUME NEW u \in Seq(Seq(S)), Len(u) = n + 1 PROVE Splits(u)
    OBVIOUS
  <2>2. u # <<>>
    BY <2>1, EmptySeq
  <2>3. PICK v \in Seq(Seq(S)), e \in Seq(S) : u = Append(v, e)
    BY <2>2, SequenceEmptyOrAppend
  <2>4. Len(v) = n
    <3>1. Len(u) = Len(v) + 1 /\ Len(v) \in Nat
      BY <2>3, AppendProperties, LenProperties
    <3> QED
      BY <2>1, <3>1
  <2>5. FlattenSeq(s \o v) = FlattenSeq(s) \o FlattenSeq(v)
    BY <2>4
  <2>6. s \o u = Append(s \o v, e) /\ s \o v \in Seq(Seq(S))
    <3>1. s \o v \in Seq(Seq(S))
      BY ConcatProperties
    <3>2. s \o Append(v, e) = Append(s \o v, e)
      BY ConcatAppend
    <3> QED
      BY <2>3, <3>1, <3>2
  <2>7. /\ FlattenSeq(s) \in Seq(S) /\ FlattenSeq(v) \in Seq(S)
        /\ FlattenSeq(u) = FlattenSeq(v) \o e
        /\ FlattenSeq(s \o u) = FlattenSeq(s \o v) \o e
    BY <2>3, <2>6, FlattenSeqAppend
  <2>8. (FlattenSeq(s) \o FlattenSeq(v)) \o e = FlattenSeq(s) \o (FlattenSeq(v) \o e)
    BY <2>7, ConcatAssociative
  <2> QED
    BY <2>5, <2>7, <2>8
<1> HIDE DEF T
<1>3. T = Nat
  BY <1>1, <1>2, Induction DEF T
<1>4. Len(t) \in Nat
  BY LenProperties
<1> QED
  BY <1>3, <1>4 DEF T
=============================================================================
