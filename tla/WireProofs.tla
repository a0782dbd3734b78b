----------------------------- MODULE WireProofs -----------------------------
(***************************************************************************)
(* Proofs about requests, replies and what the programs make of them, for  *)
(* any inputs in the range of their types and replies of any length.       *)
(***************************************************************************)
EXTENDS Wire, TLAPS, SequenceTheorems, WellFoundedInduction

(* What a recursion over a sequence computes                               *)

LEMMA NatLessWellFounded ==
  IsWellFoundedOn({p \in Nat \X Nat : p[1] < p[2]}, Nat)
  BY NatLessThanWellFounded, Zenon DEF OpToRel

\* Induction, for a set of numbers.
LEMMA Induction ==
  ASSUME NEW S \in SUBSET Nat, 0 \in S, \A n \in S : n + 1 \in S
  PROVE  S = Nat
<1> SUFFICES ASSUME Nat \ S # {} PROVE FALSE
  OBVIOUS
<1> DEFINE R == {p \in Nat \X Nat : p[1] < p[2]}
           T == Nat \ S
<1>1. \A x, y \in Nat : y < x => <<y, x>> \in R
  OBVIOUS
<1>2. IsWellFoundedOn(R, Nat)
  BY NatLessWellFounded
<1>3. T \subseteq Nat /\ T # {}
  OBVIOUS
<1> HIDE DEF R, T
<1>4. PICK x \in T : \A y \in T : ~ (<<y, x>> \in R)
  BY <1>2, <1>3, WFMin, Zenon
<1>5. \A y \in T : ~ (y < x)
  BY <1>1, <1>3, <1>4
<1> QED
  BY <1>3, <1>4, <1>5 DEF T

\* f computes the values of a recursion over s, element by element.
Computes(f, N, base, step, s) ==
  f[0] = base /\ \A n \in 1 .. N : f[n] = step[<<f[n - 1], s[n]>>]

\* A recursion over elements of E with values in X.
Recursion(X, E, base, step) == base \in X /\ step \in [X \X E -> X]

\* What any solution satisfies.
Obeys(g, N, X, E, base, step, s) ==
  /\ g[0] = base
  /\ \A n \in 1 .. N : s[n] \in E /\ (g[n - 1] \in X => g[n] = step[<<g[n - 1], s[n]>>])

Agrees(f, g, N, X) == \A n \in 0 .. N : f[n] = g[n] /\ f[n] \in X

\* The recursion has a solution.
LEMMA Computable ==
  ASSUME NEW X, NEW E, NEW base, NEW step, Recursion(X, E, base, step), NEW s \in Seq(E)
  PROVE  \E f \in [0 .. Len(s) -> X] : Computes(f, Len(s), base, step, s)
<1> DEFINE K == {m \in Nat : m <= Len(s) =>
                    \E f \in [0 .. m -> X] : Computes(f, m, base, step, s)}
<1>0. Len(s) \in Nat /\ base \in X /\ step \in [X \X E -> X]
  BY DEF Recursion
<1>1. 0 \in K
  <2> DEFINE f == [n \in 0 .. 0 |-> base]
  <2>1. f \in [0 .. 0 -> X] /\ Computes(f, 0, base, step, s)
    BY <1>0 DEF Computes
  <2> HIDE DEF f
  <2> QED
    BY <2>1
<1>2. ASSUME NEW m \in K PROVE m + 1 \in K
  <2> SUFFICES ASSUME m + 1 <= Len(s)
               PROVE  \E f \in [0 .. m + 1 -> X] : Computes(f, m + 1, base, step, s)
    OBVIOUS
  <2>1. m \in Nat /\ m <= Len(s) /\ s[m + 1] \in E
    BY <1>0
  <2>2. PICK f \in [0 .. m -> X] : Computes(f, m, base, step, s)
    BY <2>1
  <2> DEFINE g == [n \in 0 .. m + 1 |-> IF n = m + 1 THEN step[<<f[m], s[m + 1]>>] ELSE f[n]]
  <2>3. f[m] \in X /\ step[<<f[m], s[m + 1]>>] \in X
    BY <1>0, <2>1
  <2>4. g \in [0 .. m + 1 -> X] /\ g[m + 1] = step[<<f[m], s[m + 1]>>]
    BY <2>1, <2>3
  <2>5. \A n \in 0 .. m : g[n] = f[n]
    BY <2>1
  <2> HIDE DEF g
  <2>6. g[0] = base
    BY <2>1, <2>2, <2>5 DEF Computes
  <2>7. ASSUME NEW n \in 1 .. m + 1 PROVE g[n] = step[<<g[n - 1], s[n]>>]
    <3>1. CASE n = m + 1
      <4>1. n - 1 = m /\ m \in 0 .. m
        BY <2>1, <3>1
      <4>2. g[m] = f[m]
        BY <2>5, <4>1
      <4> QED
        BY <2>4, <3>1, <4>1, <4>2
    <3>2. CASE n # m + 1
      <4>1. n \in 1 .. m /\ n \in 0 .. m /\ n - 1 \in 0 .. m
        BY <2>1, <3>2
      <4> QED
        BY <2>2, <2>5, <4>1 DEF Computes
    <3> QED
      BY <3>1, <3>2
  <2> QED
    BY <2>4, <2>6, <2>7 DEF Computes
<1>3. K \in SUBSET Nat
  OBVIOUS
<1> HIDE DEF K
<1>4. Len(s) \in K
  BY <1>0, <1>1, <1>2, <1>3, Induction
<1> QED
  BY <1>4 DEF K

\* The recursion has one solution, and it does not look ahead.
LEMMA ComputesOne ==
  ASSUME NEW X, NEW E, NEW base, NEW step, Recursion(X, E, base, step), NEW N \in Nat,
         NEW s, NEW f, Computes(f, N, base, step, s),
         NEW g, Obeys(g, N, X, E, base, step, s)
  PROVE  Agrees(f, g, N, X)
<1> DEFINE K == {m \in Nat : m <= N => f[m] = g[m] /\ f[m] \in X}
<1>0. base \in X /\ step \in [X \X E -> X]
  BY DEF Recursion
<1>1. 0 \in K
  BY <1>0 DEF Computes, Obeys
<1>2. ASSUME NEW m \in K PROVE m + 1 \in K
  <2> SUFFICES ASSUME m + 1 <= N PROVE f[m + 1] = g[m + 1] /\ f[m + 1] \in X
    OBVIOUS
  <2>1. m \in Nat /\ m + 1 \in 1 .. N /\ (m + 1) - 1 = m /\ m <= N
    OBVIOUS
  <2>2. f[m] = g[m] /\ f[m] \in X /\ s[m + 1] \in E
    BY <2>1 DEF Obeys
  <2>3. f[m + 1] = step[<<f[m], s[m + 1]>>]
    BY <2>1 DEF Computes
  <2>4. g[m + 1] = step[<<g[m], s[m + 1]>>]
    BY <2>1, <2>2 DEF Obeys
  <2> QED
    BY <1>0, <2>2, <2>3, <2>4
<1>3. K \in SUBSET Nat
  OBVIOUS
<1> HIDE DEF K
<1>4. K = Nat
  BY <1>1, <1>2, <1>3, Induction
<1> QED
  BY <1>4 DEF K, Agrees
-----------------------------------------------------------------------------
(* One field behind the other                                              *)

FlatStep == [p \in Seq(Byte) \X Seq(Byte) |-> p[1] \o p[2]]

LEMMA FlatStepType == Recursion(Seq(Byte), Seq(Byte), <<>>, FlatStep)
<1>1. ASSUME NEW p \in Seq(Byte) \X Seq(Byte) PROVE p[1] \o p[2] \in Seq(Byte)
  OBVIOUS
<1> QED
  BY <1>1, EmptySeq DEF FlatStep, Recursion

\* The fields of ss up to each of them, joined.
Joined(f, ss) ==
  /\ f \in [0 .. Len(ss) -> Seq(Byte)]
  /\ f[0] = <<>> /\ \A n \in 1 .. Len(ss) : f[n] = f[n - 1] \o ss[n]

LEMMA FlatIs ==
  ASSUME NEW ss \in Seq(Seq(Byte))
  PROVE  \E f : Joined(f, ss) /\ FlattenSeq(ss) = f[Len(ss)]
<1> DEFINE N == Len(ss)
           One(k, i) == IF i = 1 THEN ss[i] ELSE k[i - 1] \o ss[i]
           IsFlat(k) == k = [i \in 1 .. N |-> One(k, i)]
           flat == CHOOSE k : IsFlat(k)
<1>1. N \in Nat /\ \A n \in 1 .. N : ss[n] \in Seq(Byte)
  OBVIOUS
<1>2. \A n \in 1 .. N : \A x \in Seq(Byte) : FlatStep[<<x, ss[n]>>] = x \o ss[n]
  BY <1>1 DEF FlatStep
<1>3. PICK f \in [0 .. N -> Seq(Byte)] : Computes(f, N, <<>>, FlatStep, ss)
  <2> HIDE DEF N
  <2> QED
    BY FlatStepType, Computable DEF N
<1>4. \A n \in 0 .. N : f[n] \in Seq(Byte)
  BY <1>3
<1>5. f[0] = <<>> /\ \A n \in 1 .. N : f[n] = f[n - 1] \o ss[n]
  <2>1. \A n \in 1 .. N : f[n - 1] \in Seq(Byte)
    BY <1>1, <1>4
  <2> QED
    BY <1>2, <1>3, <2>1 DEF Computes
<1>6. CASE N = 0
  <2>1. ss = <<>>
    BY <1>6, EmptySeq
  <2>2. FlattenSeq(ss) = <<>>
    BY <1>6, <2>1 DEF FlattenSeq
  <2> QED
    BY <1>3, <1>5, <1>6, <2>2 DEF Joined
<1>7. CASE N # 0
  <2>1. FlattenSeq(ss) = flat[N]
    BY <1>1, <1>7 DEF FlattenSeq
  <2>2. f[1] = ss[1]
    <3>1. 1 \in 1 .. N /\ 1 - 1 = 0 /\ ss[1] \in Seq(Byte)
      BY <1>1, <1>7
    <3>2. f[1] = <<>> \o ss[1]
      BY <1>5, <3>1
    <3> QED
      BY <3>1, <3>2, ConcatEmptySeq
  <2>3. \E k : IsFlat(k)
    <3> DEFINE k == [n \in 1 .. N |-> f[n]]
    <3>1. ASSUME NEW n \in 1 .. N PROVE k[n] = One(k, n)
      <4>1. CASE n = 1
        BY <2>2, <4>1
      <4>2. CASE n # 1
        <5>1. n - 1 \in 1 .. N
          BY <1>1, <4>2
        <5> QED
          BY <1>5, <4>2, <5>1
      <4> QED
        BY <4>1, <4>2
    <3>2. k = [n \in 1 .. N |-> k[n]]
      OBVIOUS
    <3> HIDE DEF One, k
    <3>3. k = [n \in 1 .. N |-> One(k, n)]
      BY <3>1, <3>2
    <3> QED
      BY <3>3
  <2>4. IsFlat(flat)
    <3> HIDE DEF IsFlat
    <3> QED
      BY <2>3
  <2>5. \A n \in 1 .. N : flat[n] = One(flat, n)
    <3> HIDE DEF One, flat
    <3> QED
      BY <2>4
  <2> HIDE DEF flat, IsFlat
  <2> DEFINE g == [n \in 0 .. N |-> IF n = 0 THEN <<>> ELSE flat[n]]
  <2>6. Obeys(g, N, Seq(Byte), Seq(Byte), <<>>, FlatStep, ss)
    <3>1. g[0] = <<>> /\ \A n \in 1 .. N : g[n] = flat[n]
      BY <1>1
    <3> HIDE DEF g
    <3>2. ASSUME NEW n \in 1 .. N, g[n - 1] \in Seq(Byte)
          PROVE  g[n] = FlatStep[<<g[n - 1], ss[n]>>]
      <4>1. FlatStep[<<g[n - 1], ss[n]>>] = g[n - 1] \o ss[n]
        BY <1>2, <3>2
      <4>2. CASE n = 1
        <5>1. n - 1 = 0 /\ ss[n] \in Seq(Byte) /\ g[n] = One(flat, n)
          BY <1>1, <2>5, <3>1, <4>2
        <5>2. g[n] = ss[n]
          BY <4>2, <5>1
        <5> QED
          BY <3>1, <4>1, <5>1, <5>2, ConcatEmptySeq
      <4>3. CASE n # 1
        <5>1. n - 1 \in 1 .. N
          BY <1>1, <4>3
        <5> QED
          BY <2>5, <3>1, <4>1, <4>3, <5>1
      <4> QED
        BY <4>2, <4>3
    <3> QED
      BY <1>1, <3>1, <3>2 DEF Obeys
  <2>7. Agrees(f, g, N, Seq(Byte))
    <3> HIDE DEF g, N
    <3> QED
      BY <1>1, <1>3, <2>6, FlatStepType, ComputesOne
  <2>8. f[N] = flat[N]
    BY <1>1, <1>7, <2>7 DEF Agrees
  <2> QED
    BY <1>3, <1>5, <2>1, <2>8 DEF Joined
<1> QED
  BY <1>6, <1>7

LEMMA Wider ==
  ASSUME NEW a \in Nat, NEW b, NEW c \in Nat, b = a + c, NEW p \in 1 .. a
  PROVE  p \in 1 .. b
  OBVIOUS

\* w[i] is where the field behind the i-th of N begins, counting from zero.
Widths(w, N, size) ==
  /\ N \in Nat /\ w \in [0 .. N -> Nat] /\ w[0] = 0
  /\ \A i \in 1 .. N : size[i] \in Nat /\ w[i] = w[i - 1] + size[i]

\* Joined, every field is where the widths of those before it put it.
LEMMA FlatHolds ==
  ASSUME NEW ss \in Seq(Seq(Byte)), NEW size, NEW w, Widths(w, Len(ss), size),
         \A i \in 1 .. Len(ss) : Len(ss[i]) = size[i]
  PROVE  /\ FlattenSeq(ss) \in Seq(Byte) /\ Len(FlattenSeq(ss)) = w[Len(ss)]
         /\ \A i \in 1 .. Len(ss) : \A j \in 1 .. size[i] :
              FlattenSeq(ss)[w[i - 1] + j] = ss[i][j]
<1> DEFINE N == Len(ss)
<1>1. PICK f : Joined(f, ss) /\ FlattenSeq(ss) = f[N]
  BY FlatIs
<1> DEFINE Holds(n) == /\ f[n] \in Seq(Byte) /\ Len(f[n]) = w[n]
                       /\ \A i \in 1 .. n : \A j \in 1 .. size[i] :
                            w[i - 1] + j \in 1 .. w[n] /\ f[n][w[i - 1] + j] = ss[i][j]
           K == {n \in Nat : n <= N => Holds(n)}
<1>2. N \in Nat /\ \A i \in 1 .. N : ss[i] \in Seq(Byte)
  OBVIOUS
<1>3. 0 \in K
  BY <1>1, <1>2, EmptySeq DEF Joined, Widths
<1>4. ASSUME NEW n \in K PROVE n + 1 \in K
  <2> SUFFICES ASSUME n + 1 <= N PROVE Holds(n + 1)
    OBVIOUS
  <2> HIDE DEF Holds
  <2>1. n \in Nat /\ n + 1 \in 1 .. N /\ (n + 1) - 1 = n /\ Holds(n)
    BY <1>2
  <2> USE DEF Holds
  <2> HIDE DEF K
  <2>2. PICK x \in Seq(Byte) : x = f[n] /\ Len(x) = w[n]
    BY <2>1
  <2>3. PICK y \in Seq(Byte) : y = ss[n + 1] /\ Len(y) = size[n + 1]
    BY <1>2, <2>1
  <2>4. PICK z \in Seq(Byte) : /\ z = x \o y /\ Len(z) = Len(x) + Len(y)
                               /\ \A j \in 1 .. Len(x) : z[j] = x[j]
                               /\ \A j \in 1 .. Len(y) : z[Len(x) + j] = y[j]
    <3>1. x \o y \in Seq(Byte) /\ Len(x \o y) = Len(x) + Len(y)
      OBVIOUS
    <3>2. \A j \in 1 .. Len(x) : (x \o y)[j] = x[j]
      OBVIOUS
    <3>3. \A j \in 1 .. Len(y) : (x \o y)[Len(x) + j] = y[j]
      OBVIOUS
    <3> QED
      BY <3>1, <3>2, <3>3
  <2>5. f[n + 1] = z
    BY <1>1, <2>1, <2>2, <2>3, <2>4 DEF Joined
  <2>6. w[n + 1] = w[n] + size[n + 1] /\ w[n] \in Nat /\ size[n + 1] \in Nat
    BY <2>1 DEF Widths
  <2>7. Len(z) = w[n + 1]
    BY <2>2, <2>3, <2>4, <2>6
  <2>8. ASSUME NEW i \in 1 .. n + 1, NEW j \in 1 .. size[i]
        PROVE  w[i - 1] + j \in 1 .. w[n + 1] /\ z[w[i - 1] + j] = ss[i][j]
    <3>1. CASE i = n + 1
      <4>1. i - 1 = n /\ size[i] = Len(y) /\ w[n] = Len(x)
        BY <2>1, <2>2, <2>3, <3>1
      <4>2. z[Len(x) + j] = y[j]
        BY <2>4, <4>1
      <4>3. w[i - 1] = w[n] /\ w[n + 1] = w[n] + size[i] /\ z[w[i - 1] + j] = y[j]
        BY <2>6, <3>1, <4>1, <4>2
      <4>4. y[j] = ss[i][j]
        BY <2>3, <3>1
      <4>5. PICK a, b \in Nat : a = w[n] /\ b = size[i]
        BY <2>6, <3>1
      <4>6. a + j \in 1 .. a + b
        BY <4>5
      <4> QED
        BY <4>3, <4>4, <4>5, <4>6
    <3>2. CASE i # n + 1
      <4>1. i \in 1 .. n
        BY <2>1, <3>2
      <4>2. w[i - 1] + j \in 1 .. w[n] /\ x[w[i - 1] + j] = ss[i][j]
        BY <2>1, <2>2, <4>1
      <4>3. z[w[i - 1] + j] = x[w[i - 1] + j]
        BY <2>2, <2>4, <4>2
      <4>4. PICK a, b, c \in Nat : a = w[n] /\ b = w[n + 1] /\ c = size[n + 1] /\ b = a + c
        BY <2>6
      <4>5. w[i - 1] + j \in 1 .. b
        <5>1. PICK p : p = w[i - 1] + j /\ p \in 1 .. a
          BY <4>2, <4>4
        <5>2. p \in 1 .. b
          BY <4>4, <5>1, Wider
        <5> QED
          BY <5>1, <5>2
      <4> QED
        BY <4>2, <4>3, <4>4, <4>5
    <3> QED
      BY <3>1, <3>2
  <2> QED
    BY <2>5, <2>7, <2>8
<1>5. K \in SUBSET Nat
  OBVIOUS
<1> HIDE DEF K
<1>6. N \in K
  BY <1>2, <1>3, <1>4, <1>5, Induction
<1>7. Holds(N)
  BY <1>2, <1>6 DEF K
<1> QED
  BY <1>1, <1>7
-----------------------------------------------------------------------------
(* Requests: where each argument is                                        *)

SizeOf(fields) == [i \in 1 .. Len(fields) |-> fields[i].size]

Listed(fields) ==
  /\ Len(fields) \in Nat /\ DOMAIN fields = 1 .. Len(fields)
  /\ \A i \in 1 .. Len(fields) : fields[i].size \in Nat

\* Any list of fields has its widths.
LEMMA WidthsExist ==
  ASSUME NEW fields, Listed(fields)
  PROVE  \E w : Widths(w, Len(fields), SizeOf(fields))
<1> DEFINE N == Len(fields)
           size == SizeOf(fields)
           step == [p \in Nat \X Nat |-> p[1] + p[2]]
<1>1. N \in Nat /\ \A i \in 1 .. N : size[i] \in Nat
  BY DEF Listed, SizeOf
<1>2. size \in Seq(Nat) /\ Len(size) = N
  <2>1. size = [i \in 1 .. N |-> size[i]]
    BY DEF SizeOf
  <2>2. size \in [1 .. N -> Nat]
    <3> HIDE DEF size, N
    <3> QED
      BY <1>1, <2>1
  <2> HIDE DEF size, N
  <2> QED
    BY <1>1, <2>2, SeqDef, LenProperties
<1>3. Recursion(Nat, Nat, 0, step)
  BY DEF Recursion
<1> HIDE DEF size, N
<1>4. PICK w \in [0 .. N -> Nat] : Computes(w, N, 0, step, size)
  BY <1>2, <1>3, Computable
<1>5. \A i \in 1 .. N : w[i] = w[i - 1] + size[i]
  <2> TAKE i \in 1 .. N
  <2>1. i - 1 \in 0 .. N /\ w[i - 1] \in Nat /\ size[i] \in Nat
    BY <1>1, <1>4
  <2>2. w[i] = step[<<w[i - 1], size[i]>>]
    BY <1>4 DEF Computes
  <2> QED
    BY <2>1, <2>2
<1> QED
  BY <1>1, <1>4, <1>5 DEF Widths, Computes, N, size

\* Numbers as they are put into a packet and taken out of it.
LEMMA ToLEType ==
  ASSUME NEW v \in Nat, NEW n \in {1, 2, 4}
  PROVE  ToLE(v, n) \in Seq(Byte) /\ Len(ToLE(v, n)) = n
<1>1. ToLE(v, 1) \in Seq(Byte) /\ Len(ToLE(v, 1)) = 1
  BY DEF ToLE, Byte
<1>2. ToLE(v, 2) \in Seq(Byte) /\ Len(ToLE(v, 2)) = 2
  BY DEF ToLE, Byte
<1>3. ToLE(v, 4) \in Seq(Byte) /\ Len(ToLE(v, 4)) = 4
  BY DEF ToLE, Byte
<1> QED
  BY <1>1, <1>2, <1>3

\* The bytes the fields take.
Total(fields, n) ==
  Listed(fields) /\ \E w : Widths(w, Len(fields), SizeOf(fields)) /\ w[Len(fields)] = n

LEMMA TotalOfJoined ==
  ASSUME NEW f, NEW g, NEW m, NEW n, Total(f, m), Total(g, n)
  PROVE  Total(f \o g, m + n)
<1> DEFINE M == Len(f)
           N == Len(g)
           h == f \o g
<1>1. PICK v : Widths(v, M, SizeOf(f)) /\ v[M] = m
  BY DEF Total
<1>2. PICK w : Widths(w, N, SizeOf(g)) /\ w[N] = n
  BY DEF Total
<1>3. /\ M \in Nat /\ N \in Nat /\ DOMAIN f = 1 .. M /\ DOMAIN g = 1 .. N
      /\ (\A i \in 1 .. M : f[i].size \in Nat) /\ (\A i \in 1 .. N : g[i].size \in Nat)
  BY DEF Total, Listed
<1>4. /\ v[0] = 0 /\ \A i \in 0 .. M : v[i] \in Nat
      /\ \A i \in 1 .. M : v[i] = v[i - 1] + f[i].size
  BY <1>1 DEF Widths, SizeOf
<1>5. /\ w[0] = 0 /\ \A i \in 0 .. N : w[i] \in Nat
      /\ \A i \in 1 .. N : w[i] = w[i - 1] + g[i].size
  BY <1>2 DEF Widths, SizeOf
<1>6. /\ Len(h) = M + N /\ DOMAIN h = 1 .. M + N
      /\ \A i \in 1 .. M + N : h[i] = IF i <= M THEN f[i] ELSE g[i - M]
  BY <1>3
<1> HIDE DEF h, M, N
<1>7. \A i \in 1 .. M + N : h[i].size \in Nat
  <2> TAKE i \in 1 .. M + N
  <2>1. CASE i <= M
    BY <1>3, <1>6, <2>1
  <2>2. CASE ~ (i <= M)
    <3>1. i - M \in 1 .. N /\ h[i] = g[i - M]
      BY <1>3, <1>6, <2>2
    <3> QED
      BY <1>3, <3>1
  <2> QED
    BY <2>1, <2>2
<1>8. Listed(h)
  BY <1>3, <1>6, <1>7 DEF Listed
<1> DEFINE u == [i \in 0 .. M + N |-> IF i <= M THEN v[i] ELSE m + w[i - M]]
<1>9. m \in Nat /\ n \in Nat /\ v[M] = m /\ w[N] = n
  BY <1>1, <1>2, <1>3, <1>4, <1>5
<1>10. u \in [0 .. M + N -> Nat] /\ u[0] = 0 /\ u[M + N] = m + n
  <2>1. ASSUME NEW i \in 0 .. M + N PROVE (IF i <= M THEN v[i] ELSE m + w[i - M]) \in Nat
    <3>1. CASE i <= M
      BY <1>3, <1>4, <3>1
    <3>2. CASE ~ (i <= M)
      <4>1. i - M \in 0 .. N
        BY <1>3, <3>2
      <4> QED
        BY <1>5, <1>9, <3>2, <4>1
    <3> QED
      BY <3>1, <3>2
  <2>2. u[0] = 0
    BY <1>3, <1>4
  <2>3. u[M + N] = m + n
    <3>1. M + N \in 0 .. M + N /\ (M + N) - M = N
      BY <1>3
    <3>2. CASE N = 0
      BY <1>3, <1>5, <1>9, <3>1, <3>2
    <3>3. CASE N # 0
      BY <1>3, <1>9, <3>1, <3>3
    <3> QED
      BY <3>2, <3>3
  <2> QED
    BY <2>1, <2>2, <2>3
<1>11. ASSUME NEW i \in 1 .. M + N PROVE u[i] = u[i - 1] + h[i].size
  <2>1. i \in 0 .. M + N /\ i - 1 \in 0 .. M + N /\ i \in Int
    BY <1>3
  <2>2. CASE i <= M
    <3>1. u[i] = v[i] /\ u[i - 1] = v[i - 1] /\ h[i] = f[i] /\ i \in 1 .. M
      BY <1>3, <1>6, <2>1, <2>2
    <3> QED
      BY <1>4, <3>1
  <2>3. CASE i = M + 1
    <3>1. u[i] = m + w[1] /\ u[i - 1] = m /\ h[i] = g[1] /\ 1 \in 1 .. N
      BY <1>3, <1>6, <1>9, <2>1, <2>3
    <3>2. w[1] = 0 + g[1].size
      BY <1>5, <3>1
    <3> QED
      BY <1>3, <3>1, <3>2
  <2>4. CASE ~ (i <= M) /\ i # M + 1
    <3> DEFINE j == i - M
    <3>1. u[i] = m + w[j] /\ u[i - 1] = m + w[j - 1] /\ h[i] = g[j] /\ j \in 1 .. N
      <4>1. ~ (i - 1 <= M) /\ (i - 1) - M = j - 1
        BY <1>3, <2>4
      <4> QED
        BY <1>3, <1>6, <2>1, <2>4, <4>1
    <3>2. w[j] = w[j - 1] + g[j].size /\ w[j - 1] \in Nat /\ g[j].size \in Nat
      BY <1>3, <1>5, <3>1
    <3> QED
      BY <1>9, <3>1, <3>2
  <2> QED
    BY <1>3, <2>1, <2>2, <2>3, <2>4
<1> HIDE DEF u
<1>12. Widths(u, Len(h), SizeOf(h))
  BY <1>3, <1>6, <1>7, <1>10, <1>11 DEF Widths, SizeOf
<1> QED
  BY <1>6, <1>8, <1>10, <1>12 DEF Total, h

LEMMA TotalOfNothing ==
  ASSUME NEW fields, Listed(fields), Len(fields) = 0
  PROVE  Total(fields, 0)
<1>1. PICK w : Widths(w, 0, SizeOf(fields))
  BY WidthsExist
<1>2. w[0] = 0 /\ \A i \in 1 .. 0 : w[i] = w[i - 1] + fields[i].size
  BY <1>1 DEF Widths, SizeOf
<1>3. \A i \in 1 .. 0 : fields[i].size \in Nat
  BY DEF Listed
<1>4. w[0] = 0
  BY <1>2, <1>3
<1> QED
  BY <1>1, <1>4 DEF Total

LEMMA TotalOfOne ==
  ASSUME NEW fields, Listed(fields), Len(fields) = 1
  PROVE  Total(fields, fields[1].size)
<1>1. PICK w : Widths(w, 1, SizeOf(fields))
  BY WidthsExist
<1>2. w[0] = 0 /\ \A i \in 1 .. 1 : w[i] = w[i - 1] + fields[i].size
  BY <1>1 DEF Widths, SizeOf
<1>3. \A i \in 1 .. 1 : fields[i].size \in Nat
  BY DEF Listed
<1>4. w[1] = fields[1].size
  BY <1>2, <1>3
<1> QED
  BY <1>1, <1>4 DEF Total

LEMMA TotalOfTwo ==
  ASSUME NEW fields, Listed(fields), Len(fields) = 2
  PROVE  Total(fields, fields[1].size + fields[2].size)
<1>1. PICK w : Widths(w, 2, SizeOf(fields))
  BY WidthsExist
<1>2. w[0] = 0 /\ \A i \in 1 .. 2 : w[i] = w[i - 1] + fields[i].size
  BY <1>1 DEF Widths, SizeOf
<1>3. \A i \in 1 .. 2 : fields[i].size \in Nat
  BY DEF Listed
<1>4. w[2] = fields[1].size + fields[2].size
  BY <1>2, <1>3
<1> QED
  BY <1>1, <1>4 DEF Total

LEMMA TotalOfThree ==
  ASSUME NEW fields, Listed(fields), Len(fields) = 3
  PROVE  Total(fields, fields[1].size + fields[2].size + fields[3].size)
<1>1. PICK w : Widths(w, 3, SizeOf(fields))
  BY WidthsExist
<1>2. w[0] = 0 /\ \A i \in 1 .. 3 : w[i] = w[i - 1] + fields[i].size
  BY <1>1 DEF Widths, SizeOf
<1>3. \A i \in 1 .. 3 : fields[i].size \in Nat
  BY DEF Listed
<1>4. w[3] = fields[1].size + fields[2].size + fields[3].size
  BY <1>2, <1>3
<1> QED
  BY <1>1, <1>4 DEF Total

LEMMA TotalOfFive ==
  ASSUME NEW fields, Listed(fields), Len(fields) = 5
  PROVE  Total(fields, fields[1].size + fields[2].size + fields[3].size + fields[4].size
                        + fields[5].size)
<1>1. PICK w : Widths(w, 5, SizeOf(fields))
  BY WidthsExist
<1>2. w[0] = 0 /\ \A i \in 1 .. 5 : w[i] = w[i - 1] + fields[i].size
  BY <1>1 DEF Widths, SizeOf
<1>3. \A i \in 1 .. 5 : fields[i].size \in Nat
  BY DEF Listed
<1>4. w[5] = fields[1].size + fields[2].size + fields[3].size + fields[4].size
                        + fields[5].size
  BY <1>2, <1>3
<1> QED
  BY <1>1, <1>4 DEF Total

LEMMA TotalOfSeven ==
  ASSUME NEW fields, Listed(fields), Len(fields) = 7
  PROVE  Total(fields, fields[1].size + fields[2].size + fields[3].size + fields[4].size
                        + fields[5].size + fields[6].size + fields[7].size)
<1>1. PICK w : Widths(w, 7, SizeOf(fields))
  BY WidthsExist
<1>2. w[0] = 0 /\ \A i \in 1 .. 7 : w[i] = w[i - 1] + fields[i].size
  BY <1>1 DEF Widths, SizeOf
<1>3. \A i \in 1 .. 7 : fields[i].size \in Nat
  BY DEF Listed
<1>4. w[7] = fields[1].size + fields[2].size + fields[3].size + fields[4].size
                        + fields[5].size + fields[6].size + fields[7].size
  BY <1>2, <1>3
<1> QED
  BY <1>1, <1>4 DEF Total

LEMMA PutType ==
  ASSUME NEW k, NEW field, field.size \in {1, 2, 4, 16, 128}, NEW args,
         field.name \in DOMAIN args =>
           args[field.name] \in IF field.size > 4 THEN Seq(Byte) ELSE Nat
  PROVE  Put(k, field, args) \in Seq(Byte) /\ Len(Put(k, field, args)) = field.size
<1> DEFINE n == field.size
           value == IF field.name \in DOMAIN args THEN args[field.name]
                    ELSE IF field.size > 4 THEN <<>> ELSE Fixed(k, field)
<1>1. CASE n > 4
  <2>1. n \in Nat /\ value \in Seq(Byte)
    BY <1>1, EmptySeq
  <2>2. Put(k, field, args) = Padded(value, n)
    BY <1>1 DEF Put
  <2> HIDE DEF value, n
  <2>3. PICK v \in Seq(Byte) : v = value
    BY <2>1
  <2>4. ASSUME NEW i \in 1 .. n
        PROVE  (IF i <= Len(v) THEN v[i] ELSE 0) \in Byte
    <3>1. Len(v) \in Nat /\ \A j \in 1 .. Len(v) : v[j] \in Byte
      OBVIOUS
    <3>2. 0 \in Byte /\ (i <= Len(v) => i \in 1 .. Len(v))
      BY <2>1, <3>1 DEF Byte
    <3> QED
      BY <3>1, <3>2
  <2>5. Padded(v, n) \in [1 .. n -> Byte]
    BY <2>4 DEF Padded
  <2>6. Padded(v, n) \in Seq(Byte) /\ Len(Padded(v, n)) = n
    BY <2>1, <2>5, SeqDef, LenProperties
  <2> QED
    BY <2>2, <2>3, <2>6 DEF n
<1>2. CASE ~ (n > 4)
  <2>1. n \in {1, 2, 4}
    BY <1>2
  <2>2. Fixed(k, field) \in Nat
    BY DEF Fixed, SMART_POWER_SAFE_WORD, REBOOT_MAGIC, BOOTLOADER_MAGIC
  <2>3. value \in Nat
    BY <1>2, <2>2
  <2>4. Put(k, field, args) = ToLE(value, n)
    BY <1>2 DEF Put
  <2> HIDE DEF value, n
  <2>5. ToLE(value, n) \in Seq(Byte) /\ Len(ToLE(value, n)) = n
    BY <2>1, <2>3, ToLEType
  <2> QED
    BY <2>4, <2>5 DEF n
<1> QED
  BY <1>1, <1>2
-----------------------------------------------------------------------------
(* The packet that starts a task                                           *)

Word2(b) == b[1] + 256 * b[2]

Word4(b) == b[1] + 256 * (b[2] + 256 * (b[3] + 256 * b[4]))

LEMMA BytesAreNumbers ==
  ASSUME NEW b \in Seq(Byte)
  PROVE  \A i \in 1 .. Len(b) : b[i] \in Nat
<1> TAKE i \in 1 .. Len(b)
<1>1. b[i] \in Byte
  OBVIOUS
<1>2. \A x \in Byte : x \in Nat
  BY DEF Byte
<1> QED
  BY <1>1, <1>2

LEMMA FromLEOfTwo ==
  ASSUME NEW b \in Seq(Byte), Len(b) = 2
  PROVE  FromLE(b) = Word2(b)
<1> DEFINE IsFrom(f) == f = [i \in 1 .. Len(b) + 1 |->
                               IF i > Len(b) THEN 0 ELSE b[i] + 256 * f[i + 1]]
           from == CHOOSE f : IsFrom(f)
<1>1. FromLE(b) = from[1]
  BY DEF FromLE
<1>2. b[1] \in Nat /\ b[2] \in Nat
  BY BytesAreNumbers
<1>3. \E f : IsFrom(f)
  <2> DEFINE f == [i \in 1 .. 3 |-> IF i = 3 THEN 0 ELSE IF i = 2 THEN b[2] ELSE Word2(b)]
  <2>1. \A i \in 1 .. 3 : f[i] = IF i > 2 THEN 0 ELSE b[i] + 256 * f[i + 1]
    BY <1>2 DEF Word2
  <2>2. f = [i \in 1 .. 3 |-> f[i]]
    OBVIOUS
  <2> HIDE DEF f
  <2>3. f = [i \in 1 .. 3 |-> IF i > 2 THEN 0 ELSE b[i] + 256 * f[i + 1]]
    BY <2>1, <2>2
  <2>4. Len(b) + 1 = 3
    OBVIOUS
  <2> QED
    BY <2>3, <2>4
<1>4. IsFrom(from)
  <2> HIDE DEF IsFrom
  <2> QED
    BY <1>3
<1> HIDE DEF from
<1>5. from[3] = 0 /\ from[2] = b[2] + 256 * from[3] /\ from[1] = b[1] + 256 * from[2]
  BY <1>4
<1> QED
  BY <1>1, <1>2, <1>5 DEF Word2

LEMMA FromLEOfFour ==
  ASSUME NEW b \in Seq(Byte), Len(b) = 4
  PROVE  FromLE(b) = Word4(b)
<1> DEFINE IsFrom(f) == f = [i \in 1 .. Len(b) + 1 |->
                               IF i > Len(b) THEN 0 ELSE b[i] + 256 * f[i + 1]]
           from == CHOOSE f : IsFrom(f)
<1>1. FromLE(b) = from[1]
  BY DEF FromLE
<1>2. b[1] \in Nat /\ b[2] \in Nat /\ b[3] \in Nat /\ b[4] \in Nat
  <2> HIDE DEF from, IsFrom
  <2>1. \A i \in 1 .. 4 : b[i] \in Nat
    BY BytesAreNumbers
  <2> QED
    BY <2>1
<1>3. \E f : IsFrom(f)
  <2> DEFINE f == [i \in 1 .. 5 |->
                     IF i = 5 THEN 0 ELSE IF i = 4 THEN b[4]
                     ELSE IF i = 3 THEN b[3] + 256 * b[4]
                     ELSE IF i = 2 THEN b[2] + 256 * (b[3] + 256 * b[4]) ELSE Word4(b)]
  <2>1. \A i \in 1 .. 5 : f[i] = IF i > 4 THEN 0 ELSE b[i] + 256 * f[i + 1]
    BY <1>2 DEF Word4
  <2>2. f = [i \in 1 .. 5 |-> f[i]]
    OBVIOUS
  <2> HIDE DEF f
  <2>3. f = [i \in 1 .. 5 |-> IF i > 4 THEN 0 ELSE b[i] + 256 * f[i + 1]]
    BY <2>1, <2>2
  <2>4. Len(b) + 1 = 5
    OBVIOUS
  <2> QED
    BY <2>3, <2>4
<1>4. IsFrom(from)
  <2> HIDE DEF IsFrom
  <2> QED
    BY <1>3
<1> HIDE DEF from
<1>5. /\ from[5] = 0 /\ from[4] = b[4] + 256 * from[5] /\ from[3] = b[3] + 256 * from[4]
      /\ from[2] = b[2] + 256 * from[3] /\ from[1] = b[1] + 256 * from[2]
  BY <1>4
<1> QED
  BY <1>1, <1>2, <1>5 DEF Word4

\* to_le_bytes and from_le_bytes, where the value fits two bytes.
LEMMA TwoDigits ==
  ASSUME NEW v \in Nat, v <= 65535
  PROVE  v = (v % 256) + 256 * ((v \div 256) % 256)
<1>1. v \div 256 \in 0 .. 255
  BY SMT
<1>2. (v \div 256) % 256 = v \div 256
  BY <1>1, SMT
<1>3. v = (v % 256) + 256 * (v \div 256)
  BY SMT
<1> QED
  BY <1>2, <1>3, SMT

LEMMA RoundTripTwo ==
  ASSUME NEW v \in Nat, v <= 65535
  PROVE  FromLE(ToLE(v, 2)) = v
<1>1. ToLE(v, 2) \in Seq(Byte) /\ Len(ToLE(v, 2)) = 2
  <2>1. 2 \in {1, 2, 4}
    OBVIOUS
  <2> QED
    BY <2>1, ToLEType
<1>2. FromLE(ToLE(v, 2)) = Word2(ToLE(v, 2))
  BY <1>1, FromLEOfTwo
<1>3. ToLE(v, 2)[1] = v % 256 /\ ToLE(v, 2)[2] = (v \div 256) % 256
  BY SMT DEF ToLE
<1> QED
  BY <1>2, <1>3, TwoDigits DEF Word2

LEMMA RoundTripFour ==
  ASSUME NEW v \in Nat, v <= 65535
  PROVE  FromLE(ToLE(v, 4)) = v
<1>1. ToLE(v, 4) \in Seq(Byte) /\ Len(ToLE(v, 4)) = 4
  <2>1. 4 \in {1, 2, 4}
    OBVIOUS
  <2> QED
    BY <2>1, ToLEType
<1>2. FromLE(ToLE(v, 4)) = Word4(ToLE(v, 4))
  BY <1>1, FromLEOfFour
<1>3. ToLE(v, 4)[1] = v % 256 /\ ToLE(v, 4)[2] = (v \div 256) % 256
  BY SMT DEF ToLE
<1>4. /\ ToLE(v, 4)[3] = (v \div 65536) % 256
      /\ ToLE(v, 4)[4] = (v \div 16777216) % 256
  BY SMT DEF ToLE
<1>5. v \div 65536 = 0 /\ v \div 16777216 = 0
  BY SMT
<1>6. ToLE(v, 4)[3] = 0 /\ ToLE(v, 4)[4] = 0
  BY <1>4, <1>5, SMT
<1> QED
  BY <1>2, <1>3, <1>6, TwoDigits, SMT DEF Word4

TaskArgs(channel, task, battery, link, current, cells, volt) ==
  [channel |-> channel, task |-> task, battery |-> battery, link |-> link,
   current_ma |-> current, cells |-> cells, volt_mv |-> volt]

\* Where the arguments of a task are in its packet, the word taken off.
TaskBody(body, task, battery, current, cells, volt) ==
  /\ body \in Seq(Byte) /\ Len(body) = 11
  /\ body[2] = task % 256 /\ body[3] = battery % 256 /\ body[9] = cells % 256
  /\ SubSeq(body, 5, 8) = ToLE(current, 4) /\ SubSeq(body, 10, 11) = ToLE(volt, 2)

LEMMA TaskPacket ==
  ASSUME NEW channel \in Nat, NEW task \in Nat, NEW battery \in Nat, NEW link \in Nat,
         NEW current \in Nat, NEW cells \in Nat, NEW volt \in Nat
  PROVE  TaskBody(Tail(Data("SetTask",
                            TaskArgs(channel, task, battery, link, current, cells, volt))),
                  task, battery, current, cells, volt)
<1> DEFINE args == TaskArgs(channel, task, battery, link, current, cells, volt)
           k == "SetTask"
           packet(x) == x[2] = task % 256 /\ x[3] = battery % 256 /\ x[9] = cells % 256
           puts == [i \in DOMAIN Arguments(k) |-> Put(k, Arguments(k)[i], args)]
           ss == <<ToLE(channel, 1), ToLE(task, 1), ToLE(battery, 1), ToLE(link, 1),
                   ToLE(current, 4), ToLE(cells, 1), ToLE(volt, 2)>>
           size == <<1, 1, 1, 1, 4, 1, 2>>
           w == [i \in 0 .. 7 |-> CASE i = 0 -> 0 [] i = 1 -> 1 [] i = 2 -> 2 [] i = 3 -> 3
                                    [] i = 4 -> 4 [] i = 5 -> 8 [] i = 6 -> 9 [] i = 7 -> 11]
<1>1. puts = ss
  <2> DEFINE fields == <<U8("channel"), U8("task"), U8("battery"), U8("link"),
                         U32("current_ma"), U8("cells"), U16("volt_mv")>>
  <2>1. Arguments(k) = fields
    BY DEF Arguments, PerChannel
  <2>2. /\ Put(k, U8("channel"), args) = ToLE(channel, 1)
        /\ Put(k, U8("task"), args) = ToLE(task, 1)
        /\ Put(k, U8("battery"), args) = ToLE(battery, 1)
        /\ Put(k, U8("link"), args) = ToLE(link, 1)
        /\ Put(k, U32("current_ma"), args) = ToLE(current, 4)
        /\ Put(k, U8("cells"), args) = ToLE(cells, 1)
        /\ Put(k, U16("volt_mv"), args) = ToLE(volt, 2)
    BY DEF Put, TaskArgs, U8, U16, U32, Field
  <2> HIDE DEF args, k
  <2>3. DOMAIN fields = 1 .. 7 /\ DOMAIN ss = 1 .. 7
    OBVIOUS
  <2>4. \A i \in 1 .. 7 : Put(k, fields[i], args) = ss[i]
    BY <2>2
  <2>5. puts = [i \in 1 .. 7 |-> ss[i]]
    BY <2>1, <2>3, <2>4
  <2> QED
    BY <2>5
<1>2. /\ ss[1] = ToLE(channel, 1) /\ ss[2] = ToLE(task, 1) /\ ss[3] = ToLE(battery, 1)
      /\ ss[4] = ToLE(link, 1) /\ ss[5] = ToLE(current, 4) /\ ss[6] = ToLE(cells, 1)
      /\ ss[7] = ToLE(volt, 2) /\ Len(ss) = 7
  OBVIOUS
<1>3. /\ size[1] = 1 /\ size[2] = 1 /\ size[3] = 1 /\ size[4] = 1 /\ size[5] = 4
      /\ size[6] = 1 /\ size[7] = 2
  OBVIOUS
<1>4. /\ w \in [0 .. 7 -> Nat]
      /\ w[0] = 0 /\ w[1] = 1 /\ w[2] = 2 /\ w[3] = 3 /\ w[4] = 4 /\ w[5] = 8 /\ w[6] = 9
      /\ w[7] = 11
  OBVIOUS
<1>5. ss \in Seq(Seq(Byte)) /\ \A i \in 1 .. Len(ss) : Len(ss[i]) = size[i]
  <2>1. 1 \in {1, 2, 4} /\ 2 \in {1, 2, 4} /\ 4 \in {1, 2, 4}
    OBVIOUS
  <2>2. /\ ToLE(channel, 1) \in Seq(Byte) /\ Len(ToLE(channel, 1)) = 1
        /\ ToLE(task, 1) \in Seq(Byte) /\ Len(ToLE(task, 1)) = 1
        /\ ToLE(battery, 1) \in Seq(Byte) /\ Len(ToLE(battery, 1)) = 1
        /\ ToLE(link, 1) \in Seq(Byte) /\ Len(ToLE(link, 1)) = 1
        /\ ToLE(current, 4) \in Seq(Byte) /\ Len(ToLE(current, 4)) = 4
        /\ ToLE(cells, 1) \in Seq(Byte) /\ Len(ToLE(cells, 1)) = 1
        /\ ToLE(volt, 2) \in Seq(Byte) /\ Len(ToLE(volt, 2)) = 2
    BY <2>1, ToLEType
  <2>3. ss \in [1 .. 7 -> Seq(Byte)]
    <3> DEFINE T == Seq(Byte)
    <3>1. /\ ToLE(channel, 1) \in T /\ ToLE(task, 1) \in T /\ ToLE(battery, 1) \in T
          /\ ToLE(link, 1) \in T /\ ToLE(current, 4) \in T /\ ToLE(cells, 1) \in T
          /\ ToLE(volt, 2) \in T
      BY <2>2
    <3> HIDE DEF T
    <3>2. ss \in [1 .. 7 -> T]
      BY <3>1
    <3> QED
      BY <3>2 DEF T
  <2> HIDE DEF ss, size, w
  <2>4. \A i \in 1 .. 7 : Len(ss[i]) = size[i]
    <3>1. /\ Len(ss[1]) = 1 /\ Len(ss[2]) = 1 /\ Len(ss[3]) = 1 /\ Len(ss[4]) = 1
          /\ Len(ss[5]) = 4 /\ Len(ss[6]) = 1 /\ Len(ss[7]) = 2
      BY <1>2, <2>2
    <3> TAKE i \in 1 .. 7
    <3>2. \/ i = 1 \/ i = 2 \/ i = 3 \/ i = 4 \/ i = 5 \/ i = 6 \/ i = 7
      OBVIOUS
    <3> QED
      BY <1>3, <3>1, <3>2, Zenon
  <2>5. ss \in Seq(Seq(Byte))
    <3> DEFINE T == Seq(Byte)
    <3>1. ss \in [1 .. 7 -> T] /\ 7 \in Nat
      BY <2>3
    <3> HIDE DEF T
    <3>2. ss \in Seq(T)
      BY <3>1, SeqDef
    <3> QED
      BY <3>2 DEF T
  <2> QED
    BY <1>2, <2>4, <2>5
<1> HIDE DEF w, size, ss, puts, args
<1>6. Widths(w, Len(ss), size)
  BY <1>2, <1>3, <1>4 DEF Widths
<1> DEFINE flat == FlattenSeq(ss)
<1>7. /\ flat \in Seq(Byte) /\ Len(flat) = w[Len(ss)]
      /\ \A i \in 1 .. Len(ss) : \A j \in 1 .. size[i] : flat[w[i - 1] + j] = ss[i][j]
  BY <1>5, <1>6, FlatHolds
<1>8. Tail(Data(k, args)) = flat
  <2> HIDE DEF flat
  <2>1. Data(k, args) = <<CommandWord[k]>> \o flat
    BY <1>1 DEF Data, flat, puts
  <2> HIDE DEF k
  <2> QED
    BY <1>7, <2>1
<1> HIDE DEF flat, k
<1>9. Len(flat) = 11
  BY <1>2, <1>4, <1>7
<1>10. \A i \in 1 .. 7 : \A j \in 1 .. size[i] : flat[w[i - 1] + j] = ss[i][j]
  BY <1>2, <1>7
<1>11. flat[2] = ss[2][1] /\ flat[3] = ss[3][1] /\ flat[9] = ss[6][1]
  <2>1. flat[w[1] + 1] = ss[2][1]
    BY <1>3, <1>10
  <2>2. flat[w[2] + 1] = ss[3][1]
    BY <1>3, <1>10
  <2>3. flat[w[5] + 1] = ss[6][1]
    BY <1>3, <1>10
  <2> QED
    BY <1>4, <2>1, <2>2, <2>3
<1>12. flat[5] = ss[5][1] /\ flat[6] = ss[5][2] /\ flat[7] = ss[5][3] /\ flat[8] = ss[5][4]
  <2>1. \A j \in 1 .. 4 : flat[w[4] + j] = ss[5][j]
    BY <1>3, <1>10
  <2> QED
    BY <1>4, <2>1
<1>13. flat[10] = ss[7][1] /\ flat[11] = ss[7][2]
  <2>1. \A j \in 1 .. 2 : flat[w[6] + j] = ss[7][j]
    BY <1>3, <1>10
  <2> QED
    BY <1>4, <2>1
<1>14. \A v \in Nat : ToLE(v, 1)[1] = v % 256
  BY SMT DEF ToLE
<1>15. packet(flat)
  BY <1>2, <1>11, <1>14
<1>16. SubSeq(flat, 5, 8) = ToLE(current, 4)
  <2>1. ss[5] \in Seq(Byte) /\ Len(ss[5]) = 4
    <3>1. 5 \in 1 .. Len(ss)
      BY <1>2
    <3>2. ss[5] \in Seq(Byte)
      BY <1>5, <3>1
    <3> QED
      BY <1>3, <1>5, <3>1, <3>2
  <2>2. PICK x \in Seq(Byte) : x = ss[5] /\ Len(x) = 4
    BY <2>1
  <2>3. x[1] = flat[5] /\ x[2] = flat[6] /\ x[3] = flat[7] /\ x[4] = flat[8]
    BY <1>12, <2>2
  <2>4. SubSeq(flat, 5, 8) = x
    BY <1>7, <1>9, <2>2, <2>3
  <2> QED
    BY <1>2, <2>2, <2>4
<1>17. SubSeq(flat, 10, 11) = ToLE(volt, 2)
  <2>1. ss[7] \in Seq(Byte) /\ Len(ss[7]) = 2
    <3>1. 7 \in 1 .. Len(ss)
      BY <1>2
    <3>2. ss[7] \in Seq(Byte)
      BY <1>5, <3>1
    <3> QED
      BY <1>3, <1>5, <3>1, <3>2
  <2>2. PICK x \in Seq(Byte) : x = ss[7] /\ Len(x) = 2
    BY <2>1
  <2>3. x[1] = flat[10] /\ x[2] = flat[11]
    BY <1>13, <2>2
  <2>4. SubSeq(flat, 10, 11) = x
    BY <1>7, <1>9, <2>2, <2>3
  <2> QED
    BY <1>2, <2>2, <2>4
<1> HIDE DEF packet
<1> QED
  BY <1>7, <1>8, <1>9, <1>15, <1>16, <1>17 DEF args, k, packet, TaskBody
-----------------------------------------------------------------------------
(* The tables of types.rs                                                  *)

\* A named value has its place in the table as its code, and comes back.
LEMMA CodeOf ==
  ASSUME NEW names, Len(names) \in Nat, DOMAIN names = 1 .. Len(names),
         \A i, j \in 1 .. Len(names) : names[i] = names[j] => i = j,
         NEW i \in 1 .. Len(names), names[i] # "Unknown"
  PROVE  Code(names, Named(names[i])) = i - 1 /\ FromCode(names, i - 1) = Named(names[i])
<1> DEFINE place == CHOOSE j \in DOMAIN names : names[j] = names[i]
<1>1. place = i
  <2>1. \E j \in DOMAIN names : names[j] = names[i]
    OBVIOUS
  <2>2. place \in DOMAIN names /\ names[place] = names[i]
    BY <2>1
  <2> QED
    BY <2>2
<1>2. Code(names, Named(names[i])) = place - 1
  BY DEF Code, Named
<1>3. i - 1 < Len(names) /\ (i - 1) + 1 = i
  OBVIOUS
<1> QED
  BY <1>1, <1>2, <1>3 DEF FromCode

LEMMA BatteryTable ==
  /\ Len(BatteryKinds) = 7 /\ DOMAIN BatteryKinds = 1 .. 7
  /\ \A i, j \in 1 .. 7 : BatteryKinds[i] = BatteryKinds[j] => i = j
  /\ \A i \in 1 .. 7 : BatteryKinds[i] # "Unknown"
  BY DEF BatteryKinds

LEMMA TaskTable ==
  /\ Code(TaskTypes, Named("Charge")) = 0 /\ Code(TaskTypes, Named("Storage")) = 1
  /\ Code(TaskTypes, Named("Discharge")) = 2 /\ Code(TaskTypes, Named("Stop")) = 3
<1>1. /\ Len(TaskTypes) = 4 /\ DOMAIN TaskTypes = 1 .. 4
      /\ \A i, j \in 1 .. 4 : TaskTypes[i] = TaskTypes[j] => i = j
      /\ \A i \in 1 .. 4 : TaskTypes[i] # "Unknown"
  BY DEF TaskTypes
<1>2. \A i \in 1 .. 4 : Code(TaskTypes, Named(TaskTypes[i])) = i - 1
  BY <1>1, CodeOf
<1>3. /\ TaskTypes[1] = "Charge" /\ TaskTypes[2] = "Storage" /\ TaskTypes[3] = "Discharge"
      /\ TaskTypes[4] = "Stop"
  BY DEF TaskTypes
<1> QED
  BY <1>2, <1>3

LEMMA LinkTable ==
  Code(LinkTypes, Named("SerialOnly")) = 1 /\ Code(LinkTypes, Named("Both")) = 3
<1>1. /\ Len(LinkTypes) = 4 /\ DOMAIN LinkTypes = 1 .. 4
      /\ \A i, j \in 1 .. 4 : LinkTypes[i] = LinkTypes[j] => i = j
      /\ \A i \in 1 .. 4 : LinkTypes[i] # "Unknown"
  BY DEF LinkTypes
<1>2. \A i \in 1 .. 4 : Code(LinkTypes, Named(LinkTypes[i])) = i - 1
  BY <1>1, CodeOf
<1>3. LinkTypes[2] = "SerialOnly" /\ LinkTypes[4] = "Both"
  BY DEF LinkTypes
<1> QED
  BY <1>2, <1>3

LEMMA BatteryCode ==
  ASSUME NEW battery \in Batteries
  PROVE  /\ Code(BatteryKinds, battery) \in 0 .. 6
         /\ FromCode(BatteryKinds, Code(BatteryKinds, battery)) = battery
<1>1. PICK i \in 1 .. 7 : battery = Named(BatteryKinds[i])
  BY BatteryTable DEF Batteries
<1>2. Code(BatteryKinds, battery) = i - 1 /\ FromCode(BatteryKinds, i - 1) = battery
  <2> DEFINE n == Len(BatteryKinds)
  <2>1. /\ n \in Nat /\ DOMAIN BatteryKinds = 1 .. n /\ i \in 1 .. n
        /\ \A h, j \in 1 .. n : BatteryKinds[h] = BatteryKinds[j] => h = j
        /\ BatteryKinds[i] # "Unknown"
    BY BatteryTable
  <2> QED
    BY <1>1, <2>1, CodeOf
<1> QED
  BY <1>2

\* What a cell of each chemistry is charged, stored and discharged to.
LEMMA VoltTable ==
  ASSUME NEW battery \in Batteries
  PROVE  LET full == VoltOf(max_cell_mv, battery)
             half == VoltOf(store_cell_mv, battery)
             empty == VoltOf(discharge_cell_mv, battery)
         IN /\ full \in Nat /\ half \in Nat /\ empty \in Nat
            /\ full <= 5000 /\ half <= 5000 /\ empty <= 5000
            /\ half # None => half > empty /\ half < full
            /\ (full # None /\ empty # None) => empty < full
<1> DEFINE Ordered(b) ==
             LET full == VoltOf(max_cell_mv, b)
                 half == VoltOf(store_cell_mv, b)
                 empty == VoltOf(discharge_cell_mv, b)
             IN /\ full \in Nat /\ half \in Nat /\ empty \in Nat
                /\ full <= 5000 /\ half <= 5000 /\ empty <= 5000
                /\ half # None => half > empty /\ half < full
                /\ (full # None /\ empty # None) => empty < full
<1>1. Ordered(Named("LiHv"))
  BY DEF VoltOf, max_cell_mv, store_cell_mv, discharge_cell_mv, Named, None
<1>2. Ordered(Named("LiPo"))
  BY DEF VoltOf, max_cell_mv, store_cell_mv, discharge_cell_mv, Named, None
<1>3. Ordered(Named("LiIon"))
  BY DEF VoltOf, max_cell_mv, store_cell_mv, discharge_cell_mv, Named, None
<1>4. Ordered(Named("LiFe"))
  BY DEF VoltOf, max_cell_mv, store_cell_mv, discharge_cell_mv, Named, None
<1>5. Ordered(Named("Pb"))
  BY DEF VoltOf, max_cell_mv, store_cell_mv, discharge_cell_mv, Named, None
<1>6. Ordered(Named("NiMhCd"))
  BY DEF VoltOf, max_cell_mv, store_cell_mv, discharge_cell_mv, Named, None
<1>7. Ordered(Named("ULiHv"))
  BY DEF VoltOf, max_cell_mv, store_cell_mv, discharge_cell_mv, Named, None
<1>8. battery \in {Named("LiHv"), Named("LiPo"), Named("LiIon"), Named("LiFe"),
                   Named("Pb"), Named("NiMhCd"), Named("ULiHv")}
  <2>1. PICK i \in 1 .. 7 : battery = Named(BatteryKinds[i])
    BY BatteryTable DEF Batteries
  <2> QED
    BY <2>1 DEF BatteryKinds
<1> HIDE DEF Ordered
<1>9. Ordered(battery)
  BY <1>1, <1>2, <1>3, <1>4, <1>5, <1>6, <1>7, <1>8
<1> QED
  BY <1>9 DEF Ordered
-----------------------------------------------------------------------------
(* Every task a program starts is safe                                     *)

\* What TaskIsSafe says of a task the charger was given and of what the
\* program meant by it.
Safe(t, task) ==
  LET full == VoltOf(max_cell_mv, FromCode(BatteryKinds, task[3]))
      target == FromLE(SubSeq(task, 10, 11))
  IN t.by \in {"cli", "force", "window"} =>
       /\ (~t.chosen /\ full # None) =>
            IF task[2] = 0 THEN target = full ELSE target < full
       /\ (~t.chosen /\ task[2] = 1) =>
            target > VoltOf(discharge_cell_mv, FromCode(BatteryKinds, task[3]))
       /\ t.by = "cli" => InRange(FromLE(SubSeq(task, 5, 8)), task[9])

\* The same of a task on its way, which is no stop of a program that starts one.
SafeStart(t, task) ==
  Safe(t, task) /\ (task[2] = 3 => t.by \notin {"cli", "force", "window"})

LEMMA StartIsSafe ==
  ASSUME NEW task \in {"Charge", "Storage", "Discharge"}, NEW battery \in Batteries,
         NEW link \in {"SerialOnly", "Both"}, NEW current \in Nat, NEW cells \in Nat,
         NEW volt \in Nat, volt # None, NEW t,
         t.by = "cli" => InRange(current, cells),
         ~t.chosen => volt = DefaultVolt(task, battery)
  PROVE  SafeStart(t, Tail(Data("SetTask",
                TaskArgs(0, Code(TaskTypes, Named(task)), Code(BatteryKinds, battery),
                         Code(LinkTypes, Named(link)), current, cells, volt))))
<1> DEFINE tcode == Code(TaskTypes, Named(task))
           bcode == Code(BatteryKinds, battery)
           lcode == Code(LinkTypes, Named(link))
           p == Tail(Data("SetTask", TaskArgs(0, tcode, bcode, lcode, current, cells, volt)))
           full == VoltOf(max_cell_mv, battery)
           half == VoltOf(store_cell_mv, battery)
           empty == VoltOf(discharge_cell_mv, battery)
<1>1. /\ tcode \in 0 .. 2 /\ (tcode = 0 => task = "Charge") /\ (tcode = 1 => task = "Storage")
      /\ (tcode = 2 => task = "Discharge") /\ lcode \in Nat
  BY TaskTable, LinkTable
<1>2. bcode \in 0 .. 6 /\ FromCode(BatteryKinds, bcode) = battery
  BY BatteryCode
<1>3. /\ full \in Nat /\ half \in Nat /\ empty \in Nat
      /\ full <= 5000 /\ half <= 5000 /\ empty <= 5000
      /\ half # None => half > empty /\ half < full
      /\ (full # None /\ empty # None) => empty < full
  BY VoltTable
<1>4. ~t.chosen => volt = IF tcode = 0 THEN full ELSE IF tcode = 1 THEN half ELSE empty
  BY <1>1 DEF DefaultVolt
<1> HIDE DEF tcode, bcode, lcode, full, half, empty
<1>5. TaskBody(p, tcode, bcode, current, cells, volt)
  <2>1. tcode \in Nat /\ bcode \in Nat /\ lcode \in Nat /\ 0 \in Nat
    BY <1>1, <1>2
  <2> QED
    BY <2>1, TaskPacket
<1> HIDE DEF p
<1>6. p[2] = tcode /\ p[3] = bcode
  <2>1. p[2] = tcode % 256 /\ p[3] = bcode % 256
    BY <1>5 DEF TaskBody
  <2>2. tcode % 256 = tcode /\ bcode % 256 = bcode
    BY <1>1, <1>2
  <2> QED
    BY <2>1, <2>2
<1>7. VoltOf(max_cell_mv, FromCode(BatteryKinds, p[3])) = full
  BY <1>2, <1>6 DEF full
<1>8. VoltOf(discharge_cell_mv, FromCode(BatteryKinds, p[3])) = empty
  BY <1>2, <1>6 DEF empty
<1>9. ASSUME ~t.chosen PROVE FromLE(SubSeq(p, 10, 11)) = volt
  <2>1. volt = full \/ volt = half \/ volt = empty
    BY <1>4, <1>9, Zenon
  <2>2. volt <= 65535
    BY <1>3, <2>1
  <2>3. FromLE(ToLE(volt, 2)) = volt
    BY <2>2, RoundTripTwo
  <2> QED
    BY <1>5, <2>3 DEF TaskBody
<1>10. t.by = "cli" => InRange(FromLE(SubSeq(p, 5, 8)), p[9])
  <2> SUFFICES ASSUME t.by = "cli" PROVE InRange(FromLE(SubSeq(p, 5, 8)), p[9])
    OBVIOUS
  <2>1. current \in 100 .. 5000 /\ cells \in 2 .. 16
    BY DEF InRange, WORK_CURRENT_MA, CM1620_CELLS
  <2>2. FromLE(SubSeq(p, 5, 8)) = current
    <3>1. current <= 65535
      BY <2>1
    <3>2. FromLE(ToLE(current, 4)) = current
      BY <3>1, RoundTripFour
    <3> QED
      BY <1>5, <3>2 DEF TaskBody
  <2>3. p[9] = cells
    BY <1>5, <2>1 DEF TaskBody
  <2> QED
    BY <2>2, <2>3
<1>11. ASSUME ~t.chosen, full # None
       PROVE  IF p[2] = 0 THEN FromLE(SubSeq(p, 10, 11)) = full
              ELSE FromLE(SubSeq(p, 10, 11)) < full
  <2>1. FromLE(SubSeq(p, 10, 11)) = volt
    BY <1>9, <1>11
  <2>2. volt = IF tcode = 0 THEN full ELSE IF tcode = 1 THEN half ELSE empty
    BY <1>4, <1>11
  <2> QED
    BY <1>1, <1>3, <1>6, <1>11, <2>1, <2>2 DEF None
<1>12. ASSUME ~t.chosen, p[2] = 1 PROVE FromLE(SubSeq(p, 10, 11)) > empty
  <2>1. FromLE(SubSeq(p, 10, 11)) = volt
    BY <1>9, <1>12
  <2>2. volt = half
    BY <1>4, <1>6, <1>12
  <2> QED
    BY <1>3, <2>1, <2>2 DEF None
<1>13. Safe(t, p)
  BY <1>7, <1>8, <1>10, <1>11, <1>12 DEF Safe
<1>14. p[2] # 3
  BY <1>1, <1>6
<1>15. SafeStart(t, p)
  BY <1>13, <1>14 DEF SafeStart
<1> QED
  BY <1>15 DEF p, tcode, bcode, lcode

\* The task in the charger is safe, and so is the one on its way to it.
SafeInv ==
  /\ memory = [k \in Setters |-> memory[k]]
  /\ told = [k \in Setters |-> told[k]]
  /\ Safe(told["SetTask"], memory["SetTask"])
  /\ request.kind = "SetTask" => SafeStart(request.told, Tail(request.data))

LEMMA SafeInit == Init => SafeInv
<1> SUFFICES ASSUME Init PROVE SafeInv
  OBVIOUS
<1>1. /\ told = [k \in Setters |-> NothingTold]
      /\ memory = [[k \in Setters |-> Zeros(k)] EXCEPT !["SetTask"][3] = 9]
      /\ request = NoRequest
  BY DEF Init
<1>2. memory = [k \in Setters |-> memory[k]]
  BY <1>1
<1>3. told = [k \in Setters |-> told[k]] /\ told["SetTask"] = NothingTold
  BY <1>1 DEF Setters
<1>4. Safe(told["SetTask"], memory["SetTask"])
  BY <1>3 DEF Safe, NothingTold
<1>5. request.kind # "SetTask"
  BY <1>1 DEF NoRequest
<1> QED
  BY <1>2, <1>3, <1>4, <1>5 DEF SafeInv

\* A call of another kind says nothing of the task.
LEMMA OtherCallIsSafe ==
  ASSUME SafeInv, NEW k, NEW args, NEW words, Call(k, args, words),
         k = "SetTask" => SafeStart(words, Tail(Data("SetTask", args)))
  PROVE  SafeInv'
<1>1. /\ request' = [kind |-> k, data |-> Data(k, args), told |-> words]
      /\ memory' = memory /\ told' = told
  BY DEF Call
<1>2. request'.kind = k /\ request'.data = Data(k, args) /\ request'.told = words
  BY <1>1
<1> QED
  BY <1>1, <1>2 DEF SafeInv

LEMMA StartTaskIsSafe ==
  ASSUME SafeInv,
         NEW task \in {"Charge", "Storage", "Discharge"}, NEW battery \in Batteries,
         NEW link \in {"SerialOnly", "Both"}, NEW current \in Nat, NEW cells \in Nat,
         NEW volt \in Nat, volt # None, NEW t,
         t.by = "cli" => InRange(current, cells),
         ~t.chosen => volt = DefaultVolt(task, battery),
         StartTask(0, task, battery, link, current, cells, volt, t)
  PROVE  SafeInv'
<1> DEFINE args == TaskArgs(0, Code(TaskTypes, Named(task)), Code(BatteryKinds, battery),
                            Code(LinkTypes, Named(link)), current, cells, volt)
<1>1. Call("SetTask", args, t)
  BY DEF StartTask, TaskArgs
<1>2. SafeStart(t, Tail(Data("SetTask", args)))
  BY StartIsSafe
<1> HIDE DEF args
<1> QED
  BY <1>1, <1>2, OtherCallIsSafe

LEMMA InputTypes ==
  /\ \A c \in Currents : c \in Nat
  /\ \A c \in CellCounts : c \in Nat
  /\ \A v \in Volts : v \in Nat
  BY InputsAssumption

LEMMA DefaultVoltType ==
  ASSUME NEW task \in {"Charge", "Storage", "Discharge"}, NEW battery \in Batteries
  PROVE  DefaultVolt(task, battery) \in Nat
<1>1. /\ VoltOf(max_cell_mv, battery) \in Nat /\ VoltOf(store_cell_mv, battery) \in Nat
      /\ VoltOf(discharge_cell_mv, battery) \in Nat
  BY VoltTable
<1> HIDE DEF VoltOf
<1> QED
  BY <1>1 DEF DefaultVolt

LEMMA SafeNext ==
  ASSUME SafeInv, [Next]_vars
  PROVE  SafeInv'
<1>1. /\ \A c \in Currents : c \in Nat
      /\ \A c \in CellCounts : c \in Nat
      /\ \A v \in Volts : v \in Nat
  BY InputTypes
<1>5. ASSUME NEW task \in {"Charge", "Storage", "Discharge"}, NEW battery \in Batteries,
             NEW current \in Currents, NEW cells \in CellCounts, NEW typed \in Volts,
             NEW force \in BOOLEAN,
             Start(task, battery, "Both", current, cells, typed, force)
      PROVE  SafeInv'
  <2> DEFINE volt == IF typed # None THEN typed ELSE DefaultVolt(task, battery)
             t == Started(IF force THEN "force" ELSE "cli", battery, "Both", current,
                          cells, volt, typed # None)
  <2>1. /\ volt # None /\ (force \/ InRange(current, cells))
        /\ StartTask(0, task, battery, "Both", current, cells, volt, t)
    BY <1>5 DEF Start
  <2>2. volt \in Nat /\ (typed = None => volt = DefaultVolt(task, battery))
    BY <1>1, DefaultVoltType
  <2>3. t.by = (IF force THEN "force" ELSE "cli") /\ t.chosen = (typed # None)
    BY DEF Started
  <2> HIDE DEF t, volt
  <2>4. t.by = "cli" => InRange(current, cells)
    BY <2>1, <2>3
  <2>5. ~t.chosen => volt = DefaultVolt(task, battery)
    BY <2>2, <2>3
  <2>6. current \in Nat /\ cells \in Nat
    BY <1>1
  <2> QED
    BY <2>1, <2>2, <2>4, <2>5, <2>6, StartTaskIsSafe
<1>6. ASSUME NEW task \in {"Charge", "Storage", "Discharge"}, NEW battery \in Batteries,
             NEW current \in Currents, NEW cells \in CellCounts,
             WindowStart(task, battery, current, cells)
      PROVE  SafeInv'
  <2> DEFINE volt == DefaultVolt(task, battery)
             t == Started("window", battery, "SerialOnly", current, cells, volt, FALSE)
  <2>1. volt # None /\ StartTask(0, task, battery, "SerialOnly", current, cells, volt, t)
    BY <1>6 DEF WindowStart, Apply
  <2>2. volt \in Nat
    BY DefaultVoltType
  <2>3. t.by = "window"
    BY DEF Started
  <2> HIDE DEF t
  <2>4. current \in Nat /\ cells \in Nat
    BY <1>1
  <2> QED
    BY <2>1, <2>2, <2>3, <2>4, StartTaskIsSafe
<1>7. ASSUME Stop PROVE SafeInv'
  <2> DEFINE t == Started("stop", Named("LiHv"), "SerialOnly", 0, 0, 0, FALSE)
  <2>1. t.by = "stop"
    BY DEF Started
  <2>2. PICK args : Call("SetTask", args, t)
    BY <1>7 DEF Stop, StartTask
  <2> HIDE DEF t
  <2>3. SafeStart(t, Tail(Data("SetTask", args)))
    BY <2>1 DEF SafeStart, Safe
  <2> QED
    BY <2>2, <2>3, OtherCallIsSafe
<1>8. ASSUME NEW volt \in CutoffVolts, NEW watts \in {100, 1100}, Limits(volt, watts)
      PROVE  SafeInv'
  <2>1. PICK args, words : Call("SetLimitParameters", args, words)
    BY <1>8 DEF Limits
  <2> QED
    BY <2>1, OtherCallIsSafe
<1>9. ASSUME NEW enabled \in BOOLEAN, NEW battery \in Batteries, NEW cells \in CellCounts,
             NEW volt \in Volts, NEW current \in Currents,
             OneKey(enabled, battery, cells, volt, current)
      PROVE  SafeInv'
  <2>1. PICK args, words : Call("SetOneKeyLaunch", args, words)
    BY <1>9 DEF OneKey
  <2> QED
    BY <2>1, OtherCallIsSafe
<1>10. ASSUME NEW channel \in {0, 1}, NEW current \in Currents, NEW store \in Volts,
              NEW days \in {0, 255}, BattgoWrite(channel, current, store, 4200, days)
       PROVE  SafeInv'
  <2>1. PICK args, words : Call("BattgoWriteParameters", args, words)
    BY <1>10 DEF BattgoWrite
  <2> QED
    BY <2>1, OtherCallIsSafe
<1>11. ASSUME NEW k \in Kinds, NEW channel \in {0, 1}, Ask(k, channel) PROVE SafeInv'
  <2>1. k # "SetTask"
    BY <1>11 DEF Ask, Setters
  <2>2. PICK args, words : Call(k, args, words)
    BY <1>11 DEF Ask
  <2> QED
    BY <2>1, <2>2, OtherCallIsSafe
<1>12. ASSUME NEW n \in Lengths, NEW refused \in BOOLEAN, Answer(n, refused) PROVE SafeInv'
  <2> DEFINE k == request.kind
  <2>1. /\ memory' = IF k \in Setters /\ ~refused
                     THEN [memory EXCEPT ![k] = Stored(k, Tail(request.data))] ELSE memory
        /\ told' = IF k \in Setters /\ ~refused
                   THEN [told EXCEPT ![k] = request.told] ELSE told
        /\ request' = request
    BY <1>12 DEF Answer
  <2>2. "SetTask" \in Setters
    BY DEF Setters
  <2>3. memory' = [j \in Setters |-> memory'[j]] /\ told' = [j \in Setters |-> told'[j]]
    BY <2>1 DEF SafeInv
  <2>4. Safe(told'["SetTask"], memory'["SetTask"])
    <3>1. CASE k = "SetTask" /\ ~refused
      <4>1. /\ memory'["SetTask"] = Stored("SetTask", Tail(request.data))
            /\ told'["SetTask"] = request.told
        BY <2>1, <2>2, <3>1 DEF SafeInv
      <4>2. PICK p : p = Tail(request.data)
        OBVIOUS
      <4>3. SafeStart(request.told, p)
        BY <3>1, <4>2 DEF SafeInv
      <4>4. CASE p[2] = 3
        BY <4>1, <4>3, <4>4 DEF SafeStart, Safe
      <4>5. CASE p[2] # 3
        <5>1. Stored("SetTask", p) = p
          BY <4>5 DEF Stored
        <5> QED
          BY <4>1, <4>2, <4>3, <5>1 DEF SafeStart
      <4> QED
        BY <4>4, <4>5
    <3>2. CASE ~ (k = "SetTask" /\ ~refused)
      <4>1. memory'["SetTask"] = memory["SetTask"] /\ told'["SetTask"] = told["SetTask"]
        BY <2>1, <2>2, <3>2 DEF SafeInv
      <4> QED
        BY <4>1 DEF SafeInv
    <3> QED
      BY <3>1, <3>2
  <2> QED
    BY <2>1, <2>3, <2>4 DEF SafeInv
<1>13. ASSUME Understand PROVE SafeInv'
  <2>1. request' = NoRequest /\ memory' = memory /\ told' = told
    BY <1>13 DEF Understand
  <2>2. request'.kind # "SetTask"
    BY <2>1 DEF NoRequest
  <2> QED
    BY <2>1, <2>2 DEF SafeInv
<1>14. ASSUME UNCHANGED vars PROVE SafeInv'
  BY <1>14 DEF vars, SafeInv
<1> QED
  BY <1>5, <1>6, <1>7, <1>8, <1>9, <1>10, <1>11, <1>12, <1>13, <1>14 DEF Next

\* Whatever currents, cells and voltages are typed: the bytes the charger was
\* started with hold no more than a full cell of its chemistry where the user
\* named no target, from the command line or from the window, and a current and
\* cells in range when the command line started it without --force
\* (Client::start_task, DefaultVolt and the checks of the command line).
THEOREM TasksAreSafe == Spec => []TaskIsSafe
<1>1. SafeInv => TaskIsSafe
  BY DEF SafeInv, Safe, TaskIsSafe
<1> QED
  BY <1>1, SafeInit, SafeNext, PTL DEF Spec

\* Fields a request is made of: only a name and a block of firmware are longer
\* than a number.
Sound(fields) ==
  \A i \in 1 .. Len(fields) :
    /\ fields[i].size \in {1, 2, 4, 16, 128}
    /\ fields[i].size > 4 => fields[i].name \in {"text", "block"}

LEMMA ChannelFields ==
  ASSUME NEW f, f = <<U8("channel")>>
  PROVE  Sound(f) /\ Total(f, 1)
<1>1. /\ Len(f) = 1 /\ DOMAIN f = 1 .. 1 /\ f[1].size = 1
  BY DEF U8, U16, U32, Field
<1>2. Sound(f)
  BY <1>1 DEF Sound
<1>3. Listed(f)
  BY <1>1 DEF Listed
<1> QED
  BY <1>1, <1>2, <1>3, TotalOfOne

LEMMA TextFields ==
  ASSUME NEW f, f = <<Field("text", 16)>>
  PROVE  Sound(f) /\ Total(f, 16)
<1>1. /\ Len(f) = 1 /\ DOMAIN f = 1 .. 1 /\ f[1].size = 16 /\ f[1].name = "text"
  BY DEF U8, U16, U32, Field
<1>2. Sound(f)
  BY <1>1 DEF Sound
<1>3. Listed(f)
  BY <1>1 DEF Listed
<1> QED
  BY <1>1, <1>2, <1>3, TotalOfOne

LEMMA SetTaskFields ==
  ASSUME NEW f, f = <<U8("channel"), U8("task"), U8("battery"), U8("link"),
                     U32("current_ma"), U8("cells"), U16("volt_mv")>>
  PROVE  Sound(f) /\ Total(f, 11)
<1>1. /\ Len(f) = 7 /\ DOMAIN f = 1 .. 7 /\ f[1].size = 1 /\ f[2].size = 1 /\ f[3].size = 1
      /\ f[4].size = 1 /\ f[5].size = 4 /\ f[6].size = 1 /\ f[7].size = 2
  BY DEF U8, U16, U32, Field
<1>2. Sound(f)
  BY <1>1 DEF Sound
<1>3. Listed(f)
  BY <1>1 DEF Listed
<1> QED
  BY <1>1, <1>2, <1>3, TotalOfSeven

LEMMA SetLimitFields ==
  ASSUME NEW f, f = <<U16("min_input_mv"), U32("max_input_mw")>>
  PROVE  Sound(f) /\ Total(f, 6)
<1>1. /\ Len(f) = 2 /\ DOMAIN f = 1 .. 2 /\ f[1].size = 2 /\ f[2].size = 4
  BY DEF U8, U16, U32, Field
<1>2. Sound(f)
  BY <1>1 DEF Sound
<1>3. Listed(f)
  BY <1>1 DEF Listed
<1> QED
  BY <1>1, <1>2, <1>3, TotalOfTwo

LEMMA OneKeyFields ==
  ASSUME NEW f, f = <<U8("enabled"), U8("battery"), U8("cells"), U16("volt_mv"),
                     U32("current_ma")>>
  PROVE  Sound(f) /\ Total(f, 9)
<1>1. /\ Len(f) = 5 /\ DOMAIN f = 1 .. 5 /\ f[1].size = 1 /\ f[2].size = 1 /\ f[3].size = 1
      /\ f[4].size = 2 /\ f[5].size = 4
  BY DEF U8, U16, U32, Field
<1>2. Sound(f)
  BY <1>1 DEF Sound
<1>3. Listed(f)
  BY <1>1 DEF Listed
<1> QED
  BY <1>1, <1>2, <1>3, TotalOfFive

LEMMA SmartPowerFields ==
  ASSUME NEW f, f = <<U16("safe_word"), U8("setting"), U16("value")>>
  PROVE  Sound(f) /\ Total(f, 5)
<1>1. /\ Len(f) = 3 /\ DOMAIN f = 1 .. 3 /\ f[1].size = 2 /\ f[2].size = 1 /\ f[3].size = 2
  BY DEF U8, U16, U32, Field
<1>2. Sound(f)
  BY <1>1 DEF Sound
<1>3. Listed(f)
  BY <1>1 DEF Listed
<1> QED
  BY <1>1, <1>2, <1>3, TotalOfThree

LEMMA BattgoFields ==
  ASSUME NEW f, f = <<U8("channel"), U32("current_ma"), U16("store_mv"), U16("volt_mv"),
                     U8("days")>>
  PROVE  Sound(f) /\ Total(f, 10)
<1>1. /\ Len(f) = 5 /\ DOMAIN f = 1 .. 5 /\ f[1].size = 1 /\ f[2].size = 4 /\ f[3].size = 2
      /\ f[4].size = 2 /\ f[5].size = 1
  BY DEF U8, U16, U32, Field
<1>2. Sound(f)
  BY <1>1 DEF Sound
<1>3. Listed(f)
  BY <1>1 DEF Listed
<1> QED
  BY <1>1, <1>2, <1>3, TotalOfFive

LEMMA CalibrateFirstFields ==
  ASSUME NEW f, f = <<U8("channel"), U8("mode")>>
  PROVE  Sound(f) /\ Total(f, 2)
<1>1. /\ Len(f) = 2 /\ DOMAIN f = 1 .. 2 /\ f[1].size = 1 /\ f[2].size = 1
  BY DEF U8, U16, U32, Field
<1>2. Sound(f)
  BY <1>1 DEF Sound
<1>3. Listed(f)
  BY <1>1 DEF Listed
<1> QED
  BY <1>1, <1>2, <1>3, TotalOfTwo

LEMMA CalibrateLastFields ==
  ASSUME NEW f, f = <<U16("input_mv"), U16("output_mv")>>
  PROVE  Sound(f) /\ Total(f, 4)
<1>1. /\ Len(f) = 2 /\ DOMAIN f = 1 .. 2 /\ f[1].size = 2 /\ f[2].size = 2
  BY DEF U8, U16, U32, Field
<1>2. Sound(f)
  BY <1>1 DEF Sound
<1>3. Listed(f)
  BY <1>1 DEF Listed
<1> QED
  BY <1>1, <1>2, <1>3, TotalOfTwo

LEMMA MagicFields ==
  ASSUME NEW f, f = <<U8("magic")>>
  PROVE  Sound(f) /\ Total(f, 1)
<1>1. /\ Len(f) = 1 /\ DOMAIN f = 1 .. 1 /\ f[1].size = 1
  BY DEF U8, U16, U32, Field
<1>2. Sound(f)
  BY <1>1 DEF Sound
<1>3. Listed(f)
  BY <1>1 DEF Listed
<1> QED
  BY <1>1, <1>2, <1>3, TotalOfOne

LEMMA EraseFields ==
  ASSUME NEW f, f = <<U8("cpu"), U32("address"), U32("size")>>
  PROVE  Sound(f) /\ Total(f, 9)
<1>1. /\ Len(f) = 3 /\ DOMAIN f = 1 .. 3 /\ f[1].size = 1 /\ f[2].size = 4 /\ f[3].size = 4
  BY DEF U8, U16, U32, Field
<1>2. Sound(f)
  BY <1>1 DEF Sound
<1>3. Listed(f)
  BY <1>1 DEF Listed
<1> QED
  BY <1>1, <1>2, <1>3, TotalOfThree

LEMMA WriteAppFields ==
  ASSUME NEW f, f = <<U8("cpu"), U32("address"), Field("block", WRITE_APP_BLOCK)>>
  PROVE  Sound(f) /\ Total(f, 133)
<1>1. /\ Len(f) = 3 /\ DOMAIN f = 1 .. 3 /\ f[1].size = 1 /\ f[2].size = 4 /\ f[3].size = 128
      /\ f[3].name = "block"
  BY DEF U8, U16, U32, Field, WRITE_APP_BLOCK
<1>2. Sound(f)
  BY <1>1 DEF Sound
<1>3. Listed(f)
  BY <1>1 DEF Listed
<1> QED
  BY <1>1, <1>2, <1>3, TotalOfThree

LEMMA ChecksumAppFields ==
  ASSUME NEW f, f = <<U8("sub"), U8("cpu"), U32("address"), U32("size"), U32("checksum")>>
  PROVE  Sound(f) /\ Total(f, 14)
<1>1. /\ Len(f) = 5 /\ DOMAIN f = 1 .. 5 /\ f[1].size = 1 /\ f[2].size = 1 /\ f[3].size = 4
      /\ f[4].size = 4 /\ f[5].size = 4
  BY DEF U8, U16, U32, Field
<1>2. Sound(f)
  BY <1>1 DEF Sound
<1>3. Listed(f)
  BY <1>1 DEF Listed
<1> QED
  BY <1>1, <1>2, <1>3, TotalOfFive

LEMMA TimesFields ==
  ASSUME NEW n \in Nat, NEW name, NEW f, f = Times(n, U16(name))
  PROVE  Sound(f) /\ Total(f, 2 * n)
<1>1. Len(f) = n /\ DOMAIN f = 1 .. n /\ \A i \in 1 .. n : f[i].size = 2
  BY DEF Times, U16, Field
<1>2. Sound(f)
  BY <1>1 DEF Sound
<1>3. Listed(f)
  BY <1>1 DEF Listed
<1> DEFINE w == [i \in 0 .. n |-> 2 * i]
<1>4. w \in [0 .. n -> Nat] /\ w[0] = 0 /\ w[n] = 2 * n
  OBVIOUS
<1>5. \A i \in 1 .. n : w[i] = w[i - 1] + f[i].size
  BY <1>1
<1> HIDE DEF w
<1>6. Widths(w, Len(f), SizeOf(f))
  BY <1>1, <1>4, <1>5 DEF Widths, SizeOf
<1> QED
  BY <1>1, <1>2, <1>3, <1>4, <1>6 DEF Total

LEMMA SoundJoined ==
  ASSUME NEW f, NEW g, NEW m, NEW n, Sound(f), Total(f, m), Sound(g), Total(g, n)
  PROVE  Sound(f \o g) /\ Total(f \o g, m + n)
<1>1. /\ Len(f) \in Nat /\ Len(g) \in Nat /\ Len(f \o g) = Len(f) + Len(g)
      /\ \A i \in 1 .. Len(f) + Len(g) :
           (f \o g)[i] = IF i <= Len(f) THEN f[i] ELSE g[i - Len(f)]
  BY DEF Total, Listed
<1>2. ASSUME NEW i \in 1 .. Len(f) + Len(g)
      PROVE  \/ i \in 1 .. Len(f) /\ (f \o g)[i] = f[i]
             \/ i - Len(f) \in 1 .. Len(g) /\ (f \o g)[i] = g[i - Len(f)]
  BY <1>1
<1>3. Sound(f \o g)
  BY <1>1, <1>2 DEF Sound
<1> QED
  BY <1>3, TotalOfJoined

\* Every request of the table has sound fields of the documented length.
LEMMA RequestFields ==
  ASSUME NEW k \in RequestKinds \ {"Raw"}
  PROVE  Sound(Arguments(k)) /\ Total(Arguments(k), Documented[k] - 1)
<1> DEFINE F == Arguments(k)
           D == Documented[k]
           None0 == {"Identify", "SmartPowerInfo", "SmartPowerParameters", "OneKeyLaunch",
                     "HardwareInfo", "LimitParameters"}
<1>1. CASE k \in PerChannel
  <2>1. F = <<U8("channel")>> /\ D = 2
    BY <1>1 DEF Arguments, Documented, PerChannel
  <2> QED
    BY <2>1, ChannelFields
<1>2. CASE k \in {"Bind", "SetName"}
  <2>1. F = <<Field("text", 16)>> /\ D = 17
    BY <1>2 DEF Arguments, Documented, PerChannel
  <2> QED
    BY <2>1, TextFields
<1>3. CASE k = "SetTask"
  <2>1. D = 12
    BY <1>3 DEF Documented, PerChannel
  <2>2. F = <<U8("channel"), U8("task"), U8("battery"), U8("link"),
              U32("current_ma"), U8("cells"), U16("volt_mv")>>
    BY <1>3 DEF Arguments, PerChannel
  <2> QED
    BY <2>1, <2>2, SetTaskFields
<1>4. CASE k = "SetLimitParameters"
  <2>1. D = 7 /\ F = <<U16("min_input_mv"), U32("max_input_mw")>>
    BY <1>4 DEF Arguments, Documented, PerChannel
  <2> QED
    BY <2>1, SetLimitFields
<1>5. CASE k = "SetOneKeyLaunch"
  <2>1. D = 10
    BY <1>5 DEF Documented, PerChannel
  <2>2. F = <<U8("enabled"), U8("battery"), U8("cells"), U16("volt_mv"), U32("current_ma")>>
    BY <1>5 DEF Arguments, PerChannel
  <2> QED
    BY <2>1, <2>2, OneKeyFields
<1>6. CASE k = "SetSmartPower"
  <2>1. D = 6 /\ F = <<U16("safe_word"), U8("setting"), U16("value")>>
    BY <1>6 DEF Arguments, Documented, PerChannel
  <2> QED
    BY <2>1, SmartPowerFields
<1>7. CASE k = "BattgoWriteParameters"
  <2>1. D = 11
    BY <1>7 DEF Documented, PerChannel
  <2>2. F = <<U8("channel"), U32("current_ma"), U16("store_mv"), U16("volt_mv"), U8("days")>>
    BY <1>7 DEF Arguments, PerChannel
  <2> QED
    BY <2>1, <2>2, BattgoFields
<1>8. CASE k \in {"Calibrate6", "Calibrate8"}
  <2> DEFINE n == IF k = "Calibrate6" THEN 6 ELSE 8
             a == <<U8("channel"), U8("mode")>>
             b == Times(n, U16("cell_mv"))
             c == <<U16("input_mv"), U16("output_mv")>>
  <2>1. n \in Nat /\ D = 7 + 2 * n
    BY <1>8 DEF Documented, PerChannel
  <2>2. F = a \o b \o c
    BY <1>8 DEF Arguments, PerChannel
  <2>3. Sound(a) /\ Total(a, 2)
    BY CalibrateFirstFields
  <2>4. Sound(c) /\ Total(c, 4)
    BY CalibrateLastFields
  <2> HIDE DEF n, a, c, D, F
  <2>5. Sound(b) /\ Total(b, 2 * n)
    BY <2>1, TimesFields
  <2> HIDE DEF b
  <2>6. Sound(a \o b) /\ Total(a \o b, 2 + 2 * n)
    BY <2>3, <2>5, SoundJoined
  <2>7. Sound(F) /\ Total(F, (2 + 2 * n) + 4)
    BY <2>2, <2>4, <2>6, SoundJoined
  <2>8. (2 + 2 * n) + 4 = D - 1
    BY <2>1
  <2> QED
    BY <2>7, <2>8 DEF F, D
<1>9. CASE k \in {"EnterBootloader", "Reboot"}
  <2>1. D = 2 /\ F = <<U8("magic")>>
    BY <1>9 DEF Arguments, Documented, PerChannel
  <2> QED
    BY <2>1, MagicFields
<1>10. CASE k = "EraseApp"
  <2>1. D = 10 /\ F = <<U8("cpu"), U32("address"), U32("size")>>
    BY <1>10 DEF Arguments, Documented, PerChannel
  <2> QED
    BY <2>1, EraseFields
<1>11. CASE k = "WriteApp"
  <2>1. D = 134 /\ F = <<U8("cpu"), U32("address"), Field("block", WRITE_APP_BLOCK)>>
    BY <1>11 DEF Arguments, Documented, PerChannel
  <2> QED
    BY <2>1, WriteAppFields
<1>12. CASE k = "ChecksumApp"
  <2>1. D = 15
    BY <1>12 DEF Documented, PerChannel
  <2>2. F = <<U8("sub"), U8("cpu"), U32("address"), U32("size"), U32("checksum")>>
    BY <1>12 DEF Arguments, PerChannel
  <2> QED
    BY <2>1, <2>2, ChecksumAppFields
<1>13. CASE k \in None0
  <2>1. F = <<>> /\ D = 1
    BY <1>13 DEF Arguments, Documented, PerChannel, RequestKinds, CommandWord
  <2>2. Sound(F) /\ Listed(F) /\ Len(F) = 0
    BY <2>1 DEF Sound, Listed
  <2>3. Total(F, 0)
    BY <2>2, TotalOfNothing
  <2> QED
    BY <2>1, <2>2, <2>3
<1>14. \/ k \in PerChannel \/ k \in {"Bind", "SetName"} \/ k = "SetTask"
       \/ k = "SetLimitParameters" \/ k = "SetOneKeyLaunch" \/ k = "SetSmartPower"
       \/ k = "BattgoWriteParameters" \/ k \in {"Calibrate6", "Calibrate8"}
       \/ k \in {"EnterBootloader", "Reboot"} \/ k = "EraseApp" \/ k = "WriteApp"
       \/ k = "ChecksumApp" \/ k \in None0
  BY DEF RequestKinds, CommandWord, PerChannel
<1> HIDE DEF F, D, None0
<1> QED
  BY <1>1, <1>2, <1>3, <1>4, <1>5, <1>6, <1>7, <1>8, <1>9, <1>10, <1>11, <1>12, <1>13, <1>14
     DEF F, D

\* Arguments that are numbers, none of them where a name or a block belongs.
Numbers(args) ==
  \A name \in DOMAIN args : args[name] \in Nat /\ name \notin {"text", "block"}

\* Whatever the numbers: the packet has the documented length, and its bytes
\* are bytes.
LEMMA PacketType ==
  ASSUME NEW k \in RequestKinds \ {"Raw"}, NEW args, Numbers(args)
  PROVE  /\ Data(k, args) \in Seq(Byte) /\ Len(Data(k, args)) = Documented[k]
         /\ Tail(Data(k, args)) \in Seq(Byte)
<1> DEFINE F == Arguments(k)
           N == Len(F)
           puts == [i \in DOMAIN F |-> Put(k, F[i], args)]
           flat == FlattenSeq(puts)
<1>1. Sound(F) /\ Total(F, Documented[k] - 1)
  BY RequestFields
<1> HIDE DEF F
<1>2. N \in Nat /\ DOMAIN F = 1 .. N
  BY <1>1 DEF Total, Listed
<1>3. ASSUME NEW i \in 1 .. N
      PROVE  Put(k, F[i], args) \in Seq(Byte) /\ Len(Put(k, F[i], args)) = F[i].size
  <2>1. F[i].size \in {1, 2, 4, 16, 128} /\ (F[i].size > 4 => F[i].name \in {"text", "block"})
    BY <1>1 DEF Sound
  <2>2. F[i].name \in DOMAIN args =>
          args[F[i].name] \in IF F[i].size > 4 THEN Seq(Byte) ELSE Nat
    BY <2>1 DEF Numbers
  <2> QED
    BY <2>1, <2>2, PutType
<1>4. puts \in Seq(Seq(Byte)) /\ Len(puts) = N
  <2> DEFINE T == Seq(Byte)
             P(i) == Put(k, F[i], args)
  <2>1. \A i \in 1 .. N : P(i) \in T
    BY <1>3
  <2>2. puts = [i \in 1 .. N |-> P(i)]
    BY <1>2
  <2> HIDE DEF T, P, puts, N
  <2>3. puts \in [1 .. N -> T] /\ puts \in Seq(T)
    BY <1>2, <2>1, <2>2, SeqDef
  <2>4. Len(puts) = N
    BY <1>2, <2>3, LenProperties
  <2> QED
    BY <2>3, <2>4 DEF T
<1>5. \A i \in 1 .. N : puts[i] = Put(k, F[i], args)
  BY <1>2
<1>6. PICK w : Widths(w, N, SizeOf(F)) /\ w[N] = Documented[k] - 1
  BY <1>1 DEF Total
<1> HIDE DEF puts, N
<1>7. \A i \in 1 .. Len(puts) : Len(puts[i]) = SizeOf(F)[i]
  BY <1>3, <1>4, <1>5 DEF SizeOf, N
<1>8. flat \in Seq(Byte) /\ Len(flat) = Documented[k] - 1
  BY <1>4, <1>6, <1>7, FlatHolds
<1> HIDE DEF flat
<1>9. Data(k, args) = <<CommandWord[k]>> \o flat
  BY DEF Data, flat, puts, F
<1>10. CommandWord[k] \in Byte
  BY DEF CommandWord, RequestKinds, Byte
<1>11. Documented[k] \in Nat
  BY DEF Documented
<1>12. PICK x \in Seq(Byte) : x = flat
  BY <1>8
<1>13. PICK b \in Byte : b = CommandWord[k]
  BY <1>10
<1>14. <<b>> \o x \in Seq(Byte) /\ Len(<<b>> \o x) = 1 + Len(x) /\ Tail(<<b>> \o x) = x
  OBVIOUS
<1> QED
  BY <1>8, <1>9, <1>11, <1>12, <1>13, <1>14
-----------------------------------------------------------------------------
(* The calls keep their shape                                              *)

Request(r) ==
  r # NoRequest =>
    /\ r.data \in Seq(Byte) /\ Encodable(r.data) /\ Len(r.data) = Documented[r.kind]
    /\ Tail(r.data) \in Seq(Byte)

TypeInv ==
  /\ calls \in 0 .. MaxCalls /\ settings \in 0 .. MaxSettings
  /\ memory = [k \in Setters |-> memory[k]]
  /\ \A k \in Setters : memory[k] \in Seq(Byte)
  /\ Request(request)

LEMMA DocumentedFits ==
  ASSUME NEW k \in RequestKinds
  PROVE  Documented[k] \in Nat /\ 1 <= Documented[k] /\ Documented[k] <= MAX_DATA_LEN
  BY DEF Documented, MAX_DATA_LEN

LEMMA TypeInit == Init => TypeInv
<1> SUFFICES ASSUME Init PROVE TypeInv
  OBVIOUS
<1> DEFINE zeros == [k \in Setters |-> Zeros(k)]
<1>1. /\ memory = [zeros EXCEPT !["SetTask"][3] = 9]
      /\ request = NoRequest /\ calls = 0 /\ settings = 0
  BY DEF Init
<1>2. ASSUME NEW k \in Setters PROVE Zeros(k) \in Seq(Byte)
  <2>1. k \in RequestKinds \ {"Raw"}
    BY DEF Setters, RequestKinds, CommandWord
  <2>2. Numbers(<<>>)
    BY DEF Numbers
  <2>3. Len(Data(k, <<>>)) \in Nat \ {0}
    BY <2>1, <2>2, PacketType, DocumentedFits DEF MAX_DATA_LEN
  <2>4. PICK n \in Nat : n = Len(Data(k, <<>>)) - 1
    BY <2>3
  <2>5. Zeros(k) = [i \in 1 .. n |-> 0] /\ 0 \in Byte
    BY <2>4 DEF Zeros, Byte
  <2> QED
    BY <2>5, SeqDef
<1>3. PICK z \in Seq(Byte) : z = zeros["SetTask"]
  BY <1>2 DEF Setters
<1>4. [z EXCEPT ![3] = 9] \in Seq(Byte)
  <2>1. 9 \in Byte
    BY DEF Byte
  <2>2. CASE 3 \in 1 .. Len(z)
    BY <2>1, <2>2, ExceptSeq
  <2>3. CASE 3 \notin 1 .. Len(z)
    <3>1. [z EXCEPT ![3] = 9] = z
      BY <2>3
    <3> QED
      BY <3>1
  <2> QED
    BY <2>2, <2>3
<1>5. zeros = [k \in Setters |-> zeros[k]] /\ \A k \in Setters : zeros[k] \in Seq(Byte)
  BY <1>2
<1> HIDE DEF zeros
<1>6. memory = [k \in Setters |-> IF k = "SetTask" THEN [z EXCEPT ![3] = 9] ELSE zeros[k]]
  BY <1>1, <1>3, <1>5 DEF Setters
<1>7. memory = [k \in Setters |-> memory[k]] /\ \A k \in Setters : memory[k] \in Seq(Byte)
  BY <1>4, <1>5, <1>6
<1>8. Request(request)
  BY <1>1 DEF Request
<1>9. calls \in 0 .. MaxCalls /\ settings \in 0 .. MaxSettings
  BY <1>1, BoundsAssumption
<1> QED
  BY <1>7, <1>8, <1>9 DEF TypeInv

LEMMA CallKeepsType ==
  ASSUME TypeInv, NEW k, NEW args, NEW words, Call(k, args, words), Numbers(args)
  PROVE  TypeInv'
<1>1. /\ k \in RequestKinds \ {"Raw"} /\ calls < MaxCalls
      /\ k \in Setters => settings < MaxSettings
      /\ request' = [kind |-> k, data |-> Data(k, args), told |-> words]
      /\ settings' = settings + (IF k \in Setters THEN 1 ELSE 0)
      /\ calls' = calls + 1 /\ memory' = memory
  BY KindsAssumption DEF Call
<1>2. /\ Data(k, args) \in Seq(Byte) /\ Len(Data(k, args)) = Documented[k]
      /\ Tail(Data(k, args)) \in Seq(Byte)
  BY <1>1, PacketType
<1>3. Encodable(Data(k, args))
  <2>1. Documented[k] <= MAX_DATA_LEN
    BY <1>1, DocumentedFits
  <2> QED
    BY <1>2, <2>1 DEF Encodable
<1>4. request'.kind = k /\ request'.data = Data(k, args)
  BY <1>1
<1>5. Request(request')
  BY <1>2, <1>3, <1>4 DEF Request
<1>6. calls' \in 0 .. MaxCalls /\ settings' \in 0 .. MaxSettings
  BY <1>1, BoundsAssumption DEF TypeInv
<1> QED
  BY <1>1, <1>5, <1>6 DEF TypeInv, Request

LEMMA CodeIsNat ==
  /\ \A battery \in Batteries : Code(BatteryKinds, battery) \in Nat
  /\ \A task \in {"Charge", "Storage", "Discharge", "Stop"} :
       Code(TaskTypes, Named(task)) \in Nat
  /\ \A link \in {"SerialOnly", "Both"} : Code(LinkTypes, Named(link)) \in Nat
  BY BatteryCode, TaskTable, LinkTable

LEMMA StartKeepsType ==
  ASSUME TypeInv, NEW task \in {"Charge", "Storage", "Discharge", "Stop"},
         NEW battery \in Batteries, NEW link \in {"SerialOnly", "Both"},
         NEW current \in Nat, NEW cells \in Nat, NEW volt \in Nat, NEW t,
         StartTask(0, task, battery, link, current, cells, volt, t)
  PROVE  TypeInv'
<1> DEFINE args == [channel |-> 0, task |-> Code(TaskTypes, Named(task)),
                    battery |-> Code(BatteryKinds, battery),
                    link |-> Code(LinkTypes, Named(link)),
                    current_ma |-> current, cells |-> cells, volt_mv |-> volt]
<1>1. Call("SetTask", args, t)
  BY DEF StartTask
<1>2. Numbers(args)
  BY CodeIsNat DEF Numbers
<1> HIDE DEF args
<1> QED
  BY <1>1, <1>2, CallKeepsType

\* What the charger keeps of a setting is made of bytes as the setting is.
LEMMA StoredIsBytes ==
  ASSUME NEW k \in Setters, memory[k] \in Seq(Byte), NEW args \in Seq(Byte)
  PROVE  Stored(k, args) \in Seq(Byte)
<1>1. PICK m \in Seq(Byte) : m = memory[k]
  OBVIOUS
<1>2. [m EXCEPT ![2] = 3] \in Seq(Byte)
  <2>1. 3 \in Byte
    BY DEF Byte
  <2>2. CASE 2 \in 1 .. Len(m)
    BY <2>1, <2>2, ExceptSeq
  <2>3. CASE 2 \notin 1 .. Len(m)
    <3>1. [m EXCEPT ![2] = 3] = m
      BY <2>3
    <3> QED
      BY <3>1
  <2> QED
    BY <2>2, <2>3
<1> QED
  BY <1>1, <1>2 DEF Stored

LEMMA TypeNext ==
  ASSUME TypeInv, [Next]_vars
  PROVE  TypeInv'
<1>1. /\ \A c \in Currents : c \in Nat
      /\ \A c \in CellCounts : c \in Nat
      /\ \A v \in Volts : v \in Nat
  BY InputTypes
<1>2. ASSUME NEW task \in {"Charge", "Storage", "Discharge"}, NEW battery \in Batteries,
             NEW current \in Currents, NEW cells \in CellCounts, NEW typed \in Volts,
             NEW force \in BOOLEAN,
             Start(task, battery, "Both", current, cells, typed, force)
      PROVE  TypeInv'
  <2> DEFINE volt == IF typed # None THEN typed ELSE DefaultVolt(task, battery)
  <2>1. PICK t : StartTask(0, task, battery, "Both", current, cells, volt, t)
    BY <1>2 DEF Start
  <2>2. volt \in Nat
    BY <1>1, DefaultVoltType
  <2> HIDE DEF volt
  <2>3. current \in Nat /\ cells \in Nat
    BY <1>1
  <2> QED
    BY <2>1, <2>2, <2>3, StartKeepsType
<1>3. ASSUME NEW task \in {"Charge", "Storage", "Discharge"}, NEW battery \in Batteries,
             NEW current \in Currents, NEW cells \in CellCounts,
             WindowStart(task, battery, current, cells)
      PROVE  TypeInv'
  <2> DEFINE volt == DefaultVolt(task, battery)
  <2>1. PICK t : StartTask(0, task, battery, "SerialOnly", current, cells, volt, t)
    BY <1>3 DEF WindowStart, Apply
  <2>2. volt \in Nat
    BY DefaultVoltType
  <2> HIDE DEF volt
  <2>3. current \in Nat /\ cells \in Nat
    BY <1>1
  <2> QED
    BY <2>1, <2>2, <2>3, StartKeepsType
<1>4. ASSUME Stop PROVE TypeInv'
  <2>1. PICK t : StartTask(0, "Stop", Named("LiHv"), "SerialOnly", 0, 0, 0, t)
    BY <1>4 DEF Stop
  <2>2. Named("LiHv") \in Batteries
    <3>1. BatteryKinds[1] = "LiHv" /\ 1 \in DOMAIN BatteryKinds
      BY DEF BatteryKinds
    <3> QED
      BY <3>1 DEF Batteries
  <2> QED
    BY <2>1, <2>2, StartKeepsType
<1>5. ASSUME NEW volt \in CutoffVolts, NEW watts \in {100, 1100}, Limits(volt, watts)
      PROVE  TypeInv'
  <2> DEFINE args == [min_input_mv |-> (volt * 1000) % 65536, max_input_mw |-> watts * 1000]
  <2>1. PICK words : Call("SetLimitParameters", args, words)
    BY <1>5 DEF Limits
  <2>2. (volt * 1000) % 65536 \in Nat /\ watts * 1000 \in Nat
    <3>1. volt \in Nat
      BY InputsAssumption
    <3> QED
      BY <3>1, SMT
  <2>3. Numbers(args)
    BY <2>2 DEF Numbers
  <2> HIDE DEF args
  <2> QED
    BY <2>1, <2>3, CallKeepsType
<1>6. ASSUME NEW enabled \in BOOLEAN, NEW battery \in Batteries, NEW cells \in CellCounts,
             NEW volt \in Volts, NEW current \in Currents,
             OneKey(enabled, battery, cells, volt, current)
      PROVE  TypeInv'
  <2> DEFINE args == [Profile(enabled, battery, cells, volt, current)
                        EXCEPT !.enabled = IF enabled THEN 1 ELSE 0,
                               !.battery = Code(BatteryKinds, battery)]
  <2>1. PICK words : Call("SetOneKeyLaunch", args, words)
    BY <1>6 DEF OneKey
  <2>2. /\ DOMAIN args = {"enabled", "battery", "cells", "volt_mv", "current_ma"}
        /\ args.enabled = (IF enabled THEN 1 ELSE 0)
        /\ args.battery = Code(BatteryKinds, battery)
        /\ args.cells = cells /\ args.volt_mv = volt /\ args.current_ma = current
    BY DEF Profile
  <2>3. /\ args.enabled \in Nat /\ args.battery \in Nat /\ args.cells \in Nat
        /\ args.volt_mv \in Nat /\ args.current_ma \in Nat
    BY <1>1, <2>2, CodeIsNat
  <2>4. Numbers(args)
    <3> HIDE DEF args
    <3> QED
      BY <2>2, <2>3 DEF Numbers
  <2> HIDE DEF args
  <2> QED
    BY <2>1, <2>4, CallKeepsType
<1>7. ASSUME NEW channel \in {0, 1}, NEW current \in Currents, NEW store \in Volts,
             NEW days \in {0, 255}, BattgoWrite(channel, current, store, 4200, days)
      PROVE  TypeInv'
  <2> DEFINE args == [channel |-> channel, current_ma |-> current, store_mv |-> store,
                      volt_mv |-> 4200, days |-> days]
  <2>1. PICK words : Call("BattgoWriteParameters", args, words)
    BY <1>7 DEF BattgoWrite
  <2>2. Numbers(args)
    BY <1>1 DEF Numbers
  <2> HIDE DEF args
  <2> QED
    BY <2>1, <2>2, CallKeepsType
<1>8. ASSUME NEW k \in Kinds, NEW channel \in {0, 1}, Ask(k, channel) PROVE TypeInv'
  <2> DEFINE args == [channel |-> channel]
  <2>1. PICK words : Call(k, args, words)
    BY <1>8 DEF Ask
  <2>2. Numbers(args)
    BY DEF Numbers
  <2> HIDE DEF args
  <2> QED
    BY <2>1, <2>2, CallKeepsType
<1>9. ASSUME NEW n \in Lengths, NEW refused \in BOOLEAN, Answer(n, refused) PROVE TypeInv'
  <2> DEFINE k == request.kind
  <2>1. /\ memory' = IF k \in Setters /\ ~refused
                     THEN [memory EXCEPT ![k] = Stored(k, Tail(request.data))] ELSE memory
        /\ request # NoRequest /\ UNCHANGED <<request, calls, settings>>
    BY <1>9 DEF Answer
  <2>2. Tail(request.data) \in Seq(Byte)
    BY <2>1 DEF TypeInv, Request
  <2>3. k \in Setters => Stored(k, Tail(request.data)) \in Seq(Byte)
    BY <2>2, StoredIsBytes DEF TypeInv
  <2>4. memory' = [j \in Setters |-> memory'[j]] /\ \A j \in Setters : memory'[j] \in Seq(Byte)
    BY <2>1, <2>3 DEF TypeInv
  <2> QED
    BY <2>1, <2>4 DEF TypeInv, Request
<1>10. ASSUME Understand PROVE TypeInv'
  <2>1. request' = NoRequest /\ UNCHANGED <<memory, calls, settings>>
    BY <1>10 DEF Understand
  <2> QED
    BY <2>1 DEF TypeInv, Request
<1>11. ASSUME UNCHANGED vars PROVE TypeInv'
  BY <1>11 DEF vars, TypeInv, Request
<1> QED
  BY <1>2, <1>3, <1>4, <1>5, <1>6, <1>7, <1>8, <1>9, <1>10, <1>11 DEF Next

\* Every request the client encodes is made of bytes, has the length the
\* protocol gives it and fits a frame, whatever the program asked for.
THEOREM WireIsTyped == Spec => []TypeOK
<1>1. TypeInv => TypeOK
  BY DEF TypeInv, TypeOK, Request
<1> QED
  BY <1>1, TypeInit, TypeNext, PTL DEF Spec
-----------------------------------------------------------------------------
(* The reader                                                              *)

Readers(V) == [pos : Nat, failed : BOOLEAN, values : Seq(V)]

\* V holds whatever can be read of the body.
Readable(V, body, fields) ==
  \A i \in 1 .. Len(fields) : \A a, b \in Nat : Got(fields[i], SubSeq(body, a, b)) \in V

LEMMA TakeType ==
  ASSUME NEW V, NEW body, NEW field, field.size \in Nat, NEW r \in Readers(V),
         \A a, b \in Nat : Got(field, SubSeq(body, a, b)) \in V
  PROVE  Take(r, body, field) \in Readers(V)
<1> DEFINE g == Got(field, SubSeq(body, r.pos + 1, r.pos + field.size))
<1>1. /\ r.pos \in Nat /\ r.failed \in BOOLEAN /\ r.values \in Seq(V)
      /\ r = [pos |-> r.pos, failed |-> r.failed, values |-> r.values]
  BY DEF Readers
<1>2. g \in V
  <2>1. PICK a, b \in Nat : a = r.pos + 1 /\ b = r.pos + field.size
    BY <1>1
  <2> QED
    BY <2>1
<1> HIDE DEF g
<1>3. Append(r.values, g) \in Seq(V)
  BY <1>1, <1>2
<1>4. CASE r.failed \/ r.pos + field.size > Len(body)
  <2>1. Take(r, body, field) = [pos |-> r.pos, failed |-> TRUE, values |-> r.values]
    BY <1>1, <1>4 DEF Take
  <2> QED
    BY <1>1, <2>1 DEF Readers
<1>5. CASE ~ (r.failed \/ r.pos + field.size > Len(body))
  <2>1. Take(r, body, field) = [r EXCEPT !.pos = @ + field.size, !.values = Append(@, g)]
    BY <1>5 DEF Take, g
  <2>2. Take(r, body, field) = [pos |-> r.pos + field.size, failed |-> r.failed,
                                values |-> Append(r.values, g)]
    BY <1>1, <2>1
  <2> QED
    BY <1>1, <1>3, <2>2 DEF Readers
<1> QED
  BY <1>4, <1>5

\* The readers between the fields.
LEMMA TakeAllIs ==
  ASSUME NEW V, NEW body, NEW fields, Listed(fields), Readable(V, body, fields),
         NEW r \in Readers(V)
  PROVE  \E f \in [0 .. Len(fields) -> Readers(V)] :
           /\ f[0] = r /\ TakeAll(r, body, fields) = f[Len(fields)]
           /\ \A n \in 1 .. Len(fields) : f[n] = Take(f[n - 1], body, fields[n])
<1> DEFINE N == Len(fields)
           X == Readers(V)
           E == {fields[i] : i \in 1 .. N}
           s == [i \in 1 .. N |-> fields[i]]
           step == [p \in X \X E |-> Take(p[1], body, p[2])]
           One(k, i) == IF i = 0 THEN r ELSE Take(k[i - 1], body, fields[i])
           IsAfter(k) == k = [i \in 0 .. N |-> One(k, i)]
           after == CHOOSE k : IsAfter(k)
<1>1. N \in Nat /\ \A i \in 1 .. N : fields[i].size \in Nat
  BY DEF Listed
<1>2. \A x \in X : \A i \in 1 .. N : Take(x, body, fields[i]) \in X
  BY <1>1, TakeType DEF Readable
<1>3. s \in Seq(E) /\ Len(s) = N
  <2>1. s \in [1 .. N -> E]
    OBVIOUS
  <2> HIDE DEF s, E, N
  <2> QED
    BY <1>1, <2>1, SeqDef, LenProperties
<1>4. Recursion(X, E, r, step)
  <2>1. r \in X
    OBVIOUS
  <2>2. ASSUME NEW p \in X \X E PROVE Take(p[1], body, p[2]) \in X
    <3>1. PICK i \in 1 .. N : p[2] = fields[i]
      OBVIOUS
    <3>2. p[1] \in X
      OBVIOUS
    <3> QED
      BY <1>2, <3>1, <3>2
  <2> HIDE DEF X, E
  <2> QED
    BY <2>1, <2>2 DEF Recursion
<1>5. \A x \in X : \A n \in 1 .. N : step[<<x, s[n]>>] = Take(x, body, fields[n])
  <2> HIDE DEF X, N
  <2> QED
    OBVIOUS
<1>6. TakeAll(r, body, fields) = after[N]
  BY DEF TakeAll
<1> HIDE DEF N, X, E, s, step
<1>7. PICK f \in [0 .. N -> X] : Computes(f, N, r, step, s)
  BY <1>3, <1>4, Computable
<1>8. f[0] = r /\ \A n \in 1 .. N : f[n] = Take(f[n - 1], body, fields[n])
  <2>1. \A n \in 1 .. N : f[n - 1] \in X
    BY <1>1
  <2> QED
    BY <1>5, <1>7, <2>1 DEF Computes
<1>9. \E k : IsAfter(k)
  <2>1. \A i \in 0 .. N : f[i] = One(f, i)
    BY <1>1, <1>8
  <2>2. f = [i \in 0 .. N |-> f[i]]
    OBVIOUS
  <2> HIDE DEF One
  <2>3. f = [i \in 0 .. N |-> One(f, i)]
    BY <2>1, <2>2
  <2> QED
    BY <2>3
<1>10. IsAfter(after)
  <2> HIDE DEF IsAfter
  <2> QED
    BY <1>9
<1> HIDE DEF after
<1>11. after[0] = r /\ \A n \in 1 .. N : after[n] = Take(after[n - 1], body, fields[n])
  <2>1. \A n \in 0 .. N : after[n] = One(after, n)
    <3> HIDE DEF One
    <3> QED
      BY <1>10
  <2> QED
    BY <1>1, <2>1
<1>12. Obeys(after, N, X, E, r, step, s)
  <2>1. \A n \in 1 .. N : s[n] \in E
    BY <1>3
  <2>2. ASSUME NEW n \in 1 .. N, after[n - 1] \in X
        PROVE  after[n] = step[<<after[n - 1], s[n]>>]
    BY <1>5, <1>11, <2>2
  <2> QED
    BY <1>11, <2>1, <2>2 DEF Obeys
<1>13. Agrees(f, after, N, X)
  BY <1>1, <1>4, <1>7, <1>12, ComputesOne
<1>14. f[N] = after[N]
  BY <1>1, <1>13 DEF Agrees
<1> QED
  BY <1>6, <1>7, <1>8, <1>14 DEF N, X

\* What reading n fields from r makes of it.
ReadAs(q, r, body, fields, w, n) ==
  LET L == Len(r.values) IN
    /\ q.pos <= Len(body) /\ L <= Len(q.values) /\ Len(q.values) <= L + n
    /\ \A j \in 1 .. L : q.values[j] = r.values[j]
    /\ q.failed <=> r.pos + w[n] > Len(body)
    /\ ~q.failed =>
         /\ q.pos = r.pos + w[n] /\ Len(q.values) = L + n
         /\ \A i \in 1 .. n :
              q.values[L + i] = Got(fields[i], SubSeq(body, r.pos + w[i - 1] + 1, r.pos + w[i]))

LEMMA ReadOne ==
  ASSUME NEW V, NEW body, Len(body) \in Nat, NEW fields, NEW w, NEW n \in Nat,
         NEW r \in Readers(V), NEW q \in Readers(V), NEW p,
         w[n] \in Nat, fields[n + 1].size \in Nat, w[n + 1] = w[n] + fields[n + 1].size,
         ReadAs(q, r, body, fields, w, n), p = Take(q, body, fields[n + 1])
  PROVE  ReadAs(p, r, body, fields, w, n + 1)
<1> DEFINE g == Got(fields[n + 1], SubSeq(body, q.pos + 1, q.pos + fields[n + 1].size))
           Here(i) == Got(fields[i], SubSeq(body, r.pos + w[i - 1] + 1, r.pos + w[i]))
<1>1. /\ r.pos \in Nat /\ r.values \in Seq(V) /\ Len(r.values) \in Nat
      /\ q.pos \in Nat /\ q.failed \in BOOLEAN /\ q.values \in Seq(V) /\ Len(q.values) \in Nat
      /\ q = [pos |-> q.pos, failed |-> q.failed, values |-> q.values]
  BY DEF Readers
<1>2. PICK L, B, R, Q, M, u, z, v \in Nat :
        /\ L = Len(r.values) /\ B = Len(body) /\ R = r.pos /\ Q = q.pos /\ M = Len(q.values)
        /\ u = w[n] /\ z = fields[n + 1].size /\ v = w[n + 1]
  <2>1. w[n + 1] \in Nat
    OBVIOUS
  <2> QED
    BY <1>1, <2>1, Zenon
<1>0. v = u + z
  BY <1>2
<1>3. /\ Q <= B /\ L <= M /\ M <= L + n
      /\ \A j \in 1 .. L : q.values[j] = r.values[j]
      /\ q.failed <=> R + u > B
      /\ ~q.failed => Q = R + u /\ M = L + n /\ \A i \in 1 .. n : q.values[L + i] = Here(i)
  BY <1>2 DEF ReadAs
<1> HIDE DEF g, Here
<1>4. CASE q.failed \/ Q + z > B
  <2>1. p = [q EXCEPT !.failed = TRUE]
    BY <1>2, <1>4 DEF Take
  <2>2. p.failed /\ p.pos = Q /\ p.values = q.values
    BY <1>1, <1>2, <2>1
  <2>3. R + v > B
    <3>1. CASE q.failed
      BY <1>0, <1>3, <3>1
    <3>2. CASE ~q.failed
      BY <1>0, <1>3, <1>4, <3>2
    <3> QED
      BY <3>1, <3>2
  <2>4. M <= L + (n + 1)
    BY <1>3
  <2> QED
    BY <1>2, <1>3, <2>2, <2>3, <2>4 DEF ReadAs
<1>5. CASE ~ (q.failed \/ Q + z > B)
  <2>1. p = [q EXCEPT !.pos = @ + z, !.values = Append(@, g)]
    BY <1>2, <1>5 DEF Take, g
  <2>2. Q = R + u /\ M = L + n
    BY <1>3, <1>5
  <2>3. g = Here(n + 1)
    <3>1. Q + z = R + v /\ (n + 1) - 1 = n
      BY <1>0, <2>2
    <3>2. g = Got(fields[n + 1], SubSeq(body, (R + u) + 1, R + v))
      BY <1>2, <2>2, <3>1 DEF g
    <3> QED
      BY <1>2, <3>1, <3>2 DEF Here
  <2>4. /\ p.failed = q.failed /\ p.pos = Q + z /\ p.values = Append(q.values, g)
    BY <1>1, <1>2, <2>1
  <2>5. Q + z = R + v /\ R + v <= B
    BY <1>0, <1>5, <2>2
  <2>6. PICK s \in Seq(V) : s = q.values /\ Len(s) = M
    BY <1>1, <1>2
  <2>7. /\ Len(Append(s, g)) = Len(s) + 1 /\ Append(s, g)[Len(s) + 1] = g
        /\ \A j \in 1 .. Len(s) : Append(s, g)[j] = s[j]
    OBVIOUS
  <2>8. /\ Len(p.values) = M + 1 /\ p.values[M + 1] = g
        /\ \A j \in 1 .. M : p.values[j] = q.values[j]
    BY <2>4, <2>6, <2>7
  <2>9. M + 1 = L + (n + 1) /\ L <= L + (n + 1)
    BY <2>2
  <2>10. \A j \in 1 .. L : p.values[j] = r.values[j]
    <3>1. \A j \in 1 .. L : j \in 1 .. M
      BY <1>3
    <3> QED
      BY <1>3, <2>8, <3>1
  <2>11. ASSUME NEW i \in 1 .. n + 1 PROVE p.values[L + i] = Here(i)
    <3>1. CASE i = n + 1
      BY <2>3, <2>8, <2>9, <3>1
    <3>2. CASE i # n + 1
      <4>1. i \in 1 .. n /\ L + i \in 1 .. M
        BY <2>2, <3>2
      <4> QED
        BY <1>3, <1>5, <2>8, <4>1
    <3> QED
      BY <3>1, <3>2
  <2>12. ~ (R + v > B)
    BY <2>5
  <2>13. ~p.failed /\ p.pos = R + v /\ Len(p.values) = L + (n + 1)
    BY <1>5, <2>4, <2>5, <2>8, <2>9
  <2>14. p.pos <= Len(body) /\ p.pos = r.pos + w[n + 1] /\ ~ (r.pos + w[n + 1] > Len(body))
    BY <1>2, <2>5, <2>12, <2>13, Zenon
  <2>15. /\ Len(r.values) <= Len(p.values) /\ Len(p.values) <= Len(r.values) + (n + 1)
         /\ Len(p.values) = Len(r.values) + (n + 1)
    <3>1. L + (n + 1) <= L + (n + 1)
      OBVIOUS
    <3> QED
      BY <1>2, <2>9, <2>13, <3>1, Zenon
  <2>16. /\ \A j \in 1 .. Len(r.values) : p.values[j] = r.values[j]
         /\ \A i \in 1 .. n + 1 : p.values[Len(r.values) + i] = Here(i)
    BY <1>2, <2>10, <2>11, Zenon
  <2> QED
    BY <2>13, <2>14, <2>15, <2>16, Zenon DEF ReadAs, Here
<1> QED
  BY <1>4, <1>5

\* Reading stops at the first field that does not fit, and gives every field
\* its own bytes otherwise.
LEMMA TakeAllReads ==
  ASSUME NEW V, NEW body, Len(body) \in Nat, NEW fields, Listed(fields),
         Readable(V, body, fields), NEW w, Widths(w, Len(fields), SizeOf(fields)),
         NEW r \in Readers(V), ~r.failed, r.pos <= Len(body)
  PROVE  /\ TakeAll(r, body, fields) \in Readers(V)
         /\ ReadAs(TakeAll(r, body, fields), r, body, fields, w, Len(fields))
<1> DEFINE N == Len(fields)
<1>1. PICK f \in [0 .. N -> Readers(V)] :
        /\ f[0] = r /\ TakeAll(r, body, fields) = f[N]
        /\ \A n \in 1 .. N : f[n] = Take(f[n - 1], body, fields[n])
  BY TakeAllIs
<1>2. N \in Nat /\ \A i \in 1 .. N : fields[i].size \in Nat
  BY DEF Listed
<1>3. /\ w[0] = 0 /\ \A i \in 0 .. N : w[i] \in Nat
      /\ \A i \in 1 .. N : w[i] = w[i - 1] + fields[i].size
  BY DEF Widths, SizeOf
<1> DEFINE K == {n \in Nat : n <= N => ReadAs(f[n], r, body, fields, w, n)}
<1>4. 0 \in K
  <2>1. r.pos \in Nat /\ Len(r.values) \in Nat
    BY DEF Readers
  <2>2. ReadAs(r, r, body, fields, w, 0)
    BY <1>3, <2>1 DEF ReadAs
  <2> QED
    BY <1>1, <2>2
<1>5. ASSUME NEW n \in K PROVE n + 1 \in K
  <2> SUFFICES ASSUME n + 1 <= N PROVE ReadAs(f[n + 1], r, body, fields, w, n + 1)
    OBVIOUS
  <2>1. /\ n \in Nat /\ ReadAs(f[n], r, body, fields, w, n)
        /\ n + 1 \in 1 .. N /\ (n + 1) - 1 = n /\ n \in 0 .. N /\ n + 1 \in 0 .. N
    BY <1>2
  <2> HIDE DEF K, N
  <2>2. f[n] \in Readers(V) /\ f[n + 1] \in Readers(V)
    BY <2>1
  <2>3. f[n + 1] = Take(f[n], body, fields[n + 1])
    BY <1>1, <2>1
  <2>4. w[n] \in Nat /\ fields[n + 1].size \in Nat /\ w[n + 1] = w[n] + fields[n + 1].size
    BY <1>2, <1>3, <2>1
  <2> QED
    BY <2>1, <2>2, <2>3, <2>4, ReadOne
<1>6. K \in SUBSET Nat
  OBVIOUS
<1> HIDE DEF K
<1>7. N \in K
  BY <1>2, <1>4, <1>5, <1>6, Induction
<1> QED
  BY <1>1, <1>2, <1>7 DEF K

LEMMA OptionalListed ==
  ASSUME NEW word
  PROVE  Listed(OptionalFields(word))
<1>1. CASE word = \hE1
  <2>1. OptionalFields(word) = <<Field("device_name", 10), Field("part_number", 8)>>
    BY <1>1 DEF OptionalFields
  <2> QED
    BY <2>1 DEF Listed, Field
<1>2. CASE word = \hE7
  <2>1. OptionalFields(word) = <<U16("errors")>>
    BY <1>2 DEF OptionalFields
  <2> QED
    BY <2>1 DEF Listed, U16, Field
<1>3. CASE word # \hE1 /\ word # \hE7
  <2>1. OptionalFields(word) = <<>>
    BY <1>3 DEF OptionalFields
  <2> QED
    BY <2>1 DEF Listed
<1> QED
  BY <1>1, <1>2, <1>3

\* What Response::parse makes of a body, by the bytes its fields take.
ParsedAs(r, body, F, O, T) ==
  /\ r.pos <= Len(body) /\ r.known \in BOOLEAN
  /\ r.known <=> T <= Len(body)
  /\ r.known =>
       /\ r.fields = F \o O
       /\ Len(F) <= Len(r.values) /\ Len(r.values) <= Len(F) + Len(O)
       /\ DOMAIN r.values = 1 .. Len(r.values) /\ Len(r.values) \in Nat
       /\ \A w : Widths(w, Len(F), SizeOf(F)) =>
            \A i \in 1 .. Len(F) : r.values[i] = Got(F[i], SubSeq(body, w[i - 1] + 1, w[i]))

LEMMA ParseReads ==
  ASSUME NEW data, NEW word \in ModelledWords, word = Head(data), NEW body, body = Tail(data),
         Len(body) \in Nat, NEW F, F = Fields(word, body), NEW T \in Nat, Total(F, T)
  PROVE  Parse(data).command = word /\ ParsedAs(Parse(data), body, F, OptionalFields(word), T)
<1> DEFINE O == OptionalFields(word)
           N == Len(F)
           G == {F[i] : i \in 1 .. N} \union {O[i] : i \in 1 .. Len(O)}
           V == {Got(f, SubSeq(body, a, b)) : f \in G, a \in Nat, b \in Nat}
           must == TakeAll(NewReader, body, F)
           all == TakeAll(must, body, O)
           r == Parse(data)
<1>1. Listed(F) /\ Listed(O) /\ N \in Nat /\ Len(O) \in Nat
  BY OptionalListed DEF Total, Listed
<1>2. Readable(V, body, F) /\ Readable(V, body, O)
  <2> HIDE DEF O
  <2>1. (\A i \in 1 .. N : F[i] \in G) /\ (\A i \in 1 .. Len(O) : O[i] \in G)
    OBVIOUS
  <2> HIDE DEF G
  <2>2. ASSUME NEW f \in G, NEW a \in Nat, NEW b \in Nat
        PROVE  Got(f, SubSeq(body, a, b)) \in V
    OBVIOUS
  <2> HIDE DEF V
  <2> QED
    BY <2>1, <2>2 DEF Readable
<1> HIDE DEF V, O
<1>3. /\ NewReader \in Readers(V) /\ NewReader.pos = 0 /\ ~NewReader.failed
      /\ NewReader.values = <<>> /\ Len(NewReader.values) = 0
  BY EmptySeq DEF NewReader, Readers
<1>4. ASSUME NEW w, Widths(w, N, SizeOf(F))
      PROVE  must \in Readers(V) /\ ReadAs(must, NewReader, body, F, w, N)
  <2>1. NewReader.pos <= Len(body)
    BY <1>3
  <2> QED
    BY <1>1, <1>2, <1>3, <1>4, <2>1, TakeAllReads
<1>5. PICK v : Widths(v, N, SizeOf(F)) /\ v[N] = T
  BY DEF Total
<1>6. must \in Readers(V) /\ ReadAs(must, NewReader, body, F, v, N)
  BY <1>4, <1>5
<1> HIDE DEF must
<1>7. must.pos <= Len(body) /\ (must.failed <=> T > Len(body)) /\ must.failed \in BOOLEAN
  <2>1. must.pos <= Len(body) /\ (must.failed <=> 0 + T > Len(body))
    BY <1>3, <1>5, <1>6, Zenon DEF ReadAs
  <2>2. must.failed \in BOOLEAN
    BY <1>6 DEF Readers
  <2>3. 0 + T = T
    OBVIOUS
  <2> QED
    BY <2>1, <2>2, <2>3, Zenon
<1>8. r = IF must.failed
          THEN [known |-> FALSE, command |-> word, pos |-> 0, fields |-> <<>>, values |-> <<>>]
          ELSE [known |-> TRUE, command |-> word, pos |-> all.pos,
                fields |-> F \o O, values |-> all.values]
  BY Zenon DEF Parse, must, O
<1> HIDE DEF r
<1>9. CASE must.failed
  <2>1. r.pos = 0 /\ r.known = FALSE /\ r.command = word
    BY <1>8, <1>9
  <2>2. 0 <= Len(body) /\ ~ (T <= Len(body))
    BY <1>7, <1>9
  <2>3. r.command = word /\ ParsedAs(r, body, F, O, T)
    BY <2>1, <2>2, Zenon DEF ParsedAs
  <2> QED
    BY <2>3 DEF r, O
<1>10. CASE ~must.failed
  <2>1. /\ r.pos = all.pos /\ r.known = TRUE /\ r.command = word /\ r.fields = F \o O
        /\ r.values = all.values
    BY <1>8, <1>10
  <2>2. PICK u : Widths(u, Len(O), SizeOf(O))
    BY <1>1, WidthsExist
  <2>3. all \in Readers(V) /\ ReadAs(all, must, body, O, u, Len(O))
    BY <1>1, <1>2, <1>6, <1>7, <1>10, <2>2, TakeAllReads
  <2> HIDE DEF all
  <2>4. T <= Len(body)
    BY <1>7, <1>10
  <2>5. Len(must.values) = N
    <3>1. Len(must.values) = 0 + N
      BY <1>3, <1>6, <1>10, Zenon DEF ReadAs
    <3> QED
      BY <1>1, <3>1
  <2>6. /\ all.pos <= Len(body) /\ N <= Len(all.values) /\ Len(all.values) <= N + Len(O)
        /\ \A j \in 1 .. N : all.values[j] = must.values[j]
    BY <2>3, <2>5, Zenon DEF ReadAs
  <2>7. DOMAIN all.values = 1 .. Len(all.values) /\ Len(all.values) \in Nat
    BY <2>3 DEF Readers
  <2>8. ASSUME NEW w, Widths(w, N, SizeOf(F)), NEW i \in 1 .. N
        PROVE  all.values[i] = Got(F[i], SubSeq(body, w[i - 1] + 1, w[i]))
    <3>1. ReadAs(must, NewReader, body, F, w, N)
      BY <1>4, <2>8
    <3>2. must.values[0 + i] = Got(F[i], SubSeq(body, (0 + w[i - 1]) + 1, 0 + w[i]))
      BY <1>3, <1>10, <3>1, Zenon DEF ReadAs
    <3>3. w[i - 1] \in Nat /\ w[i] \in Nat
      <4>1. i - 1 \in 0 .. N /\ i \in 0 .. N
        BY <1>1
      <4> QED
        BY <2>8, <4>1 DEF Widths
    <3>4. 0 + i = i /\ 0 + w[i - 1] = w[i - 1] /\ 0 + w[i] = w[i]
      BY <3>3
    <3> QED
      BY <2>6, <3>2, <3>4
  <2>9. ParsedAs(r, body, F, O, T)
    <3>1. /\ r.pos <= Len(body) /\ r.known \in BOOLEAN /\ (r.known <=> T <= Len(body))
          /\ r.fields = F \o O /\ N <= Len(r.values) /\ Len(r.values) <= N + Len(O)
          /\ DOMAIN r.values = 1 .. Len(r.values) /\ Len(r.values) \in Nat
      BY <2>1, <2>4, <2>6, <2>7
    <3>2. \A w : Widths(w, N, SizeOf(F)) =>
            \A i \in 1 .. N : r.values[i] = Got(F[i], SubSeq(body, w[i - 1] + 1, w[i]))
      <4> TAKE w
      <4> SUFFICES ASSUME Widths(w, N, SizeOf(F)), NEW i \in 1 .. N
                   PROVE  r.values[i] = Got(F[i], SubSeq(body, w[i - 1] + 1, w[i]))
        OBVIOUS
      <4>1. all.values[i] = Got(F[i], SubSeq(body, w[i - 1] + 1, w[i]))
        BY <2>8
      <4> QED
        BY <2>1, <4>1, Zenon
    <3> QED
      BY <3>1, <3>2, Zenon DEF ParsedAs
  <2> QED
    BY <2>1, <2>9 DEF r, O
<1> QED
  BY <1>7, <1>9, <1>10
-----------------------------------------------------------------------------
(* Replies: the bytes each of them needs                                   *)

LEMMA TotalOfFour ==
  ASSUME NEW fields, Listed(fields), Len(fields) = 4
  PROVE  Total(fields, fields[1].size + fields[2].size + fields[3].size
                        + fields[4].size)
<1>1. PICK w : Widths(w, 4, SizeOf(fields))
  BY WidthsExist
<1>2. w[0] = 0 /\ \A i \in 1 .. 4 : w[i] = w[i - 1] + fields[i].size
  BY <1>1 DEF Widths, SizeOf
<1>3. \A i \in 1 .. 4 : fields[i].size \in Nat
  BY DEF Listed
<1>4. w[4] = fields[1].size + fields[2].size + fields[3].size
                        + fields[4].size
  BY <1>2, <1>3
<1> QED
  BY <1>1, <1>4 DEF Total

LEMMA TotalOfNine ==
  ASSUME NEW fields, Listed(fields), Len(fields) = 9
  PROVE  Total(fields, fields[1].size + fields[2].size + fields[3].size
                        + fields[4].size + fields[5].size + fields[6].size
                        + fields[7].size + fields[8].size + fields[9].size)
<1>1. PICK w : Widths(w, 9, SizeOf(fields))
  BY WidthsExist
<1>2. w[0] = 0 /\ \A i \in 1 .. 9 : w[i] = w[i - 1] + fields[i].size
  BY <1>1 DEF Widths, SizeOf
<1>3. \A i \in 1 .. 9 : fields[i].size \in Nat
  BY DEF Listed
<1>4. w[9] = fields[1].size + fields[2].size + fields[3].size
                        + fields[4].size + fields[5].size + fields[6].size
                        + fields[7].size + fields[8].size + fields[9].size
  BY <1>2, <1>3
<1> QED
  BY <1>1, <1>4 DEF Total

LEMMA TotalOfEleven ==
  ASSUME NEW fields, Listed(fields), Len(fields) = 11
  PROVE  Total(fields, fields[1].size + fields[2].size + fields[3].size
                        + fields[4].size + fields[5].size + fields[6].size
                        + fields[7].size + fields[8].size + fields[9].size
                        + fields[10].size + fields[11].size)
<1>1. PICK w : Widths(w, 11, SizeOf(fields))
  BY WidthsExist
<1>2. w[0] = 0 /\ \A i \in 1 .. 11 : w[i] = w[i - 1] + fields[i].size
  BY <1>1 DEF Widths, SizeOf
<1>3. \A i \in 1 .. 11 : fields[i].size \in Nat
  BY DEF Listed
<1>4. w[11] = fields[1].size + fields[2].size + fields[3].size
                        + fields[4].size + fields[5].size + fields[6].size
                        + fields[7].size + fields[8].size + fields[9].size
                        + fields[10].size + fields[11].size
  BY <1>2, <1>3
<1> QED
  BY <1>1, <1>4 DEF Total

LEMMA TotalOfFifteen ==
  ASSUME NEW fields, Listed(fields), Len(fields) = 15
  PROVE  Total(fields, fields[1].size + fields[2].size + fields[3].size
                        + fields[4].size + fields[5].size + fields[6].size
                        + fields[7].size + fields[8].size + fields[9].size
                        + fields[10].size + fields[11].size + fields[12].size
                        + fields[13].size + fields[14].size + fields[15].size)
<1>1. PICK w : Widths(w, 15, SizeOf(fields))
  BY WidthsExist
<1>2. w[0] = 0 /\ \A i \in 1 .. 15 : w[i] = w[i - 1] + fields[i].size
  BY <1>1 DEF Widths, SizeOf
<1>3. \A i \in 1 .. 15 : fields[i].size \in Nat
  BY DEF Listed
<1>4. w[15] = fields[1].size + fields[2].size + fields[3].size
                        + fields[4].size + fields[5].size + fields[6].size
                        + fields[7].size + fields[8].size + fields[9].size
                        + fields[10].size + fields[11].size + fields[12].size
                        + fields[13].size + fields[14].size + fields[15].size
  BY <1>2, <1>3
<1> QED
  BY <1>1, <1>4 DEF Total

LEMMA TotalOfSixteen ==
  ASSUME NEW fields, Listed(fields), Len(fields) = 16
  PROVE  Total(fields, fields[1].size + fields[2].size + fields[3].size
                        + fields[4].size + fields[5].size + fields[6].size
                        + fields[7].size + fields[8].size + fields[9].size
                        + fields[10].size + fields[11].size + fields[12].size
                        + fields[13].size + fields[14].size + fields[15].size
                        + fields[16].size)
<1>1. PICK w : Widths(w, 16, SizeOf(fields))
  BY WidthsExist
<1>2. w[0] = 0 /\ \A i \in 1 .. 16 : w[i] = w[i - 1] + fields[i].size
  BY <1>1 DEF Widths, SizeOf
<1>3. \A i \in 1 .. 16 : fields[i].size \in Nat
  BY DEF Listed
<1>4. w[16] = fields[1].size + fields[2].size + fields[3].size
                        + fields[4].size + fields[5].size + fields[6].size
                        + fields[7].size + fields[8].size + fields[9].size
                        + fields[10].size + fields[11].size + fields[12].size
                        + fields[13].size + fields[14].size + fields[15].size
                        + fields[16].size
  BY <1>2, <1>3
<1> QED
  BY <1>1, <1>4 DEF Total

LEMMA State ==
  ASSUME NEW f, f = <<U8("state")>>
  PROVE  Total(f, 1)
<1>1. /\ Len(f) = 1 /\ DOMAIN f = 1 .. 1 /\ f[1].size = 1
  BY DEF U8, U16, U32, Field
<1>2. Listed(f)
  BY <1>1 DEF Listed
<1> QED
  BY <1>1, <1>2, TotalOfOne

LEMMA ChannelState ==
  ASSUME NEW f, f = <<U8("channel"), U8("state")>>
  PROVE  Total(f, 2)
<1>1. /\ Len(f) = 2 /\ DOMAIN f = 1 .. 2 /\ f[1].size = 1 /\ f[2].size = 1
  BY DEF U8, U16, U32, Field
<1>2. Listed(f)
  BY <1>1 DEF Listed
<1> QED
  BY <1>1, <1>2, TotalOfTwo

LEMMA CpuState ==
  ASSUME NEW f, f = <<U8("cpu"), U8("state")>>
  PROVE  Total(f, 2)
<1>1. /\ Len(f) = 2 /\ DOMAIN f = 1 .. 2 /\ f[1].size = 1 /\ f[2].size = 1
  BY DEF U8, U16, U32, Field
<1>2. Listed(f)
  BY <1>1 DEF Listed
<1> QED
  BY <1>1, <1>2, TotalOfTwo

LEMMA CpuAddressState ==
  ASSUME NEW f, f = <<U8("cpu"), U32("address"), U8("state")>>
  PROVE  Total(f, 6)
<1>1. /\ Len(f) = 3 /\ DOMAIN f = 1 .. 3 /\ f[1].size = 1 /\ f[2].size = 4 /\ f[3].size = 1
  BY DEF U8, U16, U32, Field
<1>2. Listed(f)
  BY <1>1 DEF Listed
<1> QED
  BY <1>1, <1>2, TotalOfThree

LEMMA LinkOfBattery ==
  ASSUME NEW f, f = <<U8("channel"), U8("link_state"), U8("cells")>>
  PROVE  Total(f, 3)
<1>1. /\ Len(f) = 3 /\ DOMAIN f = 1 .. 3 /\ f[1].size = 1 /\ f[2].size = 1 /\ f[3].size = 1
  BY DEF U8, U16, U32, Field
<1>2. Listed(f)
  BY <1>1 DEF Listed
<1> QED
  BY <1>1, <1>2, TotalOfThree

LEMMA CommonPower ==
  ASSUME NEW f, f = <<U8("common_power"), U8("power_type")>>
  PROVE  Total(f, 2)
<1>1. /\ Len(f) = 2 /\ DOMAIN f = 1 .. 2 /\ f[1].size = 1 /\ f[2].size = 1
  BY DEF U8, U16, U32, Field
<1>2. Listed(f)
  BY <1>1 DEF Listed
<1> QED
  BY <1>1, <1>2, TotalOfTwo

LEMMA SmartPowerSetting ==
  ASSUME NEW f, f = <<U8("setting"), U16("value")>>
  PROVE  Total(f, 3)
<1>1. /\ Len(f) = 2 /\ DOMAIN f = 1 .. 2 /\ f[1].size = 1 /\ f[2].size = 2
  BY DEF U8, U16, U32, Field
<1>2. Listed(f)
  BY <1>1 DEF Listed
<1> QED
  BY <1>1, <1>2, TotalOfTwo

LEMMA LimitsShown ==
  ASSUME NEW f, f = <<U32("max_input_mw"), U32("max_output_mw"), U32("max_input_ma"),
                     U32("max_output_ma")>>
  PROVE  Total(f, 16)
<1>1. /\ Len(f) = 4 /\ DOMAIN f = 1 .. 4 /\ f[1].size = 4 /\ f[2].size = 4 /\ f[3].size = 4
      /\ f[4].size = 4
  BY DEF U8, U16, U32, Field
<1>2. Listed(f)
  BY <1>1 DEF Listed
<1> QED
  BY <1>1, <1>2, TotalOfFour

LEMMA TemperatureShown ==
  ASSUME NEW f, f = <<U8("channel"), U8("device_c"), U8("battery_c"), U8("fan_raw")>>
  PROVE  Total(f, 4)
<1>1. /\ Len(f) = 4 /\ DOMAIN f = 1 .. 4 /\ f[1].size = 1 /\ f[2].size = 1 /\ f[3].size = 1
      /\ f[4].size = 1
  BY DEF U8, U16, U32, Field
<1>2. Listed(f)
  BY <1>1 DEF Listed
<1> QED
  BY <1>1, <1>2, TotalOfFour

LEMMA WorkStateShown ==
  ASSUME NEW f, f = <<U8("channel"), U8("state"), U8("percent"), U32("done_mah"),
                     U32("done_mwh"), U32("period_ms"), U8("battery"), U8("cells"),
                     U8("link"), U16("volt_mv"), U32("current_ma"), U16("total"),
                     U16("done"), U16("min_input_mv"), U32("max_output_mw")>>
  PROVE  Total(f, 34)
<1>1. /\ Len(f) = 15 /\ DOMAIN f = 1 .. 15 /\ f[1].size = 1 /\ f[2].size = 1
      /\ f[3].size = 1 /\ f[4].size = 4 /\ f[5].size = 4 /\ f[6].size = 4 /\ f[7].size = 1
      /\ f[8].size = 1 /\ f[9].size = 1 /\ f[10].size = 2 /\ f[11].size = 4
      /\ f[12].size = 2 /\ f[13].size = 2 /\ f[14].size = 2 /\ f[15].size = 4
  BY DEF U8, U16, U32, Field
<1>2. Listed(f)
  BY <1>1 DEF Listed
<1> QED
  BY <1>1, <1>2, TotalOfFifteen

LEMMA ElectricalNarrow ==
  ASSUME NEW f, f = <<U8("channel"), U16("input_mv"), U32("input_ma"), U16("output_mv"),
                     U32("current_ma")>>
  PROVE  Total(f, 13)
<1>1. /\ Len(f) = 5 /\ DOMAIN f = 1 .. 5 /\ f[1].size = 1 /\ f[2].size = 2 /\ f[3].size = 4
      /\ f[4].size = 2 /\ f[5].size = 4
  BY DEF U8, U16, U32, Field
<1>2. Listed(f)
  BY <1>1 DEF Listed
<1> QED
  BY <1>1, <1>2, TotalOfFive

LEMMA ElectricalWide ==
  ASSUME NEW f, f = <<U8("channel"), U32("input_mv"), U32("input_ma"), U32("output_mv"),
                     U32("current_ma")>>
  PROVE  Total(f, 17)
<1>1. /\ Len(f) = 5 /\ DOMAIN f = 1 .. 5 /\ f[1].size = 1 /\ f[2].size = 4 /\ f[3].size = 4
      /\ f[4].size = 4 /\ f[5].size = 4
  BY DEF U8, U16, U32, Field
<1>2. Listed(f)
  BY <1>1 DEF Listed
<1> QED
  BY <1>1, <1>2, TotalOfFive

LEMMA SizesListed ==
  ASSUME NEW l, NEW n \in Nat, Len(l) = n, DOMAIN l = 1 .. n, \A i \in 1 .. n : l[i] \in Nat
  PROVE  /\ Listed(Sizes(l)) /\ Len(Sizes(l)) = n
         /\ \A i \in 1 .. n : Sizes(l)[i].size = l[i]
<1>1. \A i \in 1 .. n : Sizes(l)[i].size = l[i]
  BY DEF Sizes, Field
<1>2. Len(Sizes(l)) = n /\ DOMAIN Sizes(l) = 1 .. n
  BY DEF Sizes
<1>3. \A i \in 1 .. n : Sizes(l)[i].size \in Nat
  BY <1>1
<1> QED
  BY <1>1, <1>2, <1>3 DEF Listed

LEMMA BatteryInfo ==
  ASSUME NEW l, l = <<1, 8, 10, 1, 1, 1, 1, 1, 2, 4, 4>>
  PROVE  Total(Sizes(l), 34)
<1>0. /\ l[1] = 1 /\ l[2] = 8 /\ l[3] = 10 /\ l[4] = 1 /\ l[5] = 1 /\ l[6] = 1 /\ l[7] = 1
      /\ l[8] = 1 /\ l[9] = 2 /\ l[10] = 4 /\ l[11] = 4
  OBVIOUS
<1>1. Len(l) = 11 /\ DOMAIN l = 1 .. 11 /\ 11 \in Nat
  OBVIOUS
<1>2. \A i \in 1 .. 11 : l[i] \in Nat
  OBVIOUS
<1> DEFINE f == Sizes(l)
<1>3. /\ Listed(f) /\ Len(f) = 11
      /\ \A i \in 1 .. 11 : f[i].size = l[i]
  BY <1>1, <1>2, SizesListed
<1> HIDE DEF f
<1>4. Total(f, f[1].size + f[2].size + f[3].size + f[4].size + f[5].size + f[6].size
                + f[7].size + f[8].size + f[9].size + f[10].size + f[11].size)
  BY <1>3, TotalOfEleven
<1>5. f[1].size + f[2].size + f[3].size + f[4].size + f[5].size + f[6].size + f[7].size
      + f[8].size + f[9].size + f[10].size + f[11].size = 34
  BY <1>0, <1>3
<1> QED
  BY <1>4, <1>5 DEF f

LEMMA BatteryOem ==
  ASSUME NEW l, l = <<1, 16, 1, 1, 2, 2, 2, 2, 4, 2, 2, 1, 1, 1, 1, 1>>
  PROVE  Total(Sizes(l), 40)
<1>0. /\ l[1] = 1 /\ l[2] = 16 /\ l[3] = 1 /\ l[4] = 1 /\ l[5] = 2 /\ l[6] = 2 /\ l[7] = 2
      /\ l[8] = 2 /\ l[9] = 4 /\ l[10] = 2 /\ l[11] = 2 /\ l[12] = 1 /\ l[13] = 1
      /\ l[14] = 1 /\ l[15] = 1 /\ l[16] = 1
  OBVIOUS
<1>1. Len(l) = 16 /\ DOMAIN l = 1 .. 16 /\ 16 \in Nat
  OBVIOUS
<1>2. \A i \in 1 .. 16 : l[i] \in Nat
  OBVIOUS
<1> DEFINE f == Sizes(l)
<1>3. /\ Listed(f) /\ Len(f) = 16
      /\ \A i \in 1 .. 16 : f[i].size = l[i]
  BY <1>1, <1>2, SizesListed
<1> HIDE DEF f
<1>4. Total(f, f[1].size + f[2].size + f[3].size + f[4].size + f[5].size + f[6].size
                + f[7].size + f[8].size + f[9].size + f[10].size + f[11].size
                + f[12].size + f[13].size + f[14].size + f[15].size + f[16].size)
  BY <1>3, TotalOfSixteen
<1>5. f[1].size + f[2].size + f[3].size + f[4].size + f[5].size + f[6].size + f[7].size
      + f[8].size + f[9].size + f[10].size + f[11].size + f[12].size + f[13].size
      + f[14].size + f[15].size + f[16].size = 40
  BY <1>0, <1>3
<1> QED
  BY <1>4, <1>5 DEF f

LEMMA BatteryState ==
  ASSUME NEW l, l = <<1, 4, 4, 2, 2, 2, 2, 2, 1>>
  PROVE  Total(Sizes(l), 20)
<1>0. /\ l[1] = 1 /\ l[2] = 4 /\ l[3] = 4 /\ l[4] = 2 /\ l[5] = 2 /\ l[6] = 2 /\ l[7] = 2
      /\ l[8] = 2 /\ l[9] = 1
  OBVIOUS
<1>1. Len(l) = 9 /\ DOMAIN l = 1 .. 9 /\ 9 \in Nat
  OBVIOUS
<1>2. \A i \in 1 .. 9 : l[i] \in Nat
  OBVIOUS
<1> DEFINE f == Sizes(l)
<1>3. /\ Listed(f) /\ Len(f) = 9
      /\ \A i \in 1 .. 9 : f[i].size = l[i]
  BY <1>1, <1>2, SizesListed
<1> HIDE DEF f
<1>4. Total(f, f[1].size + f[2].size + f[3].size + f[4].size + f[5].size + f[6].size
                + f[7].size + f[8].size + f[9].size)
  BY <1>3, TotalOfNine
<1>5. f[1].size + f[2].size + f[3].size + f[4].size + f[5].size + f[6].size + f[7].size
      + f[8].size + f[9].size = 20
  BY <1>0, <1>3
<1> QED
  BY <1>4, <1>5 DEF f

LEMMA SmartPowerShown ==
  ASSUME NEW l, l = <<2, 2, 1, 1, 1, 2, 2, 2, 2, 2, 2>>
  PROVE  Total(Sizes(l), 19)
<1>0. /\ l[1] = 2 /\ l[2] = 2 /\ l[3] = 1 /\ l[4] = 1 /\ l[5] = 1 /\ l[6] = 2 /\ l[7] = 2
      /\ l[8] = 2 /\ l[9] = 2 /\ l[10] = 2 /\ l[11] = 2
  OBVIOUS
<1>1. Len(l) = 11 /\ DOMAIN l = 1 .. 11 /\ 11 \in Nat
  OBVIOUS
<1>2. \A i \in 1 .. 11 : l[i] \in Nat
  OBVIOUS
<1> DEFINE f == Sizes(l)
<1>3. /\ Listed(f) /\ Len(f) = 11
      /\ \A i \in 1 .. 11 : f[i].size = l[i]
  BY <1>1, <1>2, SizesListed
<1> HIDE DEF f
<1>4. Total(f, f[1].size + f[2].size + f[3].size + f[4].size + f[5].size + f[6].size
                + f[7].size + f[8].size + f[9].size + f[10].size + f[11].size)
  BY <1>3, TotalOfEleven
<1>5. f[1].size + f[2].size + f[3].size + f[4].size + f[5].size + f[6].size + f[7].size
      + f[8].size + f[9].size + f[10].size + f[11].size = 19
  BY <1>0, <1>3
<1> QED
  BY <1>4, <1>5 DEF f

LEMMA SmartPowerRange ==
  ASSUME NEW l, l = <<4, 2, 2>>
  PROVE  Total(Sizes(l), 8)
<1>0. /\ l[1] = 4 /\ l[2] = 2 /\ l[3] = 2
  OBVIOUS
<1>1. Len(l) = 3 /\ DOMAIN l = 1 .. 3 /\ 3 \in Nat
  OBVIOUS
<1>2. \A i \in 1 .. 3 : l[i] \in Nat
  OBVIOUS
<1> DEFINE f == Sizes(l)
<1>3. /\ Listed(f) /\ Len(f) = 3
      /\ \A i \in 1 .. 3 : f[i].size = l[i]
  BY <1>1, <1>2, SizesListed
<1> HIDE DEF f
<1>4. Total(f, f[1].size + f[2].size + f[3].size)
  BY <1>3, TotalOfThree
<1>5. f[1].size + f[2].size + f[3].size = 8
  BY <1>0, <1>3
<1> QED
  BY <1>4, <1>5 DEF f

LEMMA Hardware ==
  ASSUME NEW l, l = <<8, 4, 4, 4>>
  PROVE  Total(Sizes(l), 20)
<1>0. /\ l[1] = 8 /\ l[2] = 4 /\ l[3] = 4 /\ l[4] = 4
  OBVIOUS
<1>1. Len(l) = 4 /\ DOMAIN l = 1 .. 4 /\ 4 \in Nat
  OBVIOUS
<1>2. \A i \in 1 .. 4 : l[i] \in Nat
  OBVIOUS
<1> DEFINE f == Sizes(l)
<1>3. /\ Listed(f) /\ Len(f) = 4
      /\ \A i \in 1 .. 4 : f[i].size = l[i]
  BY <1>1, <1>2, SizesListed
<1> HIDE DEF f
<1>4. Total(f, f[1].size + f[2].size + f[3].size + f[4].size)
  BY <1>3, TotalOfFour
<1>5. f[1].size + f[2].size + f[3].size + f[4].size = 20
  BY <1>0, <1>3
<1> QED
  BY <1>4, <1>5 DEF f

\* The reply needs as many bytes as its word says, of a body that has them or
\* has not.
Needs(word, body) ==
  \E T \in Nat : /\ Total(Fields(word, body), T)
                 /\ T <= Len(body) <=> Shortest(word, Len(body)) <= Len(body)

AnswerWords ==
  {\h19, \h41, \h43, \h45, \h47, \h49, \hBB, \hBD, \hBF, \hC1, \hD1, \hD3, \hD5, \hDD,
   \hDF, \hE1, \hE3, \hE5, \hE7, \hE9, \hEB, \hF1, \hF3, \hF5, \hF7, \hFB, \hFD}

LEMMA NeedsShortest ==
  ASSUME NEW word, NEW body, Len(body) \in Nat, NEW T \in Nat, Total(Fields(word, body), T),
         Shortest(word, Len(body)) = T
  PROVE  Needs(word, body)
  BY DEF Needs

LEMMA NeedsJoined ==
  ASSUME NEW word, NEW body, Len(body) \in Nat, NEW x, NEW y, Fields(word, body) = x \o y,
         NEW a \in Nat, NEW b \in Nat, Total(x, a), Total(y, b),
         Shortest(word, Len(body)) = a + b
  PROVE  Needs(word, body)
<1>1. Total(x \o y, a + b)
  BY TotalOfJoined
<1>2. a + b \in Nat
  OBVIOUS
<1> QED
  BY <1>1, <1>2, NeedsShortest

\* The electrical reply is wide or narrow by its length, its word counted.
LEMMA ElectricalIs ==
  ASSUME NEW body
  PROVE  Fields(\hE5, body) = ElectricalFields(Len(body) + 1 >= 35)
<1>1. PICK word : /\ word = \hE5 /\ word # \h01 /\ word # \h0E /\ word # \h45
                  /\ word \notin FixedWords
  BY DEF FixedWords
<1>2. PICK f : f = ElectricalFields(Len(body) + 1 >= 35)
  OBVIOUS
<1>3. Fields(word, body) = f
  BY <1>1, <1>2 DEF Fields
<1> QED
  BY <1>1, <1>2, <1>3

LEMMA ReplyFields ==
  ASSUME NEW word \in AnswerWords, NEW body, Len(body) \in Nat,
         word = \h45 /\ Len(body) >= 3 => body[3] = 2
  PROVE  Needs(word, body)
<1> DEFINE F == Fields(word, body)
           n == Len(body)
<1>1. CASE word = \h19
  <2>1. F = <<U8("state")>>
    BY <1>1 DEF Fields, FixedWords, FixedLayout
  <2>2. Total(F, 1)
    BY <2>1, State
  <2>3. Shortest(word, n) = 1
    BY <1>1 DEF Shortest
  <2> QED
    BY <2>2, <2>3, NeedsShortest
<1>2. CASE word = \h41
  <2> DEFINE x == <<U8("channel")>>
             y == Sizes(<<1, 8, 10, 1, 1, 1, 1, 1, 2, 4, 4>>)
  <2>1. F = x \o y
    BY <1>2 DEF Fields, FixedWords, FixedLayout
  <2>2. Total(x, 1) /\ Total(y, 34)
    BY ChannelFields, BatteryInfo
  <2>3. Shortest(word, n) = 35
    BY <1>2 DEF Shortest
  <2> HIDE DEF x, y
  <2>4. 1 + 34 = 35
    OBVIOUS
  <2> QED
    BY <2>1, <2>2, <2>3, <2>4, NeedsJoined
<1>3. CASE word = \h43
  <2> DEFINE x == <<U8("channel")>>
             y == Sizes(<<1, 16, 1, 1, 2, 2, 2, 2, 4, 2, 2, 1, 1, 1, 1, 1>>)
  <2>1. F = x \o y
    BY <1>3 DEF Fields, FixedWords, FixedLayout
  <2>2. Total(x, 1) /\ Total(y, 40)
    BY ChannelFields, BatteryOem
  <2>3. Shortest(word, n) = 41
    BY <1>3 DEF Shortest
  <2> HIDE DEF x, y
  <2>4. 1 + 40 = 41
    OBVIOUS
  <2> QED
    BY <2>1, <2>2, <2>3, <2>4, NeedsJoined
<1>4. CASE word = \h47
  <2>1. F = <<U8("channel"), U8("state")>>
    BY <1>4 DEF Fields, FixedWords, FixedLayout
  <2>2. Total(F, 2)
    BY <2>1, ChannelState
  <2>3. Shortest(word, n) = 2
    BY <1>4 DEF Shortest
  <2> QED
    BY <2>2, <2>3, NeedsShortest
<1>5. CASE word = \h49
  <2>1. F = <<U8("channel"), U32("current_ma"), U16("store_mv"), U16("volt_mv"),
              U8("days")>>
    BY <1>5 DEF Fields, FixedWords, FixedLayout
  <2>2. Total(F, 10)
    BY <2>1, BattgoFields
  <2>3. Shortest(word, n) = 10
    BY <1>5 DEF Shortest
  <2> QED
    BY <2>2, <2>3, NeedsShortest
<1>6. CASE word = \hBB
  <2> DEFINE x == <<U8("common_power"), U8("power_type")>>
             y == Sizes(<<2, 2, 1, 1, 1, 2, 2, 2, 2, 2, 2>>)
  <2>1. F = x \o y
    BY <1>6 DEF Fields, FixedWords, FixedLayout
  <2>2. Total(x, 2) /\ Total(y, 19)
    BY CommonPower, SmartPowerShown
  <2>3. Shortest(word, n) = 21
    BY <1>6 DEF Shortest
  <2> HIDE DEF x, y
  <2>4. 2 + 19 = 21
    OBVIOUS
  <2> QED
    BY <2>1, <2>2, <2>3, <2>4, NeedsJoined
<1>7. CASE word = \hBD
  <2>1. F = <<U8("setting"), U16("value")>>
    BY <1>7 DEF Fields, FixedWords, FixedLayout
  <2>2. Total(F, 3)
    BY <2>1, SmartPowerSetting
  <2>3. Shortest(word, n) = 3
    BY <1>7 DEF Shortest
  <2> QED
    BY <2>2, <2>3, NeedsShortest
<1>8. CASE word = \hBF
  <2> DEFINE x == <<U8("common_power"), U8("power_type")>>
             y == Sizes(<<4, 2, 2>>)
  <2>1. F = x \o y
    BY <1>8 DEF Fields, FixedWords, FixedLayout
  <2>2. Total(x, 2) /\ Total(y, 8)
    BY CommonPower, SmartPowerRange
  <2>3. Shortest(word, n) = 10
    BY <1>8 DEF Shortest
  <2> HIDE DEF x, y
  <2>4. 2 + 8 = 10
    OBVIOUS
  <2> QED
    BY <2>1, <2>2, <2>3, <2>4, NeedsJoined
<1>9. CASE word \in {\hC1, \hD1, \hD3, \hF1}
  <2>1. CASE word = \hC1
    <3>1. F = <<U8("state")>>
      BY <2>1 DEF Fields, FixedWords, LiveLayout
    <3>2. Total(F, 1)
      BY <3>1, State
    <3>3. Shortest(word, n) = 1
      BY <2>1 DEF Shortest
    <3> QED
      BY <3>2, <3>3, NeedsShortest
  <2>2. CASE word = \hD1
    <3>1. F = <<U8("state")>>
      BY <2>2 DEF Fields, FixedWords, LiveLayout
    <3>2. Total(F, 1)
      BY <3>1, State
    <3>3. Shortest(word, n) = 1
      BY <2>2 DEF Shortest
    <3> QED
      BY <3>2, <3>3, NeedsShortest
  <2>3. CASE word = \hD3
    <3>1. F = <<U8("state")>>
      BY <2>3 DEF Fields, FixedWords, LiveLayout
    <3>2. Total(F, 1)
      BY <3>1, State
    <3>3. Shortest(word, n) = 1
      BY <2>3 DEF Shortest
    <3> QED
      BY <3>2, <3>3, NeedsShortest
  <2>4. CASE word = \hF1
    <3>1. F = <<U8("state")>>
      BY <2>4 DEF Fields, FixedWords, LiveLayout
    <3>2. Total(F, 1)
      BY <3>1, State
    <3>3. Shortest(word, n) = 1
      BY <2>4 DEF Shortest
    <3> QED
      BY <3>2, <3>3, NeedsShortest
  <2> HIDE DEF F, n
  <2> QED
    BY <1>9, <2>1, <2>2, <2>3, <2>4
<1>10. CASE word = \hD5
  <2>1. F = <<U8("enabled"), U8("battery"), U8("cells"), U16("volt_mv"),
              U32("current_ma")>>
    BY <1>10 DEF Fields, FixedWords, LiveLayout
  <2>2. Total(F, 9)
    BY <2>1, OneKeyFields
  <2>3. Shortest(word, n) = 9
    BY <1>10 DEF Shortest
  <2> QED
    BY <2>2, <2>3, NeedsShortest
<1>11. CASE word \in {\hDD, \hDF, \hEB}
  <2>1. CASE word = \hDD
    <3>1. F = <<U8("channel"), U8("state")>>
      BY <2>1 DEF Fields, FixedWords, LiveLayout
    <3>2. Total(F, 2)
      BY <3>1, ChannelState
    <3>3. Shortest(word, n) = 2
      BY <2>1 DEF Shortest
    <3> QED
      BY <3>2, <3>3, NeedsShortest
  <2>2. CASE word = \hDF
    <3>1. F = <<U8("channel"), U8("state")>>
      BY <2>2 DEF Fields, FixedWords, LiveLayout
    <3>2. Total(F, 2)
      BY <3>1, ChannelState
    <3>3. Shortest(word, n) = 2
      BY <2>2 DEF Shortest
    <3> QED
      BY <3>2, <3>3, NeedsShortest
  <2>3. CASE word = \hEB
    <3>1. F = <<U8("channel"), U8("state")>>
      BY <2>3 DEF Fields, FixedWords, LiveLayout
    <3>2. Total(F, 2)
      BY <3>1, ChannelState
    <3>3. Shortest(word, n) = 2
      BY <2>3 DEF Shortest
    <3> QED
      BY <3>2, <3>3, NeedsShortest
  <2> HIDE DEF F, n
  <2> QED
    BY <1>11, <2>1, <2>2, <2>3
<1>12. CASE word = \hE1
  <2>1. F = Sizes(<<8, 4, 4, 4>>)
    BY <1>12 DEF Fields, FixedWords, LiveLayout
  <2>2. Total(F, 20)
    BY <2>1, Hardware
  <2>3. Shortest(word, n) = 20
    BY <1>12 DEF Shortest
  <2> QED
    BY <2>2, <2>3, NeedsShortest
<1>13. CASE word = \hE3
  <2>1. F = <<U32("max_input_mw"), U32("max_output_mw"), U32("max_input_ma"),
              U32("max_output_ma")>>
    BY <1>13 DEF Fields, FixedWords, LiveLayout
  <2>2. Total(F, 16)
    BY <2>1, LimitsShown
  <2>3. Shortest(word, n) = 16
    BY <1>13 DEF Shortest
  <2> QED
    BY <2>2, <2>3, NeedsShortest
<1>14. CASE word = \hE7
  <2>1. F = <<U8("channel"), U8("state"), U8("percent"), U32("done_mah"),
              U32("done_mwh"), U32("period_ms"), U8("battery"), U8("cells"),
              U8("link"), U16("volt_mv"), U32("current_ma"), U16("total"),
              U16("done"), U16("min_input_mv"), U32("max_output_mw")>>
    BY <1>14 DEF Fields, FixedWords, LiveLayout
  <2>2. Total(F, 34)
    BY <2>1, WorkStateShown
  <2>3. Shortest(word, n) = 34
    BY <1>14 DEF Shortest
  <2> QED
    BY <2>2, <2>3, NeedsShortest
<1>15. CASE word = \hE9
  <2>1. F = <<U8("channel"), U8("device_c"), U8("battery_c"), U8("fan_raw")>>
    BY <1>15 DEF Fields, FixedWords, LiveLayout
  <2>2. Total(F, 4)
    BY <2>1, TemperatureShown
  <2>3. Shortest(word, n) = 4
    BY <1>15 DEF Shortest
  <2> QED
    BY <2>2, <2>3, NeedsShortest
<1>16. CASE word \in {\hF3, \hF7}
  <2>1. CASE word = \hF3
    <3>1. F = <<U8("cpu"), U8("state")>>
      BY <2>1 DEF Fields, FixedWords, LiveLayout
    <3>2. Total(F, 2)
      BY <3>1, CpuState
    <3>3. Shortest(word, n) = 2
      BY <2>1 DEF Shortest
    <3> QED
      BY <3>2, <3>3, NeedsShortest
  <2>2. CASE word = \hF7
    <3>1. F = <<U8("cpu"), U8("state")>>
      BY <2>2 DEF Fields, FixedWords, LiveLayout
    <3>2. Total(F, 2)
      BY <3>1, CpuState
    <3>3. Shortest(word, n) = 2
      BY <2>2 DEF Shortest
    <3> QED
      BY <3>2, <3>3, NeedsShortest
  <2> HIDE DEF F, n
  <2> QED
    BY <1>16, <2>1, <2>2
<1>17. CASE word = \hF5
  <2>1. F = <<U8("cpu"), U32("address"), U8("state")>>
    BY <1>17 DEF Fields, FixedWords, LiveLayout
  <2>2. Total(F, 6)
    BY <2>1, CpuAddressState
  <2>3. Shortest(word, n) = 6
    BY <1>17 DEF Shortest
  <2> QED
    BY <2>2, <2>3, NeedsShortest
<1>18. CASE word = \hFB
  <2> DEFINE x == <<U8("channel")>>
             y == Times(8, U16("raw"))
  <2>1. F = x \o y
    BY <1>18 DEF Fields, FixedWords, LiveLayout
  <2>2. Total(x, 1) /\ Total(y, 16)
    BY ChannelFields, TimesFields
  <2>3. Shortest(word, n) = 17
    BY <1>18 DEF Shortest
  <2> HIDE DEF x, y
  <2>4. 1 + 16 = 17
    OBVIOUS
  <2> QED
    BY <2>1, <2>2, <2>3, <2>4, NeedsJoined
<1>19. CASE word = \hFD
  <2>1. F = <<>>
    BY <1>19 DEF Fields, FixedWords, LiveLayout
  <2>2. Listed(F) /\ Len(F) = 0
    BY <2>1 DEF Listed
  <2>3. Total(F, 0)
    BY <2>2, TotalOfNothing
  <2>4. Shortest(word, n) = 0
    BY <1>19 DEF Shortest
  <2> QED
    BY <2>3, <2>4, NeedsShortest
<1>20. CASE word = \h45
  <2>0. Fields(word, body) =
          <<U8("channel"), U8("link_state"), U8("cells")>>
            \o Times(IF Len(body) < 3 THEN 0 ELSE body[3], U16("cell_mv"))
            \o Sizes(<<1, 4, 4, 2, 2, 2, 2, 2, 1>>)
    <3>1. /\ word # \h01 /\ word # \h0E /\ word # \hE5 /\ word \notin FixedWords
      BY <1>20 DEF FixedWords
    <3> QED
      BY <1>20, <3>1, Zenon DEF Fields
  <2> DEFINE m == IF n < 3 THEN 0 ELSE body[3]
             a == <<U8("channel"), U8("link_state"), U8("cells")>>
             b == Times(m, U16("cell_mv"))
             c == Sizes(<<1, 4, 4, 2, 2, 2, 2, 2, 1>>)
  <2>1. F = a \o b \o c
    BY <2>0, Zenon
  <2>2. m = IF n < 3 THEN 0 ELSE 2
    BY <1>20
  <2>3. Total(a, 3) /\ Total(c, 20)
    BY LinkOfBattery, BatteryState
  <2> HIDE DEF m, a, c, F
  <2>4. m \in Nat
    BY <2>2
  <2>5. Total(b, 2 * m)
    BY <2>4, TimesFields
  <2> HIDE DEF b
  <2>6. Total(a \o b, 3 + 2 * m)
    BY <2>3, <2>5, TotalOfJoined
  <2>7. Total(F, (3 + 2 * m) + 20)
    BY <2>1, <2>3, <2>6, TotalOfJoined
  <2>8. (3 + 2 * m) + 20 = IF n < 3 THEN 23 ELSE 27
    BY <2>2
  <2>9. Shortest(word, n) = 27
    BY <1>20 DEF Shortest
  <2>10. PICK T \in Nat : T = (3 + 2 * m) + 20
    BY <2>4
  <2>11. T <= n <=> 27 <= n
    BY <2>8, <2>10
  <2> QED
    BY <2>7, <2>9, <2>10, <2>11 DEF Needs, F
<1>21. CASE word = \hE5
  <2>0. Fields(word, body) = ElectricalFields(Len(body) + 1 >= 35)
    BY <1>21, ElectricalIs
  <2>1. CASE n + 1 >= 35
    <3> DEFINE x == <<U8("channel"), U32("input_mv"), U32("input_ma"), U32("output_mv"),
                      U32("current_ma")>>
               y == Times(16, U16("cell_mv"))
    <3>0. (Len(body) + 1 >= 35) = TRUE
      BY <2>1
    <3>1. F = ElectricalFields(TRUE)
      BY <2>0, <3>0, Zenon
    <3>2. ElectricalFields(TRUE) = x \o y
      BY DEF ElectricalFields, U32
    <3>3. Total(x, 17) /\ Total(y, 32)
      BY ElectricalWide, TimesFields
    <3>4. Shortest(word, n) = 49
      BY <1>21, <2>1 DEF Shortest
    <3> HIDE DEF x, y
    <3>5. 17 + 32 = 49
      OBVIOUS
    <3> QED
      BY <3>1, <3>2, <3>3, <3>4, <3>5, NeedsJoined
  <2>2. CASE ~ (n + 1 >= 35)
    <3> DEFINE x == <<U8("channel"), U16("input_mv"), U32("input_ma"), U16("output_mv"),
                      U32("current_ma")>>
               y == Times(8, U16("cell_mv"))
    <3>0. (Len(body) + 1 >= 35) = FALSE
      BY <2>2
    <3>1. F = ElectricalFields(FALSE)
      BY <2>0, <3>0, Zenon
    <3>2. ElectricalFields(FALSE) = x \o y
      BY DEF ElectricalFields, U16
    <3>3. Total(x, 13) /\ Total(y, 16)
      BY ElectricalNarrow, TimesFields
    <3>4. Shortest(word, n) = 29
      BY <1>21, <2>2 DEF Shortest
    <3> HIDE DEF x, y
    <3>5. 13 + 16 = 29
      OBVIOUS
    <3> QED
      BY <3>1, <3>2, <3>3, <3>4, <3>5, NeedsJoined
  <2> QED
    BY <2>1, <2>2
<1>22. \/ word = \h19 \/ word = \h41 \/ word = \h43 \/ word = \h47 \/ word = \h49
       \/ word = \hBB \/ word = \hBD \/ word = \hBF \/ word \in {\hC1, \hD1, \hD3, \hF1}
       \/ word = \hD5 \/ word \in {\hDD, \hDF, \hEB} \/ word = \hE1 \/ word = \hE3
       \/ word = \hE7 \/ word = \hE9 \/ word \in {\hF3, \hF7} \/ word = \hF5
       \/ word = \hFB \/ word = \hFD \/ word = \h45 \/ word = \hE5
  BY DEF AnswerWords
<1> HIDE DEF F, n
<1> QED
  BY <1>1, <1>2, <1>3, <1>4, <1>5, <1>6, <1>7, <1>8, <1>9, <1>10, <1>11, <1>12, <1>13, <1>14,
     <1>15, <1>16, <1>17, <1>18, <1>19, <1>20, <1>21, <1>22
-----------------------------------------------------------------------------
(* The charger's answers                                                   *)

Asked == RequestKinds \ {"Raw", "Identify"}

LEMMA AnswerWord ==
  ASSUME NEW k \in Asked
  PROVE  /\ CommandWord[k] + 1 \in AnswerWords
         /\ CommandWord[k] + 1 = \h45 => k = "BattgoRealState"
  BY DEF Asked, RequestKinds, CommandWord, AnswerWords

LEMMA AnswersAreModelled == AnswerWords \subseteq ModelledWords
  BY DEF AnswerWords, ModelledWords, FixedWords, LiveWords

LEMMA ListIs ==
  ASSUME NEW n \in Nat, NEW f, DOMAIN f = 1 .. n, f = [i \in 1 .. n |-> f[i]]
  PROVE  f \in Seq({f[i] : i \in 1 .. n}) /\ Len(f) = n
<1> DEFINE V == {f[i] : i \in 1 .. n}
<1>1. \A i \in 1 .. n : f[i] \in V
  OBVIOUS
<1> HIDE DEF V
<1>2. f \in [1 .. n -> V]
  BY <1>1
<1>3. f \in Seq(V) /\ Len(f) = n
  BY <1>2
<1> QED
  BY <1>3 DEF V

LEMMA PatternIs ==
  ASSUME NEW n \in Nat, NEW channel
  PROVE  /\ DOMAIN Pattern(n, channel) = 1 .. n /\ Len(Pattern(n, channel)) = n
         /\ \E V : Pattern(n, channel) \in Seq(V)
         /\ n >= 1 => Pattern(n, channel)[1] = channel
<1> DEFINE p == Pattern(n, channel)
<1>1. DOMAIN p = 1 .. n /\ p = [i \in 1 .. n |-> p[i]]
  BY DEF Pattern
<1>2. n >= 1 => p[1] = channel
  BY DEF Pattern
<1> HIDE DEF p
<1>3. p \in Seq({p[i] : i \in 1 .. n}) /\ Len(p) = n
  BY <1>1, ListIs
<1> QED
  BY <1>1, <1>2, <1>3 DEF p

LEMMA OfLengthIs ==
  ASSUME NEW V, NEW body \in Seq(V), NEW n \in Nat, NEW channel, NEW t,
         t = SubSeq(OfLength(body, n, channel), 1, n)
  PROVE  /\ Len(t) = n /\ \E W : t \in Seq(W)
         /\ \A i \in 1 .. n : i <= Len(body) => t[i] = body[i]
         /\ n >= 1 /\ Len(body) = 0 => t[1] = channel
<1> DEFINE p == Pattern(n, channel)
           L == Len(body)
           q == SubSeq(p, L + 1, n)
           s == body \o q
<1>1. PICK W : p \in Seq(W)
  BY PatternIs
<1>2. Len(p) = n /\ (n >= 1 => p[1] = channel)
  BY PatternIs
<1>3. L \in Nat
  OBVIOUS
<1> HIDE DEF p, L
<1>4. q \in Seq(W) /\ Len(q) = IF L + 1 <= n THEN n - L ELSE 0
  BY <1>1, <1>2, <1>3
<1>5. L = 0 /\ n >= 1 => q[1] = p[1]
  BY <1>1, <1>2, <1>3
<1>6. t = SubSeq(s, 1, n)
  BY DEF OfLength, p, L
<1> HIDE DEF q
<1>7. /\ s \in Seq(V \union W) /\ Len(s) = L + Len(q)
      /\ \A i \in 1 .. L : s[i] = body[i]
      /\ L = 0 /\ Len(q) >= 1 => s[1] = q[1]
  BY <1>4 DEF L
<1> HIDE DEF s
<1>8. n <= Len(s)
  BY <1>3, <1>4, <1>7
<1>9. /\ Len(t) = n /\ t \in Seq(V \union W)
      /\ \A i \in 1 .. n : t[i] = s[i]
  BY <1>6, <1>7, <1>8
<1>10. \A i \in 1 .. n : i <= L => i \in 1 .. L
  OBVIOUS
<1>11. n >= 1 /\ L = 0 => Len(q) >= 1 /\ 1 \in 1 .. n
  BY <1>4
<1> QED
  BY <1>2, <1>5, <1>7, <1>9, <1>10, <1>11 DEF L

LEMMA CutIs ==
  ASSUME NEW s, NEW first \in Nat, NEW end \in Nat, first <= end, NEW t,
         t = SubSeq(s, first, end)
  PROVE  \E V : t \in Seq(V)
<1>1. PICK n \in Nat : n = end - first + 1
  OBVIOUS
<1>2. t = [i \in 1 .. n |-> s[i + first - 1]]
  BY <1>1
<1>3. DOMAIN t = 1 .. n /\ t = [i \in 1 .. n |-> t[i]]
  BY <1>2
<1>4. PICK f : f = t
  OBVIOUS
<1>5. DOMAIN f = 1 .. n /\ f = [i \in 1 .. n |-> f[i]]
  BY <1>3, <1>4
<1>6. f \in Seq({f[i] : i \in 1 .. n}) /\ Len(f) = n
  BY <1>5, ListIs
<1> QED
  BY <1>4, <1>6

LEMMA SpliceListed ==
  ASSUME NEW n \in Nat, NEW body, DOMAIN body = 1 .. n, NEW at \in Nat, NEW bytes,
         Len(bytes) \in Nat, NEW s, s = Splice(body, at, bytes)
  PROVE  (\E V : s \in Seq(V)) /\ Len(s) = n
<1>1. DOMAIN s = 1 .. n /\ s = [i \in 1 .. n |-> s[i]]
  BY DEF Splice
<1>2. s \in Seq({s[i] : i \in 1 .. n}) /\ Len(s) = n
  BY <1>1, ListIs
<1> QED
  BY <1>2

LEMMA WorkStateIs ==
  ASSUME NEW channel, NEW b, b = WorkStateBody(channel)
  PROVE  (\E V : b \in Seq(V)) /\ Len(b) = 36 /\ b[1] = channel
<1>0. PICK n \in Nat : n = 36
  OBVIOUS
<1>1. 1 <= n
  BY <1>0
<1>2. PICK task : task = memory["SetTask"]
  OBVIOUS
<1>3. PICK p : p = Pattern(36, channel)
  OBVIOUS
<1>4. DOMAIN p = 1 .. n /\ p[1] = channel
  <2>1. p = Pattern(n, channel)
    BY <1>0, <1>3
  <2> QED
    BY <1>1, <2>1, PatternIs
<1>5. PICK b1 : b1 = <<task[3], task[9], task[4]>>
  OBVIOUS
<1>6. PICK x, y, b3 : /\ x = SubSeq(task, 10, 11) /\ y = SubSeq(task, 5, 8)
                      /\ b3 = SubSeq(memory["SetLimitParameters"], 1, 2)
  OBVIOUS
<1>7. PICK b2 : b2 = x \o y
  OBVIOUS
<1>8. PICK s1 : s1 = Splice(p, 16, b1)
  OBVIOUS
<1>9. PICK s2 : s2 = Splice(s1, 19, b2)
  OBVIOUS
<1>10. PICK s3 : s3 = Splice(s2, 29, b3)
  OBVIOUS
<1>11. PICK b4 : b = Splice(s3, 2, b4) /\ Len(b4) = 1
  BY <1>2, <1>3, <1>5, <1>6, <1>7, <1>8, <1>9, <1>10 DEF WorkStateBody
<1>12. Len(b1) \in Nat /\ Len(b4) \in Nat
  BY <1>5, <1>11
<1>13. Len(b2) \in Nat
  <2>1. 10 \in Nat /\ 11 \in Nat /\ 5 \in Nat /\ 8 \in Nat /\ 10 <= 11 /\ 5 <= 8
    OBVIOUS
  <2>2. PICK V : x \in Seq(V)
    BY <1>6, <2>1, CutIs
  <2>3. PICK W : y \in Seq(W)
    BY <1>6, <2>1, CutIs
  <2>4. b2 \in Seq(V \union W)
    BY <1>7, <2>2, <2>3
  <2> QED
    BY <2>4
<1>14. Len(b3) \in Nat
  BY <1>6
<1>16. DOMAIN s1 = 1 .. n /\ s1[1] = p[1]
  BY <1>1, <1>4, <1>8, <1>12 DEF Splice
<1>17. DOMAIN s2 = 1 .. n /\ s2[1] = s1[1]
  BY <1>1, <1>9, <1>13, <1>16 DEF Splice
<1>18. DOMAIN s3 = 1 .. n /\ s3[1] = s2[1]
  BY <1>1, <1>10, <1>14, <1>17 DEF Splice
<1>19. b[1] = s3[1]
  BY <1>1, <1>11, <1>12, <1>18 DEF Splice
<1>20. (\E V : b \in Seq(V)) /\ Len(b) = n
  BY <1>11, <1>12, <1>18, SpliceListed
<1> QED
  BY <1>0, <1>4, <1>16, <1>17, <1>18, <1>19, <1>20

Bit(refused) == IF refused THEN 1 ELSE 0

LEMMA StateAtIs ==
  ASSUME NEW k
  PROVE  StateAt(k) \in Nat /\ StateAt(k) >= 1
<1>1. CASE k \in {"SetTask", "EraseApp", "ChecksumApp"}
  BY <1>1 DEF StateAt
<1>2. CASE k = "WriteApp"
  BY <1>2 DEF StateAt
<1>3. CASE k \notin {"SetTask", "EraseApp", "ChecksumApp", "WriteApp"}
  BY <1>3 DEF StateAt
<1> QED
  BY <1>1, <1>2, <1>3

LEMMA ChargerBodyIs ==
  ASSUME NEW k, NEW channel, NEW refused \in BOOLEAN,
         \A j \in Setters : memory[j] \in Seq(Byte), NEW b, b = ChargerBody(k, channel, refused)
  PROVE  /\ \E V : b \in Seq(V)
         /\ k = "BattgoRealState" => Len(b) = 26 /\ b[3] = 2
         /\ k = "WorkState" => Len(b) = 36 /\ b[1] = channel
         /\ k \in Acknowledged => Len(b) = StateAt(k) /\ b[StateAt(k)] = Bit(refused)
         /\ k \in {"Electrical", "Temperature", "InnerResistance"} => Len(b) = 0
<1>0. k \in {"WorkState", "OneKeyLaunch", "BattgoReadParameters", "BattgoRealState"} =>
        k \notin Acknowledged
  BY DEF Acknowledged
<1>1. CASE k = "WorkState"
  <2>1. b = WorkStateBody(channel)
    BY <1>0, <1>1 DEF ChargerBody
  <2> QED
    BY <1>0, <1>1, <2>1, WorkStateIs
<1>2. CASE k = "OneKeyLaunch"
  <2>1. b = memory["SetOneKeyLaunch"]
    BY <1>0, <1>2 DEF ChargerBody
  <2>2. b \in Seq(Byte)
    BY <2>1 DEF Setters
  <2> QED
    BY <1>0, <1>2, <2>2
<1>3. CASE k = "BattgoReadParameters"
  <2>1. b = memory["BattgoWriteParameters"]
    BY <1>0, <1>3 DEF ChargerBody
  <2>2. b \in Seq(Byte)
    BY <2>1 DEF Setters
  <2> QED
    BY <1>0, <1>3, <2>2
<1>4. CASE k = "BattgoRealState"
  <2> DEFINE p == Pattern(26, channel)
             x == <<2>>
  <2>1. b = Splice(p, 3, x)
    BY <1>0, <1>4 DEF ChargerBody
  <2>2. PICK n \in Nat : n = 26 /\ 1 <= n
    OBVIOUS
  <2>3. DOMAIN p = 1 .. n
    BY <2>2, PatternIs
  <2>4. Len(x) = 1 /\ Len(x) \in Nat /\ x[1] = 2 /\ 3 \in Nat
    OBVIOUS
  <2> HIDE DEF p, x
  <2>5. (\E V : b \in Seq(V)) /\ Len(b) = n
    BY <2>1, <2>3, <2>4, SpliceListed
  <2>6. b[3] = 2
    BY <2>1, <2>2, <2>3, <2>4 DEF Splice
  <2> QED
    BY <1>0, <1>4, <2>2, <2>5, <2>6
<1>5. CASE k \in Acknowledged
  <2>1. PICK m \in Nat : m = StateAt(k) /\ m >= 1
    BY StateAtIs
  <2>2. k \notin {"WorkState", "OneKeyLaunch", "BattgoReadParameters", "BattgoRealState",
                 "Electrical", "Temperature", "InnerResistance"}
    BY <1>5 DEF Acknowledged
  <2>3. b = [i \in 1 .. m |-> IF i < m THEN 0 ELSE Bit(refused)]
    BY <1>5, <2>1, <2>2 DEF ChargerBody, Bit
  <2>4. DOMAIN b = 1 .. m /\ b = [i \in 1 .. m |-> b[i]] /\ b[m] = Bit(refused)
    BY <2>1, <2>3
  <2>5. b \in Seq({b[i] : i \in 1 .. m}) /\ Len(b) = m
    BY <2>4, ListIs
  <2> QED
    BY <2>1, <2>2, <2>4, <2>5
<1>6. CASE k \notin {"WorkState", "OneKeyLaunch", "BattgoReadParameters", "BattgoRealState"}
                    \union Acknowledged
  <2>1. b = Pattern(0, channel)
    BY <1>6 DEF ChargerBody
  <2>2. (\E V : b \in Seq(V)) /\ Len(b) = 0
    BY <2>1, PatternIs
  <2> QED
    BY <1>6, <2>2
<1> QED
  BY <1>1, <1>2, <1>3, <1>4, <1>5, <1>6

\* A call under way names a request of the table, and the channel it asks for.
Asking(q) ==
  q # NoRequest =>
    /\ q.kind \in Asked
    /\ q.kind \in PerChannel => "channel" \in DOMAIN q.told /\ q.told.channel \in {0, 1}

\* What a reply that is on its way says of the request it answers.
Said(q, p) ==
  LET k == q.kind
      body == Tail(p.data)
      n == Len(body)
  IN /\ Head(p.data) = CommandWord[k] + 1 /\ n \in Nat /\ Len(p.data) = n + 1
     /\ p.refused \in BOOLEAN /\ (p.refused => k \in Acknowledged)
     /\ (k = "BattgoRealState" /\ n >= 3) => body[3] = 2
     /\ (k \in PerChannel \intersect DOMAIN Expected /\ n >= 1) => body[1] = q.told.channel
     /\ (k \in Acknowledged /\ n >= StateAt(k)) => body[StateAt(k)] = Bit(p.refused)

LEMMA DataSays ==
  ASSUME NEW n \in Nat, NEW W, NEW t \in Seq(W), NEW word, NEW d, d = <<word>> \o t
  PROVE  Head(d) = word /\ Tail(d) = t /\ Len(d) = Len(t) + 1
  OBVIOUS

LEMMA AnswerSays ==
  ASSUME NEW n \in Lengths, NEW refused \in BOOLEAN, Answer(n, refused), Asking(request),
         \A j \in Setters : memory[j] \in Seq(Byte)
  PROVE  Said(request, reply')
<1> DEFINE k == request.kind
           channel == IF "channel" \in DOMAIN request.told THEN request.told.channel ELSE 0
           b == ChargerBody(k, channel, refused)
           t == SubSeq(OfLength(b, n, channel), 1, n)
<1>1. /\ request # NoRequest /\ (refused => k \in Acknowledged)
      /\ reply' = [data |-> <<CommandWord[k] + 1>> \o t, refused |-> refused]
  BY DEF Answer
<1>2. k \in Asked /\ (k \in PerChannel => channel = request.told.channel)
  BY <1>1 DEF Asking
<1>3. n \in Nat
  BY BoundsAssumption
<1> HIDE DEF k, channel
<1>4. /\ k = "BattgoRealState" => Len(b) = 26 /\ b[3] = 2
      /\ k = "WorkState" => Len(b) = 36 /\ b[1] = channel
      /\ k \in Acknowledged => Len(b) = StateAt(k) /\ b[StateAt(k)] = Bit(refused)
      /\ k \in {"Electrical", "Temperature", "InnerResistance"} => Len(b) = 0
  BY ChargerBodyIs
<1>5. PICK V : b \in Seq(V)
  BY ChargerBodyIs
<1> HIDE DEF b
<1>6. /\ Len(t) = n /\ \E W : t \in Seq(W)
      /\ \A i \in 1 .. n : i <= Len(b) => t[i] = b[i]
      /\ n >= 1 /\ Len(b) = 0 => t[1] = channel
  BY <1>3, <1>5, OfLengthIs
<1> HIDE DEF t
<1>7. PICK W : t \in Seq(W)
  BY <1>6
<1>15. /\ Len(t) = n /\ \A i \in 1 .. n : i <= Len(b) => t[i] = b[i]
  BY <1>6
<1>8. Head(reply'.data) = CommandWord[k] + 1 /\ Tail(reply'.data) = t /\ Len(reply'.data) = n + 1
  BY <1>1, <1>3, <1>6, <1>7, DataSays
<1>9. reply'.refused = refused
  BY <1>1
<1>10. (k = "BattgoRealState" /\ n >= 3) => t[3] = 2
  <2> SUFFICES ASSUME k = "BattgoRealState", n >= 3 PROVE t[3] = 2
    OBVIOUS
  <2>1. 3 \in 1 .. n /\ 3 <= Len(b) /\ b[3] = 2
    <3>1. Len(b) = 26 /\ b[3] = 2
      BY <1>4
    <3> QED
      BY <1>3, <3>1
  <2>2. t[3] = b[3]
    BY <1>15, <2>1
  <2> QED
    BY <2>1, <2>2
<1>11. (k \in PerChannel \intersect DOMAIN Expected /\ n >= 1) => t[1] = channel
  <2>1. k \in PerChannel \intersect DOMAIN Expected =>
          k \in {"WorkState", "Electrical", "Temperature", "InnerResistance"}
    BY DEF PerChannel, Expected
  <2>2. k = "WorkState" /\ n >= 1 => t[1] = channel
    BY <1>3, <1>4, <1>6
  <2>3. k \in {"Electrical", "Temperature", "InnerResistance"} /\ n >= 1 => t[1] = channel
    BY <1>3, <1>4, <1>6
  <2> QED
    BY <2>1, <2>2, <2>3
<1>12. (k \in Acknowledged /\ n >= StateAt(k)) => t[StateAt(k)] = Bit(refused)
  <2> SUFFICES ASSUME k \in Acknowledged, n >= StateAt(k) PROVE t[StateAt(k)] = Bit(refused)
    OBVIOUS
  <2>1. PICK m \in Nat : m = StateAt(k) /\ m >= 1
    BY StateAtIs
  <2>2. m \in 1 .. n /\ m <= Len(b) /\ b[m] = Bit(refused)
    BY <1>3, <1>4, <2>1
  <2> QED
    BY <1>15, <2>1, <2>2
<1>14. k \in PerChannel \intersect DOMAIN Expected => channel = request.told.channel
  BY <1>2
<1> QED
  BY <1>1, <1>3, <1>6, <1>8, <1>9, <1>10, <1>11, <1>12, <1>14 DEF Said, k
-----------------------------------------------------------------------------
(* What the client makes of them                                           *)

\* The reply p answers q, and r is what the parser makes of its word and body,
\* of which it must find the fields F.
Reading(q, p, r, word, body, F) ==
  /\ q.kind \in Asked /\ Said(q, p) /\ r = Parse(p.data)
  /\ word = CommandWord[q.kind] + 1 /\ body = Tail(p.data) /\ F = Fields(word, body)

LEMMA ReadsItsFields ==
  ASSUME NEW q, NEW p, NEW r, NEW word, NEW body, NEW F, Reading(q, p, r, word, body, F)
  PROVE  \E T \in Nat : /\ Total(F, T) /\ ParsedAs(r, body, F, OptionalFields(word), T)
                        /\ r.command = word
                        /\ T <= Len(body) <=> Shortest(word, Len(body)) <= Len(body)
<1>1. /\ Head(p.data) = word /\ Len(body) \in Nat
      /\ q.kind = "BattgoRealState" /\ Len(body) >= 3 => body[3] = 2
  BY DEF Said, Reading
<1>2. word \in AnswerWords /\ (word = \h45 => q.kind = "BattgoRealState")
  BY AnswerWord DEF Reading
<1>3. word \in ModelledWords
  BY <1>2, AnswersAreModelled
<1>4. Needs(word, body)
  BY <1>1, <1>2, ReplyFields
<1>5. PICK T \in Nat : /\ Total(Fields(word, body), T)
                       /\ T <= Len(body) <=> Shortest(word, Len(body)) <= Len(body)
  BY <1>4 DEF Needs
<1>6. Total(F, T)
  BY <1>5, Zenon DEF Reading
<1>7. F = Fields(word, body) /\ body = Tail(p.data)
  BY DEF Reading
<1>8. Parse(p.data).command = word /\ ParsedAs(Parse(p.data), body, F, OptionalFields(word), T)
  BY <1>1, <1>3, <1>6, <1>7, ParseReads
<1>9. r.command = word /\ ParsedAs(r, body, F, OptionalFields(word), T)
  BY <1>8 DEF Reading
<1> QED
  BY <1>5, <1>6, <1>9, Zenon

LEMMA KnownExactly ==
  ASSUME NEW q, NEW p, NEW r, NEW word, NEW body, NEW F, Reading(q, p, r, word, body, F)
  PROVE  /\ r.command = word /\ r.pos <= Len(body) /\ r.known \in BOOLEAN
         /\ r.known <=> Shortest(word, Len(body)) <= Len(body)
<1>1. PICK T \in Nat : /\ Total(F, T) /\ ParsedAs(r, body, F, OptionalFields(word), T)
                       /\ r.command = word
                       /\ T <= Len(body) <=> Shortest(word, Len(body)) <= Len(body)
  BY ReadsItsFields
<1> QED
  BY <1>1, Zenon DEF ParsedAs

LEMMA FromLEOfOne ==
  ASSUME NEW b \in Seq(Byte), Len(b) = 1
  PROVE  FromLE(b) = b[1]
<1> DEFINE IsFrom(f) == f = [i \in 1 .. Len(b) + 1 |->
                               IF i > Len(b) THEN 0 ELSE b[i] + 256 * f[i + 1]]
           from == CHOOSE f : IsFrom(f)
<1>1. FromLE(b) = from[1]
  BY DEF FromLE
<1>2. b[1] \in Nat
  BY BytesAreNumbers
<1>3. \E f : IsFrom(f)
  <2> DEFINE f == [i \in 1 .. 2 |-> IF i = 2 THEN 0 ELSE b[1]]
  <2>1. \A i \in 1 .. 2 : f[i] = IF i > 1 THEN 0 ELSE b[i] + 256 * f[i + 1]
    BY <1>2
  <2>2. f = [i \in 1 .. 2 |-> f[i]]
    OBVIOUS
  <2> HIDE DEF f
  <2>3. f = [i \in 1 .. 2 |-> IF i > 1 THEN 0 ELSE b[i] + 256 * f[i + 1]]
    BY <2>1, <2>2
  <2>4. Len(b) + 1 = 2
    OBVIOUS
  <2> QED
    BY <2>3, <2>4
<1>4. IsFrom(from)
  <2> HIDE DEF IsFrom
  <2> QED
    BY <1>3
<1> HIDE DEF from
<1>5. from[2] = 0 /\ from[1] = b[1] + 256 * from[2]
  BY <1>4
<1> QED
  BY <1>1, <1>2, <1>5

\* A field of one byte is that byte.
LEMMA ByteRead ==
  ASSUME NEW body, NEW i \in Nat, NEW x \in {0, 1}, body[i] = x, NEW field, field.size = 1
  PROVE  Got(field, SubSeq(body, i, i)) = x
<1> DEFINE s == SubSeq(body, i, i)
<1>1. s = [j \in 1 .. 1 |-> body[j + i - 1]]
  OBVIOUS
<1>2. s = <<x>>
  BY <1>1
<1>3. <<x>> \in Seq(Byte) /\ Len(<<x>>) = 1 /\ <<x>>[1] = x
  BY DEF Byte
<1> HIDE DEF s
<1>4. FromLE(s) = x
  BY <1>2, <1>3, FromLEOfOne
<1> QED
  BY <1>4 DEF Got, s

\* The one field of a name, if no other that was read has it.
LEMMA ValueIs ==
  ASSUME NEW r, NEW name, NEW i \in DOMAIN r.values, r.fields[i].name = name,
         \A j \in DOMAIN r.values : r.fields[j].name = name => j = i
  PROVE  Value(r, name) = r.values[i]
<1> DEFINE c == CHOOSE j \in DOMAIN r.values : r.fields[j].name = name
<1>1. c \in DOMAIN r.values /\ r.fields[c].name = name
  OBVIOUS
<1>2. c = i
  BY <1>1
<1> QED
  BY <1>2 DEF Value

\* The only field of its name is the n-th, among fields of a byte each.
Leads(f, i, name) ==
  /\ i <= Len(f) /\ f[i].name = name /\ \A j \in 1 .. i : f[j].size = 1
  /\ \A j \in 1 .. Len(f) : f[j].name = name => j = i

\* The i-th field is the one byte at a place of the body.
Placed(f, i, at) ==
  /\ i \in 1 .. Len(f) /\ f[i].size = 1
  /\ \A w : Widths(w, Len(f), SizeOf(f)) => w[i - 1] + 1 = at /\ w[i] = at

LEMMA OneByte ==
  ASSUME NEW r, NEW body, NEW F, NEW O, NEW T, Total(F, T), Listed(O), ParsedAs(r, body, F, O, T),
         r.known, NEW i \in Nat, NEW at \in Nat, NEW name, Placed(F, i, at), F[i].name = name,
         \A j \in 1 .. Len(F) : F[j].name = name => j = i,
         \A j \in 1 .. Len(O) : O[j].name # name, NEW x \in {0, 1}, body[at] = x
  PROVE  Value(r, name) = x
<1> DEFINE N == Len(F)
           L == Len(r.values)
<1>1. /\ Listed(F) /\ N \in Nat /\ Len(O) \in Nat
      /\ DOMAIN F = 1 .. N /\ DOMAIN O = 1 .. Len(O)
  BY DEF Total, Listed
<1>2. PICK w : Widths(w, N, SizeOf(F))
  BY DEF Total
<1>3. /\ r.fields = F \o O /\ N <= L /\ L <= N + Len(O) /\ DOMAIN r.values = 1 .. L
      /\ L \in Nat
      /\ \A j \in 1 .. N : r.values[j] = Got(F[j], SubSeq(body, w[j - 1] + 1, w[j]))
  BY <1>2, Zenon DEF ParsedAs
<1>4. i \in 1 .. N /\ F[i].size = 1 /\ w[i - 1] + 1 = at /\ w[i] = at
  BY <1>2, Zenon DEF Placed
<1> HIDE DEF N
<1>5. r.values[i] = x
  <2>1. r.values[i] = Got(F[i], SubSeq(body, at, at))
    BY <1>3, <1>4
  <2> QED
    BY <1>4, <2>1, ByteRead
<1>6. \A j \in 1 .. N : (F \o O)[j] = F[j]
  BY <1>1 DEF N
<1>7. \A j \in 1 .. L : j \notin 1 .. N => (F \o O)[j] = O[j - N] /\ j - N \in 1 .. Len(O)
  BY <1>1, <1>3 DEF N
<1> HIDE DEF L
<1>8. i \in DOMAIN r.values /\ r.fields[i].name = name
  <2>1. i \in 1 .. L
    <3>1. PICK l, m \in Nat : l = L /\ m = N
      BY <1>1, <1>3 DEF N
    <3>2. m <= l /\ i \in 1 .. m
      BY <1>3, <1>4, <3>1
    <3> QED
      BY <3>1, <3>2
  <2>2. (F \o O)[i].name = name
    BY <1>4, <1>6
  <2> QED
    BY <1>3, <2>1, <2>2
<1>9. ASSUME NEW j \in DOMAIN r.values, r.fields[j].name = name PROVE j = i
  <2>1. j \in 1 .. L /\ (F \o O)[j].name = name
    BY <1>3, <1>9
  <2>2. j \in 1 .. N
    BY <1>7, <2>1
  <2> QED
    BY <1>6, <2>1, <2>2 DEF N
<1> QED
  BY <1>5, <1>8, <1>9, ValueIs

LEMMA FirstBytes ==
  ASSUME NEW r, NEW body, NEW F, NEW O, NEW T, Total(F, T), Listed(O), ParsedAs(r, body, F, O, T),
         r.known, NEW i \in {1, 2}, NEW name, Leads(F, i, name),
         \A j \in 1 .. Len(O) : O[j].name # name, NEW x \in {0, 1}, body[i] = x
  PROVE  Value(r, name) = x
<1>1. PICK N \in Nat : N = Len(F)
  BY DEF Total, Listed
<1>2. i \in 1 .. N
  BY <1>1 DEF Leads
<1>3. ASSUME NEW w, Widths(w, N, SizeOf(F)) PROVE w[i - 1] + 1 = i /\ w[i] = i
  <2>1. \A j \in 1 .. i : F[j].size = 1
    BY DEF Leads
  <2>2. w[0] = 0 /\ \A j \in 1 .. N : w[j] = w[j - 1] + F[j].size
    <3>1. DOMAIN F = 1 .. N
      BY <1>1 DEF Total, Listed
    <3> QED
      BY <1>1, <1>3, <3>1 DEF Widths, SizeOf
  <2>3. CASE i = 1
    BY <1>2, <2>1, <2>2, <2>3
  <2>4. CASE i = 2
    <3>1. 1 \in 1 .. N /\ 2 \in 1 .. N /\ F[1].size = 1 /\ F[2].size = 1
      BY <1>2, <2>1, <2>4
    <3>2. w[1] = w[0] + 1 /\ w[2] = w[1] + 1
      BY <2>2, <3>1
    <3> QED
      BY <2>2, <2>4, <3>2
  <2> QED
    BY <2>3, <2>4
<1>4. Placed(F, i, i)
  <2>1. F[i].size = 1
    BY <1>2 DEF Leads
  <2> QED
    BY <1>1, <1>2, <1>3, <2>1 DEF Placed
<1>5. F[i].name = name /\ \A j \in 1 .. Len(F) : F[j].name = name => j = i
  BY DEF Leads
<1>6. i \in Nat
  OBVIOUS
<1> QED
  BY <1>4, <1>5, <1>6, OneByte

LEMMA StateLeads ==
  ASSUME NEW word \in {\hC1, \hD1, \hD3, \h19, \hF1}, NEW body
  PROVE  Leads(Fields(word, body), 1, "state") /\ OptionalFields(word) = <<>>
<1>1. Fields(word, body) = <<U8("state")>>
  <2>1. CASE word = \hC1
    BY <2>1 DEF Fields, FixedWords, LiveLayout
  <2>2. CASE word = \hD1
    BY <2>2 DEF Fields, FixedWords, LiveLayout
  <2>3. CASE word = \hD3
    BY <2>3 DEF Fields, FixedWords, LiveLayout
  <2>4. CASE word = \h19
    BY <2>4 DEF Fields, FixedWords, FixedLayout
  <2>5. CASE word = \hF1
    BY <2>5 DEF Fields, FixedWords, LiveLayout
  <2> QED
    BY <2>1, <2>2, <2>3, <2>4, <2>5
<1>2. OptionalFields(word) = <<>>
  BY DEF OptionalFields
<1> QED
  BY <1>1, <1>2 DEF Leads, U8, Field

LEMMA SecondStateLeads ==
  ASSUME NEW word \in {\hEB, \hF3, \hF7}, NEW body, NEW f, f = Fields(word, body)
  PROVE  Leads(f, 2, "state") /\ OptionalFields(word) = <<>>
<1>1. OptionalFields(word) = <<>>
  BY DEF OptionalFields
<1>2. \E name \in {"channel", "cpu"} : f = <<U8(name), U8("state")>>
  <2>1. CASE word = \hEB
    BY <2>1 DEF Fields, FixedWords, LiveLayout
  <2>2. CASE word = \hF3
    BY <2>2 DEF Fields, FixedWords, LiveLayout
  <2>3. CASE word = \hF7
    BY <2>3 DEF Fields, FixedWords, LiveLayout
  <2> QED
    BY <2>1, <2>2, <2>3
<1>3. PICK name \in {"channel", "cpu"} : f = <<U8(name), U8("state")>>
  BY <1>2
<1>4. Len(f) = 2 /\ f[1] = [name |-> name, size |-> 1] /\ f[2] = [name |-> "state", size |-> 1]
  BY <1>3 DEF U8, Field
<1>5. Leads(f, 2, "state")
  BY <1>4 DEF Leads
<1> QED
  BY <1>1, <1>5

\* The state of a block's acknowledgement stands after the processor and an
\* address of four bytes.
LEMMA BlockStatePlaced ==
  ASSUME NEW word, word = \hF5, NEW body, NEW f, f = Fields(word, body)
  PROVE  /\ Placed(f, 3, 6) /\ f[3].name = "state" /\ OptionalFields(word) = <<>>
         /\ \A j \in 1 .. Len(f) : f[j].name = "state" => j = 3
<1>1. OptionalFields(word) = <<>>
  BY DEF OptionalFields
<1>2. f = <<U8("cpu"), U32("address"), U8("state")>>
  BY DEF Fields, FixedWords, LiveLayout
<1>3. /\ Len(f) = 3 /\ DOMAIN f = 1 .. 3
      /\ f[1] = [name |-> "cpu", size |-> 1] /\ f[2] = [name |-> "address", size |-> 4]
      /\ f[3] = [name |-> "state", size |-> 1]
  BY <1>2 DEF U8, U32, Field
<1>4. ASSUME NEW w, Widths(w, Len(f), SizeOf(f)) PROVE w[3 - 1] + 1 = 6 /\ w[3] = 6
  <2>1. w[0] = 0 /\ w[1] = w[0] + 1 /\ w[2] = w[1] + 4 /\ w[3] = w[2] + 1
    BY <1>3, <1>4 DEF Widths, SizeOf
  <2> QED
    BY <2>1
<1>5. Placed(f, 3, 6)
  BY <1>3, <1>4 DEF Placed
<1>6. f[3].name = "state" /\ \A j \in 1 .. Len(f) : f[j].name = "state" => j = 3
  BY <1>3
<1> QED
  BY <1>1, <1>5, <1>6

\* The channel comes first, before a list of fields that do not name it.
LEMMA ChannelAndMore ==
  ASSUME NEW c, c.name = "channel", c.size = 1, NEW g, NEW n \in Nat, Len(g) = n,
         DOMAIN g = 1 .. n, \A j \in 1 .. n : g[j].name # "channel"
  PROVE  Leads(<<c>> \o g, 1, "channel")
<1> DEFINE f == <<c>> \o g
<1>1. Len(<<c>>) = 1 /\ <<c>>[1] = c /\ DOMAIN <<c>> = 1 .. 1
  OBVIOUS
<1>2. /\ Len(f) = 1 + n /\ f[1] = c
      /\ \A j \in 1 .. Len(f) : j # 1 => f[j] = g[j - 1] /\ j - 1 \in 1 .. n
  BY <1>1
<1> HIDE DEF f
<1>3. Leads(f, 1, "channel")
  BY <1>2 DEF Leads
<1> QED
  BY <1>3 DEF f

LEMMA ChannelLeads ==
  ASSUME NEW word \in {\hE5, \hE7, \hE9, \hFB}, NEW body, Len(body) \in Nat
  PROVE  /\ Leads(Fields(word, body), 1, "channel")
         /\ \A j \in 1 .. Len(OptionalFields(word)) : OptionalFields(word)[j].name # "channel"
<1> DEFINE F == Fields(word, body)
<1>1. CASE word = \hE7
  <2>1. F = <<U8("channel"), U8("state"), U8("percent"), U32("done_mah"),
              U32("done_mwh"), U32("period_ms"), U8("battery"), U8("cells"),
              U8("link"), U16("volt_mv"), U32("current_ma"), U16("total"),
              U16("done"), U16("min_input_mv"), U32("max_output_mw")>>
    BY <1>1 DEF Fields, FixedWords, LiveLayout
  <2>2. OptionalFields(word) = <<U16("errors")>>
    BY <1>1 DEF OptionalFields
  <2>3. PICK f : f = F
    OBVIOUS
  <2>4. /\ Len(f) = 15 /\ f[1].name = "channel" /\ f[1].size = 1 /\ f[2].name = "state"
        /\ f[3].name = "percent" /\ f[4].name = "done_mah" /\ f[5].name = "done_mwh"
        /\ f[6].name = "period_ms" /\ f[7].name = "battery" /\ f[8].name = "cells"
        /\ f[9].name = "link" /\ f[10].name = "volt_mv" /\ f[11].name = "current_ma"
        /\ f[12].name = "total" /\ f[13].name = "done" /\ f[14].name = "min_input_mv"
        /\ f[15].name = "max_output_mw"
    BY <2>1, <2>3 DEF U8, U16, U32, Field
  <2>5. Leads(f, 1, "channel")
    <3>1. ASSUME NEW j \in 1 .. 15, f[j].name = "channel" PROVE j = 1
      <4>1. \/ j = 1 \/ j = 2 \/ j = 3 \/ j = 4 \/ j = 5 \/ j = 6 \/ j = 7 \/ j = 8 \/ j = 9
            \/ j = 10 \/ j = 11 \/ j = 12 \/ j = 13 \/ j = 14 \/ j = 15
        OBVIOUS
      <4> QED
        BY <2>4, <3>1, <4>1, Zenon
    <3>2. 1 <= Len(f) /\ f[1].name = "channel" /\ \A j \in 1 .. 1 : f[j].size = 1
      BY <2>4
    <3> QED
      BY <2>4, <3>1, <3>2, Zenon DEF Leads
  <2> QED
    BY <2>2, <2>3, <2>5 DEF U16, Field
<1>2. CASE word = \hE9
  <2>1. F = <<U8("channel"), U8("device_c"), U8("battery_c"), U8("fan_raw")>>
    BY <1>2 DEF Fields, FixedWords, LiveLayout
  <2>2. OptionalFields(word) = <<>>
    BY <1>2 DEF OptionalFields
  <2>3. PICK f : f = F
    OBVIOUS
  <2>4. /\ Len(f) = 4 /\ f[1].name = "channel" /\ f[1].size = 1 /\ f[2].name = "device_c"
        /\ f[3].name = "battery_c" /\ f[4].name = "fan_raw"
    BY <2>1, <2>3 DEF U8, U16, U32, Field
  <2>5. Leads(f, 1, "channel")
    BY <2>4 DEF Leads
  <2> QED
    BY <2>2, <2>3, <2>5
<1>3. CASE word = \hFB
  <2> DEFINE g == Times(8, U16("raw"))
  <2>1. F = <<U8("channel")>> \o g
    BY <1>3 DEF Fields, FixedWords, LiveLayout
  <2>2. OptionalFields(word) = <<>>
    BY <1>3 DEF OptionalFields
  <2>3. Len(g) = 8 /\ DOMAIN g = 1 .. 8 /\ \A j \in 1 .. 8 : g[j].name # "channel"
    BY DEF Times, U16, Field
  <2>4. Leads(F, 1, "channel")
    <3> DEFINE c == U8("channel")
    <3>1. c.name = "channel" /\ c.size = 1
      BY DEF U8, Field
    <3> HIDE DEF c, g
    <3>2. PICK n \in Nat : n = 8
      OBVIOUS
    <3>3. Len(g) = n /\ DOMAIN g = 1 .. n /\ \A j \in 1 .. n : g[j].name # "channel"
      BY <2>3, <3>2
    <3>4. Leads(<<c>> \o g, 1, "channel")
      BY <3>1, <3>3, ChannelAndMore
    <3> QED
      BY <2>1, <3>4, Zenon DEF c
  <2> QED
    BY <2>2, <2>4 DEF F
<1>4. CASE word = \hE5
  <2>1. F = ElectricalFields(Len(body) + 1 >= 35)
    BY <1>4, ElectricalIs
  <2>2. OptionalFields(word) = <<>>
    BY <1>4 DEF OptionalFields
  <2>3. ASSUME NEW wide \in BOOLEAN PROVE Leads(ElectricalFields(wide), 1, "channel")
    <3> DEFINE a == Field("input_mv", IF wide THEN 4 ELSE 2)
               c == Field("output_mv", IF wide THEN 4 ELSE 2)
               n == IF wide THEN 16 ELSE 8
               h == <<U8("channel"), a, U32("input_ma"), c, U32("current_ma")>>
               t == Times(n, U16("cell_mv"))
               f == ElectricalFields(wide)
    <3>1. f = h \o t
      BY DEF ElectricalFields
    <3>2. /\ Len(h) = 5 /\ DOMAIN h = 1 .. 5 /\ h[1].name = "channel" /\ h[1].size = 1
          /\ h[2].name = "input_mv" /\ h[3].name = "input_ma" /\ h[4].name = "output_mv"
          /\ h[5].name = "current_ma"
      BY DEF U8, U32, Field
    <3>3. n \in Nat
      OBVIOUS
    <3>4. Len(t) = n /\ DOMAIN t = 1 .. n /\ \A j \in 1 .. n : t[j].name = "cell_mv"
      BY <3>3 DEF Times, U16, Field
    <3> HIDE DEF a, c, n, h, t, f
    <3>5. /\ Len(f) = 5 + n /\ \A j \in 1 .. 5 : f[j] = h[j]
          /\ \A j \in 1 .. Len(f) : j \notin 1 .. 5 => f[j] = t[j - 5] /\ j - 5 \in 1 .. n
      <4>1. PICK M, N \in Nat : M = Len(h) /\ N = Len(t)
        BY <3>2, <3>3, <3>4
      <4>2. DOMAIN h = 1 .. M /\ DOMAIN t = 1 .. N
        BY <3>2, <3>4, <4>1
      <4>3. /\ Len(h \o t) = M + N /\ \A j \in 1 .. M : (h \o t)[j] = h[j]
            /\ \A j \in 1 .. M + N : j \notin 1 .. M => (h \o t)[j] = t[j - M] /\ j - M \in 1 .. N
        BY <4>1, <4>2
      <4> QED
        BY <3>1, <3>2, <3>4, <4>1, <4>3
    <3>6. \A j \in 1 .. Len(f) : f[j].name = "channel" => j = 1
      <4> SUFFICES ASSUME NEW j \in 1 .. Len(f), f[j].name = "channel" PROVE j = 1
        OBVIOUS
      <4>1. j \in 1 .. 5
        BY <3>4, <3>5
      <4>2. h[j].name = "channel"
        BY <3>5, <4>1
      <4> QED
        BY <3>2, <4>1, <4>2
    <3>7. 1 <= Len(f) /\ f[1].name = "channel" /\ f[1].size = 1
      BY <3>2, <3>3, <3>5
    <3>8. \A j \in 1 .. 1 : f[j].size = 1
      BY <3>7
    <3>9. Leads(f, 1, "channel")
      BY <3>6, <3>7, <3>8 DEF Leads
    <3> QED
      BY <3>9 DEF f
  <2>4. (Len(body) + 1 >= 35) \in BOOLEAN
    OBVIOUS
  <2> HIDE DEF F
  <2>5. Leads(F, 1, "channel")
    BY <2>1, <2>3, <2>4, Zenon
  <2> QED
    BY <2>2, <2>5 DEF F
<1> QED
  BY <1>1, <1>2, <1>3, <1>4

LEMMA Words ==
  /\ CommandWord["SetName"] + 1 = \hC1 /\ CommandWord["SetLimitParameters"] + 1 = \hD1
  /\ CommandWord["SetOneKeyLaunch"] + 1 = \hD3 /\ CommandWord["SetTask"] + 1 = \hEB
  /\ CommandWord["Bind"] + 1 = \h19 /\ CommandWord["EnterBootloader"] + 1 = \hF1
  /\ CommandWord["EraseApp"] + 1 = \hF3 /\ CommandWord["WriteApp"] + 1 = \hF5
  /\ CommandWord["ChecksumApp"] + 1 = \hF7
  /\ CommandWord["Electrical"] + 1 = \hE5 /\ CommandWord["WorkState"] + 1 = \hE7
  /\ CommandWord["Temperature"] + 1 = \hE9 /\ CommandWord["InnerResistance"] + 1 = \hFB
  BY DEF CommandWord

\* An acknowledgement has its state as the last byte it must have.
LEMMA AcknowledgedShortest ==
  ASSUME NEW k \in Acknowledged, NEW word, word = CommandWord[k] + 1, NEW n
  PROVE  Shortest(word, n) = StateAt(k)
<1>1. CASE k \in {"Bind", "SetName", "SetLimitParameters", "SetOneKeyLaunch", "EnterBootloader"}
  <2>1. word \in {\h19, \hC1, \hD1, \hD3, \hF1}
    BY <1>1, Words
  <2>2. Shortest(word, n) = 1
    BY <2>1 DEF Shortest
  <2> QED
    BY <1>1, <2>2 DEF StateAt
<1>2. CASE k \in {"SetTask", "EraseApp", "ChecksumApp"}
  <2>1. word \in {\hEB, \hF3, \hF7}
    BY <1>2, Words
  <2>2. Shortest(word, n) = 2
    BY <2>1 DEF Shortest
  <2> QED
    BY <1>2, <2>2 DEF StateAt
<1>3. CASE k = "WriteApp"
  <2>1. word = \hF5
    BY <1>3, Words
  <2>2. Shortest(word, n) = 6
    BY <2>1 DEF Shortest
  <2> QED
    BY <1>3, <2>2 DEF StateAt
<1> QED
  BY <1>1, <1>2, <1>3 DEF Acknowledged

LEMMA ChannelShortest ==
  ASSUME NEW word \in {\hE5, \hE7, \hE9, \hFB}, NEW n
  PROVE  Shortest(word, n) \in Nat /\ Shortest(word, n) >= 1
<1>1. CASE word = \hE5
  BY <1>1 DEF Shortest
<1>2. CASE word = \hE7
  BY <1>2 DEF Shortest
<1>3. CASE word = \hE9
  BY <1>3 DEF Shortest
<1>4. CASE word = \hFB
  BY <1>4 DEF Shortest
<1> QED
  BY <1>1, <1>2, <1>3, <1>4

\* The acknowledgement in a reply is the one the charger meant.
LEMMA StateSays ==
  ASSUME NEW q, NEW p, NEW r, NEW word, NEW body, NEW F, Reading(q, p, r, word, body, F),
         r.known, q.kind \in Acknowledged
  PROVE  Value(r, "state") = Bit(p.refused)
<1> DEFINE n == Len(body)
           O == OptionalFields(word)
<1>0. F = Fields(word, body) /\ word = CommandWord[q.kind] + 1
  BY DEF Reading
<1>1. PICK T \in Nat : Total(F, T) /\ ParsedAs(r, body, F, O, T)
  BY ReadsItsFields
<1>2. Shortest(word, n) <= n
  BY KnownExactly
<1>3. Listed(O) /\ n \in Nat
  BY OptionalListed DEF Said, Reading
<1>4. Bit(p.refused) \in {0, 1}
  BY DEF Said, Reading, Bit
<1>5. PICK x \in {0, 1} : x = Bit(p.refused)
  BY <1>4
<1>6. body[StateAt(q.kind)] = x
  <2>1. Shortest(word, n) = StateAt(q.kind)
    BY <1>0, AcknowledgedShortest
  <2>2. StateAt(q.kind) \in Nat /\ n >= StateAt(q.kind)
    BY <1>2, <1>3, <2>1, StateAtIs
  <2> QED
    BY <1>5, <2>2 DEF Said, Reading
<1>7. CASE q.kind \in {"Bind", "SetName", "SetLimitParameters", "SetOneKeyLaunch",
                      "EnterBootloader"}
  <2>1. word \in {\hC1, \hD1, \hD3, \h19, \hF1}
    BY <1>0, <1>7, Words
  <2>2. Leads(F, 1, "state") /\ O = <<>>
    BY <1>0, <2>1, StateLeads
  <2>3. body[1] = x
    BY <1>6, <1>7 DEF StateAt
  <2>4. \A j \in 1 .. Len(O) : O[j].name # "state"
    BY <2>2
  <2> HIDE DEF O, n
  <2>5. Value(r, "state") = x
    BY <1>1, <1>3, <2>2, <2>3, <2>4, FirstBytes
  <2> QED
    BY <1>5, <2>5
<1>8. CASE q.kind \in {"SetTask", "EraseApp", "ChecksumApp"}
  <2>1. word \in {\hEB, \hF3, \hF7}
    BY <1>0, <1>8, Words
  <2>2. Leads(F, 2, "state") /\ O = <<>>
    BY <1>0, <2>1, SecondStateLeads
  <2>3. body[2] = x
    BY <1>6, <1>8 DEF StateAt
  <2>4. \A j \in 1 .. Len(O) : O[j].name # "state"
    BY <2>2
  <2> HIDE DEF O, n
  <2>5. Value(r, "state") = x
    BY <1>1, <1>3, <2>2, <2>3, <2>4, FirstBytes
  <2> QED
    BY <1>5, <2>5
<1>9. CASE q.kind = "WriteApp"
  <2>1. word = \hF5
    BY <1>0, <1>9, Words
  <2>2. /\ Placed(F, 3, 6) /\ F[3].name = "state" /\ O = <<>>
        /\ \A j \in 1 .. Len(F) : F[j].name = "state" => j = 3
    BY <1>0, <2>1, BlockStatePlaced
  <2>3. body[6] = x
    BY <1>6, <1>9 DEF StateAt
  <2>4. \A j \in 1 .. Len(O) : O[j].name # "state"
    BY <2>2
  <2>5. 3 \in Nat /\ 6 \in Nat
    OBVIOUS
  <2> HIDE DEF O, n
  <2>6. Value(r, "state") = x
    BY <1>1, <1>3, <2>2, <2>3, <2>4, <2>5, OneByte
  <2> QED
    BY <1>5, <2>6
<1> QED
  BY <1>7, <1>8, <1>9 DEF Acknowledged

\* The channel in a reply is the one that was asked for.
LEMMA ChannelSays ==
  ASSUME NEW q, NEW p, NEW r, NEW word, NEW body, NEW F, Reading(q, p, r, word, body, F),
         r.known, q.kind \in PerChannel \intersect DOMAIN Expected, q.told.channel \in {0, 1}
  PROVE  ChannelOf(r) = q.told.channel
<1> DEFINE n == Len(body)
           O == OptionalFields(word)
<1>0. F = Fields(word, body) /\ word = CommandWord[q.kind] + 1
  BY DEF Reading
<1>1. PICK T \in Nat : Total(F, T) /\ ParsedAs(r, body, F, O, T)
  BY ReadsItsFields
<1>2. Shortest(word, n) <= n /\ r.command = word
  BY KnownExactly
<1>3. Listed(O) /\ n \in Nat
  BY OptionalListed DEF Said, Reading
<1>4. PICK x \in {0, 1} : x = q.told.channel
  OBVIOUS
<1>5. word \in {\hE5, \hE7, \hE9, \hFB}
  <2>1. q.kind \in {"WorkState", "Electrical", "Temperature", "InnerResistance"}
    BY DEF PerChannel, Expected
  <2> QED
    BY <1>0, <2>1, Words
<1>6. PICK s \in Nat : s = Shortest(word, n) /\ s >= 1
  BY <1>5, ChannelShortest
<1>7. body[1] = x
  <2>1. n >= 1
    BY <1>2, <1>3, <1>6
  <2> QED
    BY <1>4, <2>1 DEF Said, Reading
<1>8. Leads(F, 1, "channel") /\ \A j \in 1 .. Len(O) : O[j].name # "channel"
  BY <1>0, <1>3, <1>5, ChannelLeads
<1> HIDE DEF O, n
<1>9. Value(r, "channel") = x
  BY <1>1, <1>3, <1>7, <1>8, FirstBytes
<1>10. ChannelOf(r) = Value(r, "channel")
  BY <1>2, <1>5 DEF ChannelOf
<1> QED
  BY <1>4, <1>9, <1>10

\* What was made of the last call.
Concluded(l) ==
  l.kind # "none" =>
    LET word == CommandWord[l.kind] + 1
        whole == l.size >= Shortest(word, l.size)
    IN /\ l.parsed.command = word /\ (l.parsed.known <=> whole) /\ l.parsed.pos <= l.size
       /\ l.kind \in DOMAIN Expected =>
            /\ l.verdict = "ok" <=> whole /\ ~l.refused
            /\ l.verdict = "unexpected" <=> ~whole
            /\ (whole /\ l.kind \in PerChannel) => ChannelOf(l.parsed) = l.told.channel

LEMMA ExpectedWord ==
  ASSUME NEW k \in DOMAIN Expected
  PROVE  Expected[k] = CommandWord[k] + 1
  BY DEF Expected, CommandWord

LEMMA VerdictIs ==
  ASSUME NEW q, NEW p, NEW r, NEW word, NEW body, NEW F, Reading(q, p, r, word, body, F),
         NEW k, k = q.kind, k \in DOMAIN Expected
  PROVE  /\ Verdict(k, r) = "ok" <=> r.known /\ ~p.refused
         /\ Verdict(k, r) = "unexpected" <=> ~r.known
<1>1. r.known \in BOOLEAN /\ r.command = Expected[k]
  BY KnownExactly, ExpectedWord DEF Reading
<1>2. p.refused \in BOOLEAN /\ (p.refused => k \in Acknowledged)
  BY DEF Reading, Said
<1>3. CASE ~r.known
  <2>1. Verdict(k, r) = "unexpected"
    BY <1>1, <1>3 DEF Verdict
  <2> QED
    BY <1>3, <2>1
<1>4. CASE r.known /\ k \in Acknowledged
  <2>1. Value(r, "state") = Bit(p.refused)
    BY <1>4, StateSays
  <2>2. Verdict(k, r) = IF Bit(p.refused) # 0 THEN "rejected" ELSE "ok"
    BY <1>1, <1>4, <2>1 DEF Verdict
  <2> QED
    BY <1>2, <1>4, <2>2 DEF Bit
<1>5. CASE r.known /\ k \notin Acknowledged
  <2>1. Verdict(k, r) = "ok"
    BY <1>1, <1>5 DEF Verdict
  <2> QED
    BY <1>2, <1>5, <2>1
<1> QED
  BY <1>1, <1>3, <1>4, <1>5

LEMMA UnderstandConcludes ==
  ASSUME NEW q, q # NoRequest, Asking(q), NEW p, Said(q, p), NEW r, r = Parse(p.data), NEW l,
         l = [kind |-> q.kind, verdict |-> Verdict(q.kind, r), parsed |-> r, told |-> q.told,
              size |-> Len(p.data) - 1, refused |-> p.refused]
  PROVE  Concluded(l)
<1>1. q.kind \in Asked /\ (q.kind \in PerChannel => q.told.channel \in {0, 1})
  BY DEF Asking
<1>2. PICK word, body, F : /\ word = CommandWord[q.kind] + 1 /\ body = Tail(p.data)
                           /\ F = Fields(word, body)
  OBVIOUS
<1>3. Reading(q, p, r, word, body, F)
  BY <1>1, <1>2 DEF Reading
<1>4. PICK n \in Nat : n = Len(body)
  BY <1>2 DEF Said
<1>5. Len(p.data) - 1 = n
  <2>1. Len(p.data) = n + 1
    BY <1>2, <1>4 DEF Said
  <2> QED
    BY <2>1
<1>6. /\ l.kind = q.kind /\ l.verdict = Verdict(q.kind, r) /\ l.parsed = r /\ l.told = q.told
      /\ l.size = n /\ l.refused = p.refused
  BY <1>5
<1>7. /\ r.command = word /\ r.pos <= n /\ r.known \in BOOLEAN
      /\ r.known <=> Shortest(word, n) <= n
  BY <1>3, <1>4, KnownExactly
<1>8. r.known <=> n >= Shortest(word, n)
  BY <1>7
<1>9. ASSUME q.kind \in DOMAIN Expected
      PROVE  /\ Verdict(q.kind, r) = "ok" <=> r.known /\ ~p.refused
             /\ Verdict(q.kind, r) = "unexpected" <=> ~r.known
  BY <1>3, <1>9, VerdictIs
<1>10. ASSUME q.kind \in DOMAIN Expected, q.kind \in PerChannel, r.known
       PROVE  ChannelOf(r) = q.told.channel
  BY <1>1, <1>3, <1>10, ChannelSays
<1> QED
  BY <1>2, <1>6, <1>7, <1>8, <1>9, <1>10, Zenon DEF Concluded
-----------------------------------------------------------------------------
(* A reply answers the call under way                                      *)

AnswerInv ==
  /\ TypeInv
  /\ Asking(request)
  /\ reply # NoReply => request # NoRequest /\ Said(request, reply)
  /\ Concluded(last)

LEMMA AnswerInit == Init => AnswerInv
<1> SUFFICES ASSUME Init PROVE AnswerInv
  OBVIOUS
<1>1. TypeInv
  BY TypeInit
<1>2. request = NoRequest /\ reply = NoReply /\ last.kind = "none"
  BY DEF Init
<1> QED
  BY <1>1, <1>2 DEF AnswerInv, Asking, Concluded

LEMMA CallKeepsAnswer ==
  ASSUME AnswerInv, TypeInv', NEW k, NEW args, NEW words, Call(k, args, words),
         k \in PerChannel => "channel" \in DOMAIN words /\ words.channel \in {0, 1}
  PROVE  AnswerInv'
<1>1. /\ request = NoRequest /\ k \in Asked /\ last'.kind = "none" /\ reply' = reply
      /\ request' = [kind |-> k, data |-> Data(k, args), told |-> words]
  BY KindsAssumption DEF Call, Asked
<1>2. request'.kind = k /\ request'.told = words
  BY <1>1
<1>3. Asking(request') /\ Concluded(last')
  BY <1>1, <1>2 DEF Asking, Concluded
<1>4. reply' = NoReply
  BY <1>1 DEF AnswerInv
<1> QED
  BY <1>3, <1>4 DEF AnswerInv, Asking, Concluded

LEMMA AnswerNext ==
  ASSUME AnswerInv, [Next]_vars
  PROVE  AnswerInv'
<1>0. TypeInv'
  BY TypeNext DEF AnswerInv
<1>1. ASSUME NEW k, NEW args, NEW words, Call(k, args, words), k \notin PerChannel
      PROVE  AnswerInv'
  BY <1>0, <1>1, CallKeepsAnswer
<1>2. ASSUME NEW task, NEW battery, NEW current, NEW cells, NEW typed, NEW force,
             Start(task, battery, "Both", current, cells, typed, force)
      PROVE  AnswerInv'
  <2>1. \E args, words : Call("SetTask", args, words)
    BY <1>2, Zenon DEF Start, StartTask
  <2> QED
    BY <1>1, <2>1 DEF PerChannel
<1>3. ASSUME NEW task, NEW battery, NEW current, NEW cells,
             WindowStart(task, battery, current, cells)
      PROVE  AnswerInv'
  <2>1. \E args, words : Call("SetTask", args, words)
    BY <1>3, Zenon DEF WindowStart, Apply, StartTask
  <2> QED
    BY <1>1, <2>1 DEF PerChannel
<1>4. ASSUME Stop PROVE AnswerInv'
  <2>1. \E args, words : Call("SetTask", args, words)
    BY <1>4, Zenon DEF Stop, StartTask
  <2> QED
    BY <1>1, <2>1 DEF PerChannel
<1>5. ASSUME NEW volt, NEW watts, Limits(volt, watts) PROVE AnswerInv'
  <2> DEFINE args == [min_input_mv |-> (volt * 1000) % 65536, max_input_mw |-> watts * 1000]
  <2>1. PICK words : Call("SetLimitParameters", args, words)
    BY <1>5 DEF Limits
  <2> HIDE DEF args
  <2> QED
    BY <1>1, <2>1 DEF PerChannel
<1>6. ASSUME NEW enabled, NEW battery, NEW cells, NEW volt, NEW current,
             OneKey(enabled, battery, cells, volt, current)
      PROVE  AnswerInv'
  <2>1. \E args, words : Call("SetOneKeyLaunch", args, words)
    BY <1>6, Zenon DEF OneKey
  <2> QED
    BY <1>1, <2>1 DEF PerChannel
<1>7. ASSUME NEW channel, NEW current, NEW store, NEW days,
             BattgoWrite(channel, current, store, 4200, days)
      PROVE  AnswerInv'
  <2> DEFINE args == [channel |-> channel, current_ma |-> current, store_mv |-> store,
                      volt_mv |-> 4200, days |-> days]
  <2>1. PICK words : Call("BattgoWriteParameters", args, words)
    BY <1>7 DEF BattgoWrite
  <2> HIDE DEF args
  <2> QED
    BY <1>1, <2>1 DEF PerChannel
<1>8. ASSUME NEW k \in Kinds, NEW channel \in {0, 1}, Ask(k, channel) PROVE AnswerInv'
  <2> DEFINE words == [channel |-> channel]
  <2>1. PICK args : Call(k, args, words)
    BY <1>8 DEF Ask
  <2>2. "channel" \in DOMAIN words /\ words.channel \in {0, 1}
    OBVIOUS
  <2> HIDE DEF words
  <2> QED
    BY <1>0, <2>1, <2>2, CallKeepsAnswer
<1>9. ASSUME NEW n \in Lengths, NEW refused \in BOOLEAN, Answer(n, refused) PROVE AnswerInv'
  <2>1. request # NoRequest /\ request' = request /\ last' = last
    BY <1>9 DEF Answer
  <2>2. Said(request, reply')
    BY <1>9, AnswerSays DEF AnswerInv, TypeInv
  <2> QED
    BY <1>0, <2>1, <2>2 DEF AnswerInv
<1>10. ASSUME Understand PROVE AnswerInv'
  <2> DEFINE r == Parse(reply.data)
  <2>1. /\ request # NoRequest /\ reply # NoReply /\ request' = NoRequest /\ reply' = NoReply
        /\ last' = [kind |-> request.kind, verdict |-> Verdict(request.kind, r), parsed |-> r,
                    told |-> request.told, size |-> Len(reply.data) - 1,
                    refused |-> reply.refused]
    BY <1>10 DEF Understand
  <2>2. Asking(request) /\ Said(request, reply)
    BY <2>1 DEF AnswerInv
  <2> HIDE DEF r
  <2>3. Concluded(last')
    BY <2>1, <2>2, UnderstandConcludes DEF r
  <2>4. Asking(request')
    BY <2>1 DEF Asking
  <2> QED
    BY <1>0, <2>1, <2>3, <2>4 DEF AnswerInv
<1>11. ASSUME UNCHANGED vars PROVE AnswerInv'
  <2>1. request' = request /\ reply' = reply /\ last' = last
    BY <1>11 DEF vars
  <2> QED
    BY <1>0, <2>1 DEF AnswerInv
<1> QED
  BY <1>2, <1>3, <1>4, <1>5, <1>6, <1>7, <1>8, <1>9, <1>10, <1>11 DEF Next

\* A reply is understood exactly when it has every byte its word needs, and is
\* never read past its end, whatever was cut off or added.
THEOREM RepliesParseExactly == Spec => []ParsesExactly
<1>1. AnswerInv => ParsesExactly
  BY Zenon DEF AnswerInv, Concluded, ParsesExactly
<1> QED
  BY <1>1, AnswerInit, AnswerNext, PTL DEF Spec

\* A typed method succeeds exactly when the whole answer came and accepts what
\* was asked, and what it returns is about the channel that was asked for.
THEOREM RepliesAnswerTheQuestion == Spec => []AnswersTheQuestion
<1>1. "none" \notin DOMAIN Expected
  BY DEF Expected
<1>2. AnswerInv => AnswersTheQuestion
  BY <1>1, Zenon DEF AnswerInv, Concluded, AnswersTheQuestion
<1> QED
  BY <1>2, AnswerInit, AnswerNext, PTL DEF Spec
-----------------------------------------------------------------------------
(* What is told comes back                                                 *)

\* Numbers of as many bytes as they are encoded in.
FitsIn(v, n) ==
  /\ n = 1 => v < 256
  /\ n = 2 => v < 65536
  /\ n = 4 => v \div 65536 < 65536

LEMMA FourDigits ==
  ASSUME NEW v \in Nat, v \div 65536 < 65536
  PROVE  v = (v % 256) + 256 * (((v \div 256) % 256)
               + 256 * (((v \div 65536) % 256) + 256 * ((v \div 16777216) % 256)))
<1>1. PICK h, l \in Nat : h = v \div 65536 /\ l = v % 65536
  BY SMT
<1>2. v = 65536 * h + l /\ h <= 65535 /\ l <= 65535
  BY <1>1, SMT
<1>3. v % 256 = l % 256 /\ (v \div 256) % 256 = (l \div 256) % 256
  BY <1>2, SMT
<1>4. v \div 65536 = h /\ v \div 16777216 = h \div 256
  BY <1>1, <1>2, SMT
<1>5. /\ l = (l % 256) + 256 * ((l \div 256) % 256)
      /\ h = (h % 256) + 256 * ((h \div 256) % 256)
  BY <1>2, TwoDigits
<1> QED
  BY <1>2, <1>3, <1>4, <1>5, SMT

LEMMA RoundTrip ==
  ASSUME NEW v \in Nat, NEW n \in {1, 2, 4}, FitsIn(v, n)
  PROVE  FromLE(ToLE(v, n)) = v
<1>1. ToLE(v, n) \in Seq(Byte) /\ Len(ToLE(v, n)) = n
  BY ToLEType
<1>2. CASE n = 1
  <2>1. FromLE(ToLE(v, 1)) = ToLE(v, 1)[1]
    BY <1>1, <1>2, FromLEOfOne
  <2>2. ToLE(v, 1)[1] = v % 256
    BY SMT DEF ToLE
  <2>3. v % 256 = v
    BY <1>2 DEF FitsIn
  <2> QED
    BY <1>2, <2>1, <2>2, <2>3
<1>3. CASE n = 2
  <2>1. v <= 65535
    BY <1>3 DEF FitsIn
  <2> QED
    BY <1>3, <2>1, RoundTripTwo
<1>4. CASE n = 4
  <2>1. FromLE(ToLE(v, 4)) = Word4(ToLE(v, 4))
    BY <1>1, <1>4, FromLEOfFour
  <2>2. ToLE(v, 4)[1] = v % 256 /\ ToLE(v, 4)[2] = (v \div 256) % 256
    BY SMT DEF ToLE
  <2>3. /\ ToLE(v, 4)[3] = (v \div 65536) % 256
        /\ ToLE(v, 4)[4] = (v \div 16777216) % 256
    BY SMT DEF ToLE
  <2>4. v \div 65536 < 65536
    BY <1>4 DEF FitsIn
  <2>5. FromLE(ToLE(v, 4))
          = (v % 256) + 256 * (((v \div 256) % 256)
              + 256 * (((v \div 65536) % 256) + 256 * ((v \div 16777216) % 256)))
    BY <2>1, <2>2, <2>3 DEF Word4
  <2> QED
    BY <1>4, <2>4, <2>5, FourDigits
<1> QED
  BY <1>2, <1>3, <1>4

\* The fields f begin at the places at, counting from zero, and take n bytes.
Places(f, at, n) ==
  /\ Listed(f)
  /\ \E w : /\ Widths(w, Len(f), SizeOf(f)) /\ w[Len(f)] = n
            /\ \A i \in 1 .. Len(f) : at[i] = w[i - 1]

LEMMA PlacesAre ==
  ASSUME NEW f, Listed(f), NEW at, NEW n, 1 <= Len(f), at[1] = 0,
         \A i \in 1 .. Len(f) - 1 : at[i + 1] = at[i] + f[i].size,
         n = at[Len(f)] + f[Len(f)].size
  PROVE  Places(f, at, n)
<1> DEFINE N == Len(f)
<1>1. N \in Nat
  BY DEF Listed
<1>2. PICK w : Widths(w, N, SizeOf(f))
  BY WidthsExist
<1>3. w[0] = 0 /\ \A i \in 1 .. N : w[i] = w[i - 1] + f[i].size
  BY <1>2 DEF Widths, SizeOf
<1> DEFINE K == {i \in Nat : i + 1 <= N => at[i + 1] = w[i]}
<1>4. 0 \in K
  BY <1>3
<1>5. ASSUME NEW i \in K PROVE i + 1 \in K
  <2> SUFFICES ASSUME (i + 1) + 1 <= N PROVE at[(i + 1) + 1] = w[i + 1]
    OBVIOUS
  <2>1. i \in Nat /\ i + 1 <= N /\ at[i + 1] = w[i]
    BY <1>1
  <2>2. i + 1 \in 1 .. N - 1 /\ i + 1 \in 1 .. N /\ (i + 1) - 1 = i
    BY <1>1, <2>1
  <2>3. at[(i + 1) + 1] = at[i + 1] + f[i + 1].size
    BY <2>2
  <2>4. w[i + 1] = w[i] + f[i + 1].size
    BY <1>3, <2>2
  <2> QED
    BY <2>1, <2>3, <2>4
<1>9. K \in SUBSET Nat
  OBVIOUS
<1> HIDE DEF K
<1>6. K = Nat
  BY <1>4, <1>5, <1>9, Induction
<1>7. \A i \in 1 .. N : at[i] = w[i - 1]
  <2> TAKE i \in 1 .. N
  <2>1. PICK h \in Nat : i = h + 1 /\ h = i - 1
    BY <1>1
  <2>2. h \in K /\ h + 1 <= N
    BY <1>1, <1>6, <2>1
  <2> QED
    BY <2>1, <2>2 DEF K
<1>8. w[N] = n
  BY <1>1, <1>3, <1>7
<1> QED
  BY <1>2, <1>7, <1>8 DEF Places

\* Behind a bytes of b the number v stands, in the order of to_le_bytes.
Stands(b, a, n, v) == \A j \in 1 .. n : b[a + j] = ToLE(v, n)[j]

\* Every field f names an argument that is a number.
Numbered(f, args) ==
  \A i \in 1 .. Len(f) : /\ f[i].size \in {1, 2, 4} /\ f[i].name \in DOMAIN args
                         /\ args[f[i].name] \in Nat

\* The n bytes of b hold the arguments at the places of their fields.
Holds(b, args, f, at, n) ==
  /\ b \in Seq(Byte) /\ Len(b) = n
  /\ \A i \in 1 .. Len(f) : Stands(b, at[i], f[i].size, args[f[i].name])

\* A packet holds each argument where the widths of those before it put it.
LEMMA PacketHolds ==
  ASSUME NEW k \in RequestKinds \ {"Raw"}, NEW args, NEW f, f = Arguments(k),
         Numbered(f, args), NEW at, NEW n, Places(f, at, n), NEW b, b = Tail(Data(k, args))
  PROVE  Holds(b, args, f, at, n)
<1> DEFINE N == Len(f)
           Piece(i) == ToLE(args[f[i].name], f[i].size)
           puts == [i \in DOMAIN f |-> Put(k, f[i], args)]
           ss == [i \in 1 .. N |-> Piece(i)]
           flat == FlattenSeq(ss)
<1>12. PICK w : /\ Widths(w, N, SizeOf(f)) /\ w[N] = n
                /\ \A i \in 1 .. N : at[i] = w[i - 1]
  BY DEF Places
<1>1. N \in Nat /\ DOMAIN f = 1 .. N
  BY DEF Places, Listed
<1>0. \A i \in 1 .. N : /\ f[i].size \in {1, 2, 4} /\ f[i].name \in DOMAIN args
                        /\ args[f[i].name] \in Nat
  BY DEF Numbered
<1>2. \A i \in 1 .. N : Put(k, f[i], args) = Piece(i)
  <2> TAKE i \in 1 .. N
  <2>1. f[i].size \in {1, 2, 4} /\ f[i].name \in DOMAIN args
    BY <1>0
  <2>2. ~(f[i].size > 4)
    BY <2>1
  <2> QED
    BY <2>1, <2>2 DEF Put
<1>3. puts = ss
  BY <1>1, <1>2
<1>4. \A i \in 1 .. N : Piece(i) \in Seq(Byte) /\ Len(Piece(i)) = f[i].size
  BY <1>0, ToLEType
<1> HIDE DEF Piece
<1>5. ss \in Seq(Seq(Byte)) /\ Len(ss) = N
  <2> DEFINE T == Seq(Byte)
  <2>1. \A i \in 1 .. N : Piece(i) \in T
    BY <1>4
  <2> HIDE DEF T
  <2>2. ss \in [1 .. N -> T]
    BY <2>1
  <2> HIDE DEF N, ss
  <2>3. ss \in Seq(T) /\ Len(ss) = N
    BY <1>1, <2>2
  <2> QED
    BY <2>3 DEF T
<1>6. \A i \in 1 .. N : ss[i] = Piece(i) /\ Len(ss[i]) = SizeOf(f)[i]
  BY <1>4 DEF SizeOf
<1> HIDE DEF N, ss
<1>7. /\ flat \in Seq(Byte) /\ Len(flat) = w[N]
      /\ \A i \in 1 .. N : \A j \in 1 .. SizeOf(f)[i] : flat[w[i - 1] + j] = ss[i][j]
  <2>1. Widths(w, Len(ss), SizeOf(f))
    BY <1>5, <1>12 DEF N
  <2>2. \A i \in 1 .. Len(ss) : Len(ss[i]) = SizeOf(f)[i]
    BY <1>5, <1>6
  <2> QED
    BY <1>5, <2>1, <2>2, FlatHolds
<1>8. Data(k, args) = <<CommandWord[k]>> \o flat
  BY <1>3 DEF Data
<1> HIDE DEF flat
<1>9. b = flat
  BY <1>7, <1>8
<1>10. \A i \in 1 .. N : SizeOf(f)[i] = f[i].size
  BY DEF SizeOf, N
<1>11. ASSUME NEW i \in 1 .. N PROVE Stands(b, at[i], f[i].size, args[f[i].name])
  <2> SUFFICES ASSUME NEW j \in 1 .. f[i].size PROVE b[at[i] + j] = Piece(i)[j]
    BY DEF Stands, Piece
  <2>1. j \in 1 .. SizeOf(f)[i] /\ at[i] = w[i - 1]
    BY <1>10, <1>12
  <2>2. flat[w[i - 1] + j] = ss[i][j]
    BY <1>7, <2>1
  <2>3. ss[i] = Piece(i)
    BY <1>6
  <2> QED
    BY <1>9, <2>1, <2>2, <2>3, Zenon
<1> QED
  BY <1>7, <1>9, <1>11, <1>12 DEF N, Holds

\* Bytes that are the same give the same number.
LEMMA SameCut ==
  ASSUME NEW x, NEW y, NEW a \in Nat, NEW b \in Nat, NEW n \in Nat,
         \A j \in 1 .. n : x[a + j] = y[b + j]
  PROVE  SubSeq(x, a + 1, a + n) = SubSeq(y, b + 1, b + n)
<1>1. ASSUME NEW z, NEW c \in Nat
      PROVE  SubSeq(z, c + 1, c + n) = [j \in 1 .. n |-> z[c + j]]
  <2>1. PICK m, e \in Nat : m = c + 1 /\ e = c + n
    OBVIOUS
  <2>2. n = e - m + 1
    BY <2>1
  <2>3. SubSeq(z, m, e) = [j \in 1 .. n |-> z[j + m - 1]]
    BY <2>2
  <2>4. \A j \in 1 .. n : j + m - 1 = c + j
    BY <2>1
  <2> QED
    BY <2>1, <2>3, <2>4
<1>2. SubSeq(x, a + 1, a + n) = [j \in 1 .. n |-> x[a + j]]
  BY <1>1
<1>3. SubSeq(y, b + 1, b + n) = [j \in 1 .. n |-> y[b + j]]
  BY <1>1
<1> QED
  BY <1>2, <1>3

\* A field that was encoded somewhere is read as its number.
LEMMA NumberRead ==
  ASSUME NEW x, NEW a \in Nat, NEW v \in Nat, NEW n \in {1, 2, 4}, FitsIn(v, n),
         Stands(x, a, n, v)
  PROVE  FromLE(SubSeq(x, a + 1, a + n)) = v
<1> DEFINE t == ToLE(v, n)
<1>1. t \in Seq(Byte) /\ Len(t) = n
  BY ToLEType
<1> HIDE DEF t
<1>2. SubSeq(x, a + 1, a + n) = SubSeq(t, 0 + 1, 0 + n)
  <2>1. \A j \in 1 .. n : x[a + j] = t[0 + j]
    BY DEF t, Stands
  <2>2. n \in Nat /\ 0 \in Nat
    OBVIOUS
  <2> HIDE DEF t
  <2> QED
    BY <2>1, <2>2, SameCut
<1>3. SubSeq(t, 0 + 1, 0 + n) = t
  BY <1>1
<1> QED
  BY <1>2, <1>3, RoundTrip DEF t

LEMMA ByteHeld ==
  ASSUME NEW b, NEW a \in Nat, NEW v \in Nat, v < 256, Stands(b, a, 1, v)
  PROVE  b[a + 1] = v
<1>1. ToLE(v, 1)[1] = v % 256
  BY SMT DEF ToLE
<1>2. b[a + 1] = ToLE(v, 1)[1]
  BY DEF Stands
<1> QED
  BY <1>1, <1>2

\* The field of a name that no other field has is what stands in its place.
LEMMA NamedValue ==
  ASSUME NEW r, NEW body, NEW F, NEW O, NEW T, Total(F, T), Listed(O), ParsedAs(r, body, F, O, T),
         r.known, NEW i \in 1 .. Len(F), NEW name, F[i].name = name,
         \A j \in 1 .. Len(F) : F[j].name = name => j = i,
         \A j \in 1 .. Len(O) : O[j].name # name,
         NEW at, NEW n, Places(F, at, n)
  PROVE  Value(r, name) = Got(F[i], SubSeq(body, at[i] + 1, at[i] + F[i].size))
<1> DEFINE N == Len(F)
           L == Len(r.values)
<1>1. /\ Listed(F) /\ N \in Nat /\ Len(O) \in Nat
      /\ DOMAIN F = 1 .. N /\ DOMAIN O = 1 .. Len(O)
  BY DEF Total, Listed
<1>2. PICK w : Widths(w, N, SizeOf(F)) /\ \A j \in 1 .. N : at[j] = w[j - 1]
  BY DEF Places
<1>3. /\ r.fields = F \o O /\ N <= L /\ L <= N + Len(O) /\ DOMAIN r.values = 1 .. L
      /\ L \in Nat
      /\ \A j \in 1 .. N : r.values[j] = Got(F[j], SubSeq(body, w[j - 1] + 1, w[j]))
  BY <1>2, Zenon DEF ParsedAs
<1> HIDE DEF N
<1>4. i \in Nat /\ i \in 1 .. N
  BY <1>1 DEF N
<1>8. \A j \in 1 .. N : (F \o O)[j] = F[j]
  BY <1>1 DEF N
<1>9. \A j \in 1 .. L : j \notin 1 .. N => (F \o O)[j] = O[j - N] /\ j - N \in 1 .. Len(O)
  BY <1>1, <1>3 DEF N
<1> HIDE DEF L
<1>10. i \in DOMAIN r.values /\ r.fields[i].name = name
  <2>1. i \in 1 .. L
    <3>1. PICK l, m \in Nat : l = L /\ m = N
      BY <1>1, <1>3 DEF N
    <3>2. m <= l /\ i \in 1 .. m
      BY <1>3, <1>4, <3>1
    <3> QED
      BY <3>1, <3>2
  <2>2. (F \o O)[i].name = name
    BY <1>4, <1>8
  <2> QED
    BY <1>3, <2>1, <2>2
<1>11. ASSUME NEW j \in DOMAIN r.values, r.fields[j].name = name PROVE j = i
  <2>1. j \in 1 .. L /\ (F \o O)[j].name = name
    BY <1>3, <1>11
  <2>2. j \in 1 .. N
    BY <1>9, <2>1
  <2> QED
    BY <1>8, <2>1, <2>2 DEF N
<1>12. Value(r, name) = r.values[i]
  BY <1>10, <1>11, ValueIs
<1>13. at[i] = w[i - 1] /\ w[i] = w[i - 1] + F[i].size
  BY <1>2, <1>4 DEF Widths, SizeOf, N
<1> QED
  BY <1>3, <1>4, <1>12, <1>13

\* The fields of a profile, as they are set and as they are shown.
ProfileLayout == <<U8("enabled"), U8("battery"), U8("cells"), U16("volt_mv"), U32("current_ma")>>

LEMMA ProfilePlaces ==
  ASSUME NEW f, f = ProfileLayout, NEW at, at = <<0, 1, 2, 3, 5>>
  PROVE  /\ Len(f) = 5 /\ DOMAIN f = 1 .. 5
         /\ f[1] = [name |-> "enabled", size |-> 1] /\ f[2] = [name |-> "battery", size |-> 1]
         /\ f[3] = [name |-> "cells", size |-> 1] /\ f[4] = [name |-> "volt_mv", size |-> 2]
         /\ f[5] = [name |-> "current_ma", size |-> 4]
         /\ at[1] = 0 /\ at[2] = 1 /\ at[3] = 2 /\ at[4] = 3 /\ at[5] = 5
         /\ Places(f, at, 9)
<1>1. /\ Len(f) = 5 /\ DOMAIN f = 1 .. 5
      /\ f[1] = [name |-> "enabled", size |-> 1] /\ f[2] = [name |-> "battery", size |-> 1]
      /\ f[3] = [name |-> "cells", size |-> 1] /\ f[4] = [name |-> "volt_mv", size |-> 2]
      /\ f[5] = [name |-> "current_ma", size |-> 4]
      /\ at[1] = 0 /\ at[2] = 1 /\ at[3] = 2 /\ at[4] = 3 /\ at[5] = 5
  BY DEF ProfileLayout, U8, U16, U32, Field
<1>2. Listed(f)
  BY <1>1 DEF Listed
<1>3. \A i \in 1 .. 4 : at[i + 1] = at[i] + f[i].size
  BY <1>1
<1>4. 9 = at[5] + f[5].size
  BY <1>1
<1>5. 1 <= Len(f) /\ Len(f) - 1 = 4
  BY <1>1
<1>6. PICK n : n = at[Len(f)] + f[Len(f)].size
  OBVIOUS
<1>7. n = 9
  BY <1>1, <1>4, <1>6
<1>8. \A i \in 1 .. Len(f) - 1 : at[i + 1] = at[i] + f[i].size
  BY <1>3, <1>5
<1>9. at[1] = 0 /\ 1 <= Len(f)
  BY <1>1, <1>5
<1>10. Places(f, at, n)
  BY <1>2, <1>6, <1>8, <1>9, PlacesAre
<1> QED
  BY <1>1, <1>7, <1>10

\* Where a profile is in its packet.
OneKeyArgs(e, c, cells, volt, current) ==
  [enabled |-> e, battery |-> c, cells |-> cells, volt_mv |-> volt, current_ma |-> current]

ProfileHolds(b, e, c, cells, volt, current) ==
  /\ b \in Seq(Byte) /\ Len(b) = 9
  /\ Stands(b, 0, 1, e) /\ Stands(b, 1, 1, c) /\ Stands(b, 2, 1, cells)
  /\ Stands(b, 3, 2, volt) /\ Stands(b, 5, 4, current)

LEMMA ProfileHeld ==
  ASSUME NEW e \in Nat, NEW c \in Nat, NEW cells \in Nat, NEW volt \in Nat, NEW current \in Nat,
         FitsIn(e, 1), FitsIn(c, 1), FitsIn(cells, 1), FitsIn(volt, 2), FitsIn(current, 4),
         NEW b, b = Tail(Data("SetOneKeyLaunch", OneKeyArgs(e, c, cells, volt, current)))
  PROVE  ProfileHolds(b, e, c, cells, volt, current)
<1>1. PICK k : k = "SetOneKeyLaunch" /\ k \in RequestKinds \ {"Raw"}
  BY DEF RequestKinds, CommandWord
<1>2. PICK f : f = Arguments(k) /\ f = ProfileLayout
  BY <1>1 DEF Arguments, PerChannel, ProfileLayout
<1>3. PICK at : at = <<0, 1, 2, 3, 5>>
  OBVIOUS
<1>4. /\ Len(f) = 5 /\ DOMAIN f = 1 .. 5
      /\ f[1] = [name |-> "enabled", size |-> 1] /\ f[2] = [name |-> "battery", size |-> 1]
      /\ f[3] = [name |-> "cells", size |-> 1] /\ f[4] = [name |-> "volt_mv", size |-> 2]
      /\ f[5] = [name |-> "current_ma", size |-> 4]
      /\ at[1] = 0 /\ at[2] = 1 /\ at[3] = 2 /\ at[4] = 3 /\ at[5] = 5
      /\ Places(f, at, 9)
  BY <1>2, <1>3, ProfilePlaces
<1>0. PICK args : args = OneKeyArgs(e, c, cells, volt, current)
  OBVIOUS
<1>5. /\ args["enabled"] = e /\ args["battery"] = c /\ args["cells"] = cells
      /\ args["volt_mv"] = volt /\ args["current_ma"] = current
      /\ DOMAIN args = {"enabled", "battery", "cells", "volt_mv", "current_ma"}
  BY <1>0 DEF OneKeyArgs
<1>6. Numbered(f, args)
  BY <1>4, <1>5 DEF Numbered
<1>7. b = Tail(Data(k, args))
  BY <1>0, <1>1, Zenon
<1>8. /\ b \in Seq(Byte) /\ Len(b) = 9
      /\ \A i \in 1 .. 5 : Stands(b, at[i], f[i].size, args[f[i].name])
  <2>1. f = Arguments(k) /\ Places(f, at, 9)
    BY <1>2, <1>4
  <2>2. Holds(b, args, f, at, 9)
    BY <1>1, <1>6, <1>7, <2>1, PacketHolds
  <2> QED
    BY <1>4, <2>2 DEF Holds
<1>9. Stands(b, 0, 1, e)
  <2>1. Stands(b, at[1], f[1].size, args[f[1].name])
    BY <1>8
  <2>2. f[1].size = 1 /\ args[f[1].name] = e
    BY <1>4, <1>5
  <2> QED
    BY <1>4, <2>1, <2>2
<1>10. Stands(b, 1, 1, c)
  <2>1. Stands(b, at[2], f[2].size, args[f[2].name])
    BY <1>8
  <2>2. f[2].size = 1 /\ args[f[2].name] = c
    BY <1>4, <1>5
  <2> QED
    BY <1>4, <2>1, <2>2
<1>11. Stands(b, 2, 1, cells)
  <2>1. Stands(b, at[3], f[3].size, args[f[3].name])
    BY <1>8
  <2>2. f[3].size = 1 /\ args[f[3].name] = cells
    BY <1>4, <1>5
  <2> QED
    BY <1>4, <2>1, <2>2
<1>12. Stands(b, 3, 2, volt)
  <2>1. Stands(b, at[4], f[4].size, args[f[4].name])
    BY <1>8
  <2>2. f[4].size = 2 /\ args[f[4].name] = volt
    BY <1>4, <1>5
  <2> QED
    BY <1>4, <2>1, <2>2
<1>13. Stands(b, 5, 4, current)
  <2>1. Stands(b, at[5], f[5].size, args[f[5].name])
    BY <1>8
  <2>2. f[5].size = 4 /\ args[f[5].name] = current
    BY <1>4, <1>5
  <2> QED
    BY <1>4, <2>1, <2>2
<1> QED
  BY <1>8, <1>9, <1>10, <1>11, <1>12, <1>13, Zenon DEF ProfileHolds

\* The fields of a battery, as they are written and as they are read.
BattgoLayout == <<U8("channel"), U32("current_ma"), U16("store_mv"), U16("volt_mv"), U8("days")>>

LEMMA BattgoPlaces ==
  ASSUME NEW f, f = BattgoLayout, NEW at, at = <<0, 1, 5, 7, 9>>
  PROVE  /\ Len(f) = 5 /\ DOMAIN f = 1 .. 5
         /\ f[1] = [name |-> "channel", size |-> 1] /\ f[2] = [name |-> "current_ma", size |-> 4]
         /\ f[3] = [name |-> "store_mv", size |-> 2] /\ f[4] = [name |-> "volt_mv", size |-> 2]
         /\ f[5] = [name |-> "days", size |-> 1]
         /\ at[1] = 0 /\ at[2] = 1 /\ at[3] = 5 /\ at[4] = 7 /\ at[5] = 9
         /\ Places(f, at, 10)
<1>1. /\ Len(f) = 5 /\ DOMAIN f = 1 .. 5
      /\ f[1] = [name |-> "channel", size |-> 1] /\ f[2] = [name |-> "current_ma", size |-> 4]
      /\ f[3] = [name |-> "store_mv", size |-> 2] /\ f[4] = [name |-> "volt_mv", size |-> 2]
      /\ f[5] = [name |-> "days", size |-> 1]
      /\ at[1] = 0 /\ at[2] = 1 /\ at[3] = 5 /\ at[4] = 7 /\ at[5] = 9
  BY DEF BattgoLayout, U8, U16, U32, Field
<1>2. Listed(f)
  BY <1>1 DEF Listed
<1>3. \A i \in 1 .. 4 : at[i + 1] = at[i] + f[i].size
  BY <1>1
<1>4. 10 = at[5] + f[5].size
  BY <1>1
<1>5. 1 <= Len(f) /\ Len(f) - 1 = 4
  BY <1>1
<1>6. PICK n : n = at[Len(f)] + f[Len(f)].size
  OBVIOUS
<1>7. n = 10
  BY <1>1, <1>4, <1>6
<1>8. \A i \in 1 .. Len(f) - 1 : at[i + 1] = at[i] + f[i].size
  BY <1>3, <1>5
<1>9. at[1] = 0 /\ 1 <= Len(f)
  BY <1>1, <1>5
<1>10. Places(f, at, n)
  BY <1>2, <1>6, <1>8, <1>9, PlacesAre
<1> QED
  BY <1>1, <1>7, <1>10

\* Where the settings of a battery are in their packet.
BattgoArgs(channel, current, store, full, days) ==
  [channel |-> channel, current_ma |-> current, store_mv |-> store, volt_mv |-> full,
   days |-> days]

BattgoHolds(b, channel, current, store, full, days) ==
  /\ b \in Seq(Byte) /\ Len(b) = 10
  /\ Stands(b, 0, 1, channel) /\ Stands(b, 1, 4, current) /\ Stands(b, 5, 2, store)
  /\ Stands(b, 7, 2, full) /\ Stands(b, 9, 1, days)

LEMMA BattgoHeld ==
  ASSUME NEW channel \in Nat, NEW current \in Nat, NEW store \in Nat, NEW full \in Nat,
         NEW days \in Nat, FitsIn(channel, 1), FitsIn(current, 4), FitsIn(store, 2),
         FitsIn(full, 2), FitsIn(days, 1),
         NEW b, b = Tail(Data("BattgoWriteParameters",
                               BattgoArgs(channel, current, store, full, days)))
  PROVE  BattgoHolds(b, channel, current, store, full, days)
<1>1. PICK k : k = "BattgoWriteParameters" /\ k \in RequestKinds \ {"Raw"}
  BY DEF RequestKinds, CommandWord
<1>2. PICK f : f = Arguments(k) /\ f = BattgoLayout
  BY <1>1 DEF Arguments, PerChannel, BattgoLayout
<1>3. PICK at : at = <<0, 1, 5, 7, 9>>
  OBVIOUS
<1>4. /\ Len(f) = 5 /\ DOMAIN f = 1 .. 5
      /\ f[1] = [name |-> "channel", size |-> 1] /\ f[2] = [name |-> "current_ma", size |-> 4]
      /\ f[3] = [name |-> "store_mv", size |-> 2] /\ f[4] = [name |-> "volt_mv", size |-> 2]
      /\ f[5] = [name |-> "days", size |-> 1]
      /\ at[1] = 0 /\ at[2] = 1 /\ at[3] = 5 /\ at[4] = 7 /\ at[5] = 9
      /\ Places(f, at, 10)
  BY <1>2, <1>3, BattgoPlaces
<1>0. PICK args : args = BattgoArgs(channel, current, store, full, days)
  OBVIOUS
<1>5. /\ args["channel"] = channel /\ args["current_ma"] = current /\ args["store_mv"] = store
      /\ args["volt_mv"] = full /\ args["days"] = days
      /\ DOMAIN args = {"channel", "current_ma", "store_mv", "volt_mv", "days"}
  BY <1>0 DEF BattgoArgs
<1>6. Numbered(f, args)
  BY <1>4, <1>5 DEF Numbered
<1>7. b = Tail(Data(k, args))
  BY <1>0, <1>1, Zenon
<1>8. /\ b \in Seq(Byte) /\ Len(b) = 10
      /\ \A i \in 1 .. 5 : Stands(b, at[i], f[i].size, args[f[i].name])
  <2>1. f = Arguments(k) /\ Places(f, at, 10)
    BY <1>2, <1>4
  <2>2. Holds(b, args, f, at, 10)
    BY <1>1, <1>6, <1>7, <2>1, PacketHolds
  <2> QED
    BY <1>4, <2>2 DEF Holds
<1>9. Stands(b, 0, 1, channel)
  <2>1. Stands(b, at[1], f[1].size, args[f[1].name])
    BY <1>8
  <2>2. f[1].size = 1 /\ args[f[1].name] = channel
    BY <1>4, <1>5
  <2> QED
    BY <1>4, <2>1, <2>2
<1>10. Stands(b, 1, 4, current)
  <2>1. Stands(b, at[2], f[2].size, args[f[2].name])
    BY <1>8
  <2>2. f[2].size = 4 /\ args[f[2].name] = current
    BY <1>4, <1>5
  <2> QED
    BY <1>4, <2>1, <2>2
<1>11. Stands(b, 5, 2, store)
  <2>1. Stands(b, at[3], f[3].size, args[f[3].name])
    BY <1>8
  <2>2. f[3].size = 2 /\ args[f[3].name] = store
    BY <1>4, <1>5
  <2> QED
    BY <1>4, <2>1, <2>2
<1>12. Stands(b, 7, 2, full)
  <2>1. Stands(b, at[4], f[4].size, args[f[4].name])
    BY <1>8
  <2>2. f[4].size = 2 /\ args[f[4].name] = full
    BY <1>4, <1>5
  <2> QED
    BY <1>4, <2>1, <2>2
<1>13. Stands(b, 9, 1, days)
  <2>1. Stands(b, at[5], f[5].size, args[f[5].name])
    BY <1>8
  <2>2. f[5].size = 1 /\ args[f[5].name] = days
    BY <1>4, <1>5
  <2> QED
    BY <1>4, <2>1, <2>2
<1> QED
  BY <1>8, <1>9, <1>10, <1>11, <1>12, <1>13, Zenon DEF BattgoHolds

\* The limits, as they are set.
LimitsLayout == <<U16("min_input_mv"), U32("max_input_mw")>>

LEMMA LimitsPlaces ==
  ASSUME NEW f, f = LimitsLayout, NEW at, at = <<0, 2>>
  PROVE  /\ Len(f) = 2 /\ DOMAIN f = 1 .. 2
         /\ f[1] = [name |-> "min_input_mv", size |-> 2]
         /\ f[2] = [name |-> "max_input_mw", size |-> 4]
         /\ at[1] = 0 /\ at[2] = 2
         /\ Places(f, at, 6)
<1>1. /\ Len(f) = 2 /\ DOMAIN f = 1 .. 2
      /\ f[1] = [name |-> "min_input_mv", size |-> 2]
      /\ f[2] = [name |-> "max_input_mw", size |-> 4]
      /\ at[1] = 0 /\ at[2] = 2
  BY DEF LimitsLayout, U8, U16, U32, Field
<1>2. Listed(f)
  BY <1>1 DEF Listed
<1>3. \A i \in 1 .. 1 : at[i + 1] = at[i] + f[i].size
  BY <1>1
<1>4. 6 = at[2] + f[2].size
  BY <1>1
<1>5. 1 <= Len(f) /\ Len(f) - 1 = 1
  BY <1>1
<1>6. PICK n : n = at[Len(f)] + f[Len(f)].size
  OBVIOUS
<1>7. n = 6
  BY <1>1, <1>4, <1>6
<1>8. \A i \in 1 .. Len(f) - 1 : at[i + 1] = at[i] + f[i].size
  BY <1>3, <1>5
<1>9. at[1] = 0 /\ 1 <= Len(f)
  BY <1>1, <1>5
<1>10. Places(f, at, n)
  BY <1>2, <1>6, <1>8, <1>9, PlacesAre
<1> QED
  BY <1>1, <1>7, <1>10

\* Where the limits are in their packet.
LimitsArgs(volt, watt) == [min_input_mv |-> volt, max_input_mw |-> watt]

LimitsHolds(b, volt, watt) ==
  /\ b \in Seq(Byte) /\ Len(b) = 6
  /\ Stands(b, 0, 2, volt) /\ Stands(b, 2, 4, watt)

LEMMA LimitsHeld ==
  ASSUME NEW volt \in Nat, NEW watt \in Nat,
         FitsIn(volt, 2), FitsIn(watt, 4),
         NEW b, b = Tail(Data("SetLimitParameters", LimitsArgs(volt, watt)))
  PROVE  LimitsHolds(b, volt, watt)
<1>1. PICK k : k = "SetLimitParameters" /\ k \in RequestKinds \ {"Raw"}
  BY DEF RequestKinds, CommandWord
<1>2. PICK f : f = Arguments(k) /\ f = LimitsLayout
  BY <1>1 DEF Arguments, PerChannel, LimitsLayout
<1>3. PICK at : at = <<0, 2>>
  OBVIOUS
<1>4. /\ Len(f) = 2 /\ DOMAIN f = 1 .. 2
      /\ f[1] = [name |-> "min_input_mv", size |-> 2]
      /\ f[2] = [name |-> "max_input_mw", size |-> 4]
      /\ at[1] = 0 /\ at[2] = 2
      /\ Places(f, at, 6)
  BY <1>2, <1>3, LimitsPlaces
<1>0. PICK args : args = LimitsArgs(volt, watt)
  OBVIOUS
<1>5. /\ args["min_input_mv"] = volt /\ args["max_input_mw"] = watt
      /\ DOMAIN args = {"min_input_mv", "max_input_mw"}
  BY <1>0 DEF LimitsArgs
<1>6. Numbered(f, args)
  BY <1>4, <1>5 DEF Numbered
<1>7. b = Tail(Data(k, args))
  BY <1>0, <1>1, Zenon
<1>8. /\ b \in Seq(Byte) /\ Len(b) = 6
      /\ \A i \in 1 .. 2 : Stands(b, at[i], f[i].size, args[f[i].name])
  <2>1. f = Arguments(k) /\ Places(f, at, 6)
    BY <1>2, <1>4
  <2>2. Holds(b, args, f, at, 6)
    BY <1>1, <1>6, <1>7, <2>1, PacketHolds
  <2> QED
    BY <1>4, <2>2 DEF Holds
<1>9. Stands(b, 0, 2, volt)
  <2>1. Stands(b, at[1], f[1].size, args[f[1].name])
    BY <1>8
  <2>2. f[1].size = 2 /\ args[f[1].name] = volt
    BY <1>4, <1>5
  <2> QED
    BY <1>4, <2>1, <2>2
<1>10. Stands(b, 2, 4, watt)
  <2>1. Stands(b, at[2], f[2].size, args[f[2].name])
    BY <1>8
  <2>2. f[2].size = 4 /\ args[f[2].name] = watt
    BY <1>4, <1>5
  <2> QED
    BY <1>4, <2>1, <2>2
<1> QED
  BY <1>8, <1>9, <1>10, Zenon DEF LimitsHolds

\* The fields of a task, as they are set.
TaskLayout ==
  <<U8("channel"), U8("task"), U8("battery"), U8("link"), U32("current_ma"), U8("cells"),
    U16("volt_mv")>>

LEMMA TaskPlaces ==
  ASSUME NEW f, f = TaskLayout, NEW at, at = <<0, 1, 2, 3, 4, 8, 9>>
  PROVE  /\ Len(f) = 7 /\ DOMAIN f = 1 .. 7
         /\ f[1] = [name |-> "channel", size |-> 1] /\ f[2] = [name |-> "task", size |-> 1]
         /\ f[3] = [name |-> "battery", size |-> 1] /\ f[4] = [name |-> "link", size |-> 1]
         /\ f[5] = [name |-> "current_ma", size |-> 4] /\ f[6] = [name |-> "cells", size |-> 1]
         /\ f[7] = [name |-> "volt_mv", size |-> 2]
         /\ at[1] = 0 /\ at[2] = 1 /\ at[3] = 2 /\ at[4] = 3 /\ at[5] = 4 /\ at[6] = 8 /\ at[7] = 9
         /\ Places(f, at, 11)
<1>1. /\ Len(f) = 7 /\ DOMAIN f = 1 .. 7
      /\ f[1] = [name |-> "channel", size |-> 1] /\ f[2] = [name |-> "task", size |-> 1]
      /\ f[3] = [name |-> "battery", size |-> 1] /\ f[4] = [name |-> "link", size |-> 1]
      /\ f[5] = [name |-> "current_ma", size |-> 4] /\ f[6] = [name |-> "cells", size |-> 1]
      /\ f[7] = [name |-> "volt_mv", size |-> 2]
      /\ at[1] = 0 /\ at[2] = 1 /\ at[3] = 2 /\ at[4] = 3 /\ at[5] = 4 /\ at[6] = 8 /\ at[7] = 9
  BY DEF TaskLayout, U8, U16, U32, Field
<1>2. Listed(f)
  BY <1>1 DEF Listed
<1>3. \A i \in 1 .. 6 : at[i + 1] = at[i] + f[i].size
  BY <1>1
<1>4. 11 = at[7] + f[7].size
  BY <1>1
<1>5. 1 <= Len(f) /\ Len(f) - 1 = 6
  BY <1>1
<1>6. PICK n : n = at[Len(f)] + f[Len(f)].size
  OBVIOUS
<1>7. n = 11
  BY <1>1, <1>4, <1>6
<1>8. \A i \in 1 .. Len(f) - 1 : at[i + 1] = at[i] + f[i].size
  BY <1>3, <1>5
<1>9. at[1] = 0 /\ 1 <= Len(f)
  BY <1>1, <1>5
<1>10. Places(f, at, n)
  BY <1>2, <1>6, <1>8, <1>9, PlacesAre
<1> QED
  BY <1>1, <1>7, <1>10

\* Where a task is in its packet.
TaskHolds(b, channel, task, c, l, current, cells, volt) ==
  /\ b \in Seq(Byte) /\ Len(b) = 11
  /\ Stands(b, 0, 1, channel) /\ Stands(b, 1, 1, task) /\ Stands(b, 2, 1, c)
  /\ Stands(b, 3, 1, l) /\ Stands(b, 4, 4, current) /\ Stands(b, 8, 1, cells)
  /\ Stands(b, 9, 2, volt)

LEMMA TaskHeld ==
  ASSUME NEW channel \in Nat, NEW task \in Nat, NEW c \in Nat, NEW l \in Nat,
         NEW current \in Nat, NEW cells \in Nat, NEW volt \in Nat,
         FitsIn(channel, 1), FitsIn(task, 1), FitsIn(c, 1), FitsIn(l, 1), FitsIn(current, 4),
         FitsIn(cells, 1), FitsIn(volt, 2),
         NEW b, b = Tail(Data("SetTask", TaskArgs(channel, task, c, l, current, cells, volt)))
  PROVE  TaskHolds(b, channel, task, c, l, current, cells, volt)
<1>1. PICK k : k = "SetTask" /\ k \in RequestKinds \ {"Raw"}
  BY DEF RequestKinds, CommandWord
<1>2. PICK f : f = Arguments(k) /\ f = TaskLayout
  BY <1>1 DEF Arguments, PerChannel, TaskLayout
<1>3. PICK at : at = <<0, 1, 2, 3, 4, 8, 9>>
  OBVIOUS
<1>4. /\ Len(f) = 7 /\ DOMAIN f = 1 .. 7
      /\ f[1] = [name |-> "channel", size |-> 1] /\ f[2] = [name |-> "task", size |-> 1]
      /\ f[3] = [name |-> "battery", size |-> 1] /\ f[4] = [name |-> "link", size |-> 1]
      /\ f[5] = [name |-> "current_ma", size |-> 4] /\ f[6] = [name |-> "cells", size |-> 1]
      /\ f[7] = [name |-> "volt_mv", size |-> 2]
      /\ at[1] = 0 /\ at[2] = 1 /\ at[3] = 2 /\ at[4] = 3 /\ at[5] = 4 /\ at[6] = 8 /\ at[7] = 9
      /\ Places(f, at, 11)
  BY <1>2, <1>3, TaskPlaces
<1>0. PICK args : args = TaskArgs(channel, task, c, l, current, cells, volt)
  OBVIOUS
<1>5. /\ args["channel"] = channel /\ args["task"] = task /\ args["battery"] = c
      /\ args["link"] = l /\ args["current_ma"] = current /\ args["cells"] = cells
      /\ args["volt_mv"] = volt
      /\ DOMAIN args = {"channel", "task", "battery", "link", "current_ma", "cells", "volt_mv"}
  BY <1>0 DEF TaskArgs
<1>6. Numbered(f, args)
  <2> DEFINE Q(i) == /\ f[i].size \in {1, 2, 4} /\ f[i].name \in DOMAIN args
                     /\ args[f[i].name] \in Nat
  <2>1. Q(1) /\ Q(2) /\ Q(3) /\ Q(4)
    BY <1>4, <1>5
  <2>2. Q(5) /\ Q(6) /\ Q(7)
    BY <1>4, <1>5
  <2>3. Len(f) = 7
    BY <1>4
  <2> HIDE DEF Q
  <2>4. \A i \in 1 .. 7 : Q(i)
    BY <2>1, <2>2
  <2> QED
    BY <2>3, <2>4 DEF Numbered, Q
<1>7. b = Tail(Data(k, args))
  BY <1>0, <1>1, Zenon
<1>8. /\ b \in Seq(Byte) /\ Len(b) = 11
      /\ \A i \in 1 .. 7 : Stands(b, at[i], f[i].size, args[f[i].name])
  <2>1. f = Arguments(k) /\ Places(f, at, 11)
    BY <1>2, <1>4
  <2>2. Holds(b, args, f, at, 11)
    BY <1>1, <1>6, <1>7, <2>1, PacketHolds
  <2> QED
    BY <1>4, <2>2 DEF Holds
<1>9. Stands(b, 0, 1, channel)
  <2>1. Stands(b, at[1], f[1].size, args[f[1].name])
    BY <1>8
  <2>2. f[1].size = 1 /\ args[f[1].name] = channel
    BY <1>4, <1>5
  <2> QED
    BY <1>4, <2>1, <2>2
<1>10. Stands(b, 1, 1, task)
  <2>1. Stands(b, at[2], f[2].size, args[f[2].name])
    BY <1>8
  <2>2. f[2].size = 1 /\ args[f[2].name] = task
    BY <1>4, <1>5
  <2> QED
    BY <1>4, <2>1, <2>2
<1>11. Stands(b, 2, 1, c)
  <2>1. Stands(b, at[3], f[3].size, args[f[3].name])
    BY <1>8
  <2>2. f[3].size = 1 /\ args[f[3].name] = c
    BY <1>4, <1>5
  <2> QED
    BY <1>4, <2>1, <2>2
<1>12. Stands(b, 3, 1, l)
  <2>1. Stands(b, at[4], f[4].size, args[f[4].name])
    BY <1>8
  <2>2. f[4].size = 1 /\ args[f[4].name] = l
    BY <1>4, <1>5
  <2> QED
    BY <1>4, <2>1, <2>2
<1>13. Stands(b, 4, 4, current)
  <2>1. Stands(b, at[5], f[5].size, args[f[5].name])
    BY <1>8
  <2>2. f[5].size = 4 /\ args[f[5].name] = current
    BY <1>4, <1>5
  <2> QED
    BY <1>4, <2>1, <2>2
<1>14. Stands(b, 8, 1, cells)
  <2>1. Stands(b, at[6], f[6].size, args[f[6].name])
    BY <1>8
  <2>2. f[6].size = 1 /\ args[f[6].name] = cells
    BY <1>4, <1>5
  <2> QED
    BY <1>4, <2>1, <2>2
<1>15. Stands(b, 9, 2, volt)
  <2>1. Stands(b, at[7], f[7].size, args[f[7].name])
    BY <1>8
  <2>2. f[7].size = 2 /\ args[f[7].name] = volt
    BY <1>4, <1>5
  <2> QED
    BY <1>4, <2>1, <2>2
<1> QED
  BY <1>8, <1>9, <1>10, <1>11, <1>12, <1>13, <1>14, <1>15, Zenon DEF TaskHolds

\* The reply r was parsed from body, whose fields F begin at the places at.
Shows(r, body, F, O, at) ==
  /\ r.known /\ Listed(O)
  /\ \E T \in Nat : Total(F, T) /\ ParsedAs(r, body, F, O, T)
  /\ \E n \in Nat : Places(F, at, n)

\* The i-th field is the only one of its name.
Alone(F, O, i, name) ==
  /\ i \in 1 .. Len(F) /\ F[i].name = name
  /\ \A j \in 1 .. Len(F) : F[j].name = name => j = i
  /\ \A j \in 1 .. Len(O) : O[j].name # name

LEMMA ShownValue ==
  ASSUME NEW r, NEW body, NEW F, NEW O, NEW at, Shows(r, body, F, O, at),
         NEW i, NEW name, Alone(F, O, i, name)
  PROVE  Value(r, name) = Got(F[i], SubSeq(body, at[i] + 1, at[i] + F[i].size))
<1>1. PICK T \in Nat : Total(F, T) /\ ParsedAs(r, body, F, O, T)
  BY DEF Shows
<1>3. PICK n \in Nat : Places(F, at, n)
  BY DEF Shows
<1>2. /\ i \in 1 .. Len(F) /\ F[i].name = name
      /\ \A j \in 1 .. Len(F) : F[j].name = name => j = i
      /\ \A j \in 1 .. Len(O) : O[j].name # name
      /\ Listed(O) /\ r.known
  BY DEF Alone, Shows
<1> QED
  BY <1>1, <1>2, <1>3, NamedValue

\* A field that repeats the bytes of m behind the first c shows their number.
LEMMA NumberShown ==
  ASSUME NEW r, NEW body, NEW F, NEW O, NEW at, Shows(r, body, F, O, at),
         NEW i, NEW name, Alone(F, O, i, name), NEW n \in {1, 2, 4}, F[i].size = n,
         NEW a \in Nat, at[i] = a, NEW m, NEW c \in Nat,
         \A j \in 1 .. n : body[a + j] = m[c + j]
  PROVE  Value(r, name) = FromLE(SubSeq(m, c + 1, c + n))
<1>1. Value(r, name) = Got(F[i], SubSeq(body, a + 1, a + n))
  BY ShownValue
<1>2. SubSeq(body, a + 1, a + n) = SubSeq(m, c + 1, c + n)
  BY SameCut
<1>3. ~(F[i].size > 4)
  OBVIOUS
<1> QED
  BY <1>1, <1>2, <1>3, Zenon DEF Got

\* A field of one byte shows that byte.
LEMMA ByteShown ==
  ASSUME NEW r, NEW body, NEW F, NEW O, NEW at, Shows(r, body, F, O, at),
         NEW i, NEW name, Alone(F, O, i, name), F[i].size = 1,
         NEW a \in Nat, at[i] = a, NEW x \in Byte, body[a + 1] = x
  PROVE  Value(r, name) = x
<1> DEFINE m == <<x>>
<1>1. m \in Seq(Byte) /\ Len(m) = 1 /\ m[1] = x
  OBVIOUS
<1> HIDE DEF m
<1>2. PICK n \in {1, 2, 4}, c \in Nat : n = 1 /\ c = 0
  OBVIOUS
<1>3. F[i].size = n /\ \A j \in 1 .. n : body[a + j] = m[c + j]
  BY <1>1, <1>2
<1>4. Value(r, name) = FromLE(SubSeq(m, c + 1, c + n))
  BY <1>3, NumberShown
<1>5. SubSeq(m, c + 1, c + n) = m
  BY <1>1, <1>2
<1> QED
  BY <1>1, <1>4, <1>5, FromLEOfOne

\* The fields of the work state.
WorkLayout ==
  <<U8("channel"), U8("state"), U8("percent"), U32("done_mah"), U32("done_mwh"),
    U32("period_ms"), U8("battery"), U8("cells"), U8("link"), U16("volt_mv"),
    U32("current_ma"), U16("total"), U16("done"), U16("min_input_mv"), U32("max_output_mw")>>

LEMMA WorkPlaces ==
  ASSUME NEW f, f = WorkLayout,
         NEW at, at = <<0, 1, 2, 3, 7, 11, 15, 16, 17, 18, 20, 24, 26, 28, 30>>
  PROVE  /\ Len(f) = 15 /\ Places(f, at, 34)
         /\ f[2].size = 1 /\ f[7].size = 1 /\ f[8].size = 1 /\ f[9].size = 1 /\ f[10].size = 2
         /\ f[11].size = 4 /\ f[14].size = 2
         /\ at[2] = 1 /\ at[7] = 15 /\ at[8] = 16 /\ at[9] = 17 /\ at[10] = 18 /\ at[11] = 20
         /\ at[14] = 28
<1>1. /\ Len(f) = 15 /\ DOMAIN f = 1 .. 15 /\ f[1].size = 1 /\ f[2].size = 1
      /\ f[3].size = 1 /\ f[4].size = 4 /\ f[5].size = 4 /\ f[6].size = 4 /\ f[7].size = 1
      /\ f[8].size = 1 /\ f[9].size = 1 /\ f[10].size = 2 /\ f[11].size = 4
      /\ f[12].size = 2 /\ f[13].size = 2 /\ f[14].size = 2 /\ f[15].size = 4
  BY DEF WorkLayout, U8, U16, U32, Field
<1>2. /\ at[1] = 0 /\ at[2] = 1 /\ at[3] = 2 /\ at[4] = 3 /\ at[5] = 7 /\ at[6] = 11
      /\ at[7] = 15 /\ at[8] = 16 /\ at[9] = 17 /\ at[10] = 18 /\ at[11] = 20 /\ at[12] = 24
      /\ at[13] = 26 /\ at[14] = 28 /\ at[15] = 30
  OBVIOUS
<1>3. Listed(f)
  BY <1>1 DEF Listed
<1>4. \A i \in 1 .. 14 : at[i + 1] = at[i] + f[i].size
  <2> DEFINE Q(i) == at[i + 1] = at[i] + f[i].size
  <2>1. Q(1) /\ Q(2) /\ Q(3) /\ Q(4) /\ Q(5) /\ Q(6) /\ Q(7)
    BY <1>1, <1>2
  <2>2. Q(8) /\ Q(9) /\ Q(10) /\ Q(11) /\ Q(12) /\ Q(13) /\ Q(14)
    BY <1>1, <1>2
  <2> HIDE DEF Q
  <2>3. \A i \in 1 .. 14 : Q(i)
    BY <2>1, <2>2
  <2> QED
    BY <2>3 DEF Q
<1>5. 34 = at[15] + f[15].size
  BY <1>1, <1>2
<1>6. PICK n : n = at[Len(f)] + f[Len(f)].size
  OBVIOUS
<1>7. n = 34
  BY <1>1, <1>5, <1>6
<1>8. \A i \in 1 .. Len(f) - 1 : at[i + 1] = at[i] + f[i].size
  BY <1>1, <1>4
<1>9. at[1] = 0 /\ 1 <= Len(f)
  BY <1>1, <1>2
<1>10. Places(f, at, n)
  BY <1>3, <1>6, <1>8, <1>9, PlacesAre
<1> QED
  BY <1>1, <1>2, <1>7, <1>10

LEMMA WorkNames ==
  ASSUME NEW f, f = WorkLayout, NEW O, O = <<U16("errors")>>
  PROVE  /\ Alone(f, O, 2, "state") /\ Alone(f, O, 7, "battery") /\ Alone(f, O, 8, "cells")
         /\ Alone(f, O, 9, "link") /\ Alone(f, O, 10, "volt_mv")
         /\ Alone(f, O, 11, "current_ma") /\ Alone(f, O, 14, "min_input_mv")
<1>1. Len(f) = 15 /\ Len(O) = 1 /\ O[1].name = "errors"
  BY DEF WorkLayout, U16, Field
<1>2. /\ f[1].name = "channel" /\ f[2].name = "state"
      /\ f[3].name = "percent" /\ f[4].name = "done_mah" /\ f[5].name = "done_mwh"
      /\ f[6].name = "period_ms" /\ f[7].name = "battery" /\ f[8].name = "cells"
      /\ f[9].name = "link" /\ f[10].name = "volt_mv" /\ f[11].name = "current_ma"
      /\ f[12].name = "total" /\ f[13].name = "done" /\ f[14].name = "min_input_mv"
      /\ f[15].name = "max_output_mw"
  BY DEF WorkLayout, U8, U16, U32, Field
<1>3. PICK o : o = O /\ Len(o) = 1 /\ o[1].name = "errors"
  BY <1>1
<1>4. PICK g : g = f
  OBVIOUS
<1>5. /\ g[1].name = "channel" /\ g[2].name = "state"
      /\ g[3].name = "percent" /\ g[4].name = "done_mah" /\ g[5].name = "done_mwh"
      /\ g[6].name = "period_ms" /\ g[7].name = "battery" /\ g[8].name = "cells"
      /\ g[9].name = "link" /\ g[10].name = "volt_mv" /\ g[11].name = "current_ma"
      /\ g[12].name = "total" /\ g[13].name = "done" /\ g[14].name = "min_input_mv"
      /\ g[15].name = "max_output_mw" /\ Len(g) = 15
  BY <1>1, <1>2, <1>4
<1>6. \A j \in 1 .. 15 :
        \/ j = 1 \/ j = 2 \/ j = 3 \/ j = 4 \/ j = 5 \/ j = 6 \/ j = 7 \/ j = 8 \/ j = 9
        \/ j = 10 \/ j = 11 \/ j = 12 \/ j = 13 \/ j = 14 \/ j = 15
  OBVIOUS
<1>7. /\ \A j \in 1 .. 15 : g[j].name = "state" => j = 2
      /\ \A j \in 1 .. 15 : g[j].name = "battery" => j = 7
      /\ \A j \in 1 .. 15 : g[j].name = "cells" => j = 8
  BY <1>5, <1>6, Zenon
<1>8. /\ \A j \in 1 .. 15 : g[j].name = "link" => j = 9
      /\ \A j \in 1 .. 15 : g[j].name = "volt_mv" => j = 10
      /\ \A j \in 1 .. 15 : g[j].name = "current_ma" => j = 11
      /\ \A j \in 1 .. 15 : g[j].name = "min_input_mv" => j = 14
  BY <1>5, <1>6, Zenon
<1>9. \A j \in 1 .. Len(o) : o[j].name = "errors"
  BY <1>3
<1>10. 2 \in 1 .. 15 /\ 7 \in 1 .. 15 /\ 8 \in 1 .. 15 /\ 9 \in 1 .. 15 /\ 10 \in 1 .. 15
       /\ 11 \in 1 .. 15 /\ 14 \in 1 .. 15
  OBVIOUS
<1>11. /\ Alone(g, o, 2, "state") /\ Alone(g, o, 7, "battery") /\ Alone(g, o, 8, "cells")
       /\ Alone(g, o, 9, "link")
  BY <1>5, <1>7, <1>8, <1>9, <1>10, Zenon DEF Alone
<1>12. /\ Alone(g, o, 10, "volt_mv")
       /\ Alone(g, o, 11, "current_ma") /\ Alone(g, o, 14, "min_input_mv")
  BY <1>5, <1>7, <1>8, <1>9, <1>10, Zenon DEF Alone
<1> QED
  BY <1>3, <1>4, <1>11, <1>12

LEMMA ProfileNames ==
  ASSUME NEW f, f = ProfileLayout
  PROVE  /\ Alone(f, <<>>, 1, "enabled") /\ Alone(f, <<>>, 2, "battery")
         /\ Alone(f, <<>>, 3, "cells") /\ Alone(f, <<>>, 4, "volt_mv")
         /\ Alone(f, <<>>, 5, "current_ma")
<1>1. /\ Len(f) = 5 /\ f[1].name = "enabled" /\ f[2].name = "battery" /\ f[3].name = "cells"
      /\ f[4].name = "volt_mv" /\ f[5].name = "current_ma"
  BY DEF ProfileLayout, U8, U16, U32, Field
<1> QED
  BY <1>1 DEF Alone

LEMMA BattgoNames ==
  ASSUME NEW f, f = BattgoLayout
  PROVE  /\ Alone(f, <<>>, 1, "channel") /\ Alone(f, <<>>, 2, "current_ma")
         /\ Alone(f, <<>>, 3, "store_mv") /\ Alone(f, <<>>, 4, "volt_mv")
         /\ Alone(f, <<>>, 5, "days")
<1>1. /\ Len(f) = 5 /\ f[1].name = "channel" /\ f[2].name = "current_ma"
      /\ f[3].name = "store_mv" /\ f[4].name = "volt_mv" /\ f[5].name = "days"
  BY DEF BattgoLayout, U8, U16, U32, Field
<1> QED
  BY <1>1 DEF Alone

\* The layouts that the replies which give settings back are read by.
LEMMA SettingsWords ==
  /\ CommandWord["WorkState"] + 1 = \hE7 /\ CommandWord["OneKeyLaunch"] + 1 = \hD5
  /\ CommandWord["BattgoReadParameters"] + 1 = \h49
  BY DEF CommandWord

LEMMA SettingsFields ==
  ASSUME NEW word, NEW body
  PROVE  /\ word = \hE7 =>
              Fields(word, body) = WorkLayout /\ OptionalFields(word) = <<U16("errors")>>
         /\ word = \hD5 => Fields(word, body) = ProfileLayout /\ OptionalFields(word) = <<>>
         /\ word = \h49 => Fields(word, body) = BattgoLayout /\ OptionalFields(word) = <<>>
<1>1. CASE word = \hE7
  <2>1. Fields(word, body) = WorkLayout
    BY <1>1 DEF Fields, FixedWords, LiveLayout, WorkLayout
  <2>2. OptionalFields(word) = <<U16("errors")>>
    BY <1>1 DEF OptionalFields
  <2> QED
    BY <1>1, <2>1, <2>2
<1>2. CASE word = \hD5
  <2>1. Fields(word, body) = ProfileLayout
    BY <1>2 DEF Fields, FixedWords, LiveLayout, ProfileLayout
  <2>2. OptionalFields(word) = <<>>
    BY <1>2 DEF OptionalFields
  <2> QED
    BY <1>2, <2>1, <2>2
<1>3. CASE word = \h49
  <2>1. Fields(word, body) = BattgoLayout
    BY <1>3 DEF Fields, FixedWords, FixedLayout, BattgoLayout
  <2>2. OptionalFields(word) = <<>>
    BY <1>3 DEF OptionalFields
  <2> QED
    BY <1>3, <2>1, <2>2
<1>4. CASE word \notin {\hE7, \hD5, \h49}
  BY <1>4
<1> QED
  BY <1>1, <1>2, <1>3, <1>4

-----------------------------------------------------------------------------
(* What the charger remembers is what was meant                            *)

\* The bytes b are what the program meant by t; of a stop, only that it is one.
TaskMeant(t, b) ==
  /\ b \in Seq(Byte) /\ Len(b) = 11
  /\ t = NothingTold => b[3] = 9 /\ b[2] # 3
  /\ t # NothingTold => b[2] \in 0 .. 3 /\ (b[2] = 3 <=> t.by = "stop")
  /\ (t # NothingTold /\ t.by # "stop") =>
       /\ FromCode(BatteryKinds, b[3]) = t.battery /\ FromCode(LinkTypes, b[4]) = t.link
       /\ FromLE(SubSeq(b, 5, 8)) = t.current_ma /\ b[9] = t.cells
       /\ FromLE(SubSeq(b, 10, 11)) = t.volt_mv

\* The volts of a cutoff, as the packet carries them.
Millivolts(volt) == (volt * 1000) % 65536

LimitsMeant(t, b) ==
  /\ b \in Seq(Byte) /\ Len(b) = 6
  /\ t # NothingTold => t.volt \in Nat /\ FromLE(SubSeq(b, 1, 2)) = Millivolts(t.volt)

ProfileMeant(t, b) ==
  /\ b \in Seq(Byte) /\ Len(b) = 9
  /\ t # NothingTold =>
       t.profile = Profile(b[1] # 0, FromCode(BatteryKinds, b[2]), b[3],
                           FromLE(SubSeq(b, 4, 5)), FromLE(SubSeq(b, 6, 9)))

BattgoMeant(t, b) ==
  /\ b \in Seq(Byte) /\ Len(b) = 10
  /\ t # NothingTold =>
       /\ t.args["channel"] = b[1] /\ t.args["current_ma"] = FromLE(SubSeq(b, 2, 5))
       /\ t.args["store_mv"] = FromLE(SubSeq(b, 6, 7))
       /\ t.args["volt_mv"] = FromLE(SubSeq(b, 8, 9)) /\ t.args["days"] = b[10]

Meant(k, t, b) ==
  /\ k = "SetTask" => TaskMeant(t, b)
  /\ k = "SetLimitParameters" => LimitsMeant(t, b)
  /\ k = "SetOneKeyLaunch" => ProfileMeant(t, b)
  /\ k = "BattgoWriteParameters" => BattgoMeant(t, b)

LEMMA Fits ==
  ASSUME NEW v \in Nat
  PROVE  /\ v < 256 => FitsIn(v, 1)
         /\ v < 65536 => FitsIn(v, 2)
         /\ v \div 65536 < 65536 => FitsIn(v, 4)
  BY DEF FitsIn

LEMMA LinkBack ==
  FromCode(LinkTypes, 1) = Named("SerialOnly") /\ FromCode(LinkTypes, 3) = Named("Both")
  BY DEF FromCode, LinkTypes

\* The bytes b carry these numbers of a task.
CarriesTask(b, task, battery, link, current, cells, volt) ==
  /\ b \in Seq(Byte) /\ Len(b) = 11
  /\ b[2] = task /\ b[3] = battery /\ b[4] = link /\ b[9] = cells
  /\ FromLE(SubSeq(b, 5, 8)) = current /\ FromLE(SubSeq(b, 10, 11)) = volt

LEMMA TaskCarried ==
  ASSUME NEW task \in Nat, task < 256, NEW battery \in Nat, battery < 256,
         NEW link \in Nat, link < 256, NEW current \in Nat, FitsIn(current, 4),
         NEW cells \in Nat, cells < 256, NEW volt \in Nat, FitsIn(volt, 2),
         NEW b, b = Tail(Data("SetTask", TaskArgs(0, task, battery, link, current, cells, volt)))
  PROVE  CarriesTask(b, task, battery, link, current, cells, volt)
<1>1. PICK z \in Nat : z = 0 /\ z < 256
  OBVIOUS
<1>2. /\ FitsIn(z, 1) /\ FitsIn(task, 1) /\ FitsIn(battery, 1) /\ FitsIn(link, 1)
      /\ FitsIn(cells, 1)
  BY <1>1, Fits
<1>7. TaskHolds(b, z, task, battery, link, current, cells, volt)
  <2>1. b = Tail(Data("SetTask", TaskArgs(z, task, battery, link, current, cells, volt)))
    BY <1>1, Zenon
  <2> QED
    BY <1>2, <2>1, TaskHeld, Zenon
<1>3. /\ b \in Seq(Byte) /\ Len(b) = 11
      /\ Stands(b, 1, 1, task) /\ Stands(b, 2, 1, battery)
      /\ Stands(b, 3, 1, link) /\ Stands(b, 4, 4, current) /\ Stands(b, 8, 1, cells)
      /\ Stands(b, 9, 2, volt)
  BY <1>7, Zenon DEF TaskHolds
<1>4. b[2] = task /\ b[3] = battery /\ b[4] = link /\ b[9] = cells
  <2>1. b[1 + 1] = task
    BY <1>3, ByteHeld
  <2>2. b[2 + 1] = battery
    BY <1>3, ByteHeld
  <2>3. b[3 + 1] = link
    BY <1>3, ByteHeld
  <2>4. b[8 + 1] = cells
    BY <1>3, ByteHeld
  <2>5. 1 + 1 = 2 /\ 2 + 1 = 3 /\ 3 + 1 = 4 /\ 8 + 1 = 9
    OBVIOUS
  <2> QED
    BY <2>1, <2>2, <2>3, <2>4, <2>5, Zenon
<1>5. FromLE(SubSeq(b, 5, 8)) = current
  <2>1. FromLE(SubSeq(b, 4 + 1, 4 + 4)) = current
    BY <1>3, NumberRead
  <2> QED
    BY <2>1
<1>6. FromLE(SubSeq(b, 10, 11)) = volt
  <2>1. FromLE(SubSeq(b, 9 + 1, 9 + 2)) = volt
    BY <1>3, NumberRead
  <2> QED
    BY <2>1
<1> QED
  BY <1>3, <1>4, <1>5, <1>6 DEF CarriesTask

\* The words t for such a task.
TaskWords(t, task, battery, link, current, cells, volt) ==
  /\ t.by # "nobody" /\ (t.by = "stop" <=> task = "Stop") /\ t.battery = battery
  /\ t.link = Named(link) /\ t.current_ma = current /\ t.cells = cells /\ t.volt_mv = volt

LEMMA TaskMeans ==
  ASSUME NEW task \in {"Charge", "Storage", "Discharge", "Stop"}, NEW battery \in Batteries,
         NEW link \in {"SerialOnly", "Both"}, NEW current \in Nat, FitsIn(current, 4),
         NEW cells \in Nat, cells < 256, NEW volt \in Nat, FitsIn(volt, 2),
         NEW t, TaskWords(t, task, battery, link, current, cells, volt),
         NEW b, b = Tail(Data("SetTask",
                      TaskArgs(0, Code(TaskTypes, Named(task)), Code(BatteryKinds, battery),
                               Code(LinkTypes, Named(link)), current, cells, volt)))
  PROVE  TaskMeant(t, b)
<1>1. PICK tcode \in Nat : /\ tcode = Code(TaskTypes, Named(task)) /\ tcode \in 0 .. 3
                           /\ tcode = 3 <=> task = "Stop"
  BY TaskTable
<1>2. PICK bcode \in Nat : /\ bcode = Code(BatteryKinds, battery) /\ bcode < 7
                           /\ FromCode(BatteryKinds, bcode) = battery
  BY BatteryCode
<1>3. PICK lcode \in Nat : /\ lcode = Code(LinkTypes, Named(link)) /\ lcode < 4
                           /\ FromCode(LinkTypes, lcode) = Named(link)
  BY LinkTable, LinkBack
<1>4. tcode < 256 /\ bcode < 256 /\ lcode < 256
  BY <1>1, <1>2, <1>3
<1>5. CarriesTask(b, tcode, bcode, lcode, current, cells, volt)
  BY <1>1, <1>2, <1>3, <1>4, TaskCarried, Zenon
<1>6. t # NothingTold
  BY DEF NothingTold, TaskWords
<1> QED
  BY <1>1, <1>2, <1>3, <1>5, <1>6, Zenon DEF TaskMeant, CarriesTask, TaskWords

CarriesLimits(b, volt) ==
  b \in Seq(Byte) /\ Len(b) = 6 /\ FromLE(SubSeq(b, 1, 2)) = volt

LEMMA LimitsCarried ==
  ASSUME NEW v \in Nat, FitsIn(v, 2), NEW w \in Nat, FitsIn(w, 4),
         NEW b, b = Tail(Data("SetLimitParameters", LimitsArgs(v, w)))
  PROVE  CarriesLimits(b, v)
<1>3. LimitsHolds(b, v, w)
  BY LimitsHeld, Zenon
<1>1. b \in Seq(Byte) /\ Len(b) = 6 /\ Stands(b, 0, 2, v)
  BY <1>3, Zenon DEF LimitsHolds
<1>2. FromLE(SubSeq(b, 0 + 1, 0 + 2)) = v
  BY <1>1, NumberRead
<1> QED
  BY <1>1, <1>2 DEF CarriesLimits

LEMMA LimitsMean ==
  ASSUME NEW volt \in Nat, NEW w \in Nat, FitsIn(w, 4), NEW t, t.volt = volt,
         NEW b, b = Tail(Data("SetLimitParameters", LimitsArgs(Millivolts(volt), w)))
  PROVE  LimitsMeant(t, b)
<1>1. PICK v \in Nat : v = Millivolts(volt) /\ FitsIn(v, 2)
  BY SMT DEF FitsIn, Millivolts
<1>2. b = Tail(Data("SetLimitParameters", LimitsArgs(v, w)))
  BY <1>1, Zenon
<1>3. CarriesLimits(b, v)
  BY <1>1, <1>2, LimitsCarried, Zenon
<1> QED
  BY <1>1, <1>3, Zenon DEF LimitsMeant, CarriesLimits

CarriesProfile(b, e, c, cells, volt, current) ==
  /\ b \in Seq(Byte) /\ Len(b) = 9 /\ b[1] = e /\ b[2] = c /\ b[3] = cells
  /\ FromLE(SubSeq(b, 4, 5)) = volt /\ FromLE(SubSeq(b, 6, 9)) = current

LEMMA ProfileCarried ==
  ASSUME NEW e \in Nat, e < 256, NEW c \in Nat, c < 256, NEW cells \in Nat, cells < 256,
         NEW volt \in Nat, FitsIn(volt, 2), NEW current \in Nat, FitsIn(current, 4),
         NEW b, b = Tail(Data("SetOneKeyLaunch", OneKeyArgs(e, c, cells, volt, current)))
  PROVE  CarriesProfile(b, e, c, cells, volt, current)
<1>1. FitsIn(e, 1) /\ FitsIn(c, 1) /\ FitsIn(cells, 1)
  BY Fits
<1>2. /\ b \in Seq(Byte) /\ Len(b) = 9
      /\ Stands(b, 0, 1, e) /\ Stands(b, 1, 1, c) /\ Stands(b, 2, 1, cells)
      /\ Stands(b, 3, 2, volt) /\ Stands(b, 5, 4, current)
  <2>1. ProfileHolds(b, e, c, cells, volt, current)
    BY <1>1, ProfileHeld, Zenon
  <2> QED
    BY <2>1, Zenon DEF ProfileHolds
<1>3. b[1] = e /\ b[2] = c /\ b[3] = cells
  <2>1. b[0 + 1] = e
    BY <1>2, ByteHeld
  <2>2. b[1 + 1] = c
    BY <1>2, ByteHeld
  <2>3. b[2 + 1] = cells
    BY <1>2, ByteHeld
  <2>4. 0 + 1 = 1 /\ 1 + 1 = 2 /\ 2 + 1 = 3
    OBVIOUS
  <2> QED
    BY <2>1, <2>2, <2>3, <2>4, Zenon
<1>4. FromLE(SubSeq(b, 4, 5)) = volt
  <2>1. FromLE(SubSeq(b, 3 + 1, 3 + 2)) = volt
    BY <1>2, NumberRead
  <2> QED
    BY <2>1
<1>5. FromLE(SubSeq(b, 6, 9)) = current
  <2>1. FromLE(SubSeq(b, 5 + 1, 5 + 4)) = current
    BY <1>2, NumberRead
  <2> QED
    BY <2>1
<1> QED
  BY <1>2, <1>3, <1>4, <1>5 DEF CarriesProfile

LEMMA ProfileMeans ==
  ASSUME NEW enabled \in BOOLEAN, NEW battery \in Batteries, NEW cells \in Nat, cells < 256,
         NEW volt \in Nat, FitsIn(volt, 2), NEW current \in Nat, FitsIn(current, 4),
         NEW t, t.profile = Profile(enabled, battery, cells, volt, current),
         NEW b, b = Tail(Data("SetOneKeyLaunch",
                      [Profile(enabled, battery, cells, volt, current)
                         EXCEPT !.enabled = IF enabled THEN 1 ELSE 0,
                                !.battery = Code(BatteryKinds, battery)]))
  PROVE  ProfileMeant(t, b)
<1>1. PICK c \in Nat : /\ c = Code(BatteryKinds, battery) /\ c < 256
                       /\ FromCode(BatteryKinds, c) = battery
  BY BatteryCode
<1>2. PICK e \in Nat : e = (IF enabled THEN 1 ELSE 0) /\ e < 256 /\ enabled = (e # 0)
  OBVIOUS
<1>3. PICK args : args = [Profile(enabled, battery, cells, volt, current)
                             EXCEPT !.enabled = IF enabled THEN 1 ELSE 0,
                                    !.battery = Code(BatteryKinds, battery)]
  OBVIOUS
<1>4. args = OneKeyArgs(e, c, cells, volt, current)
  BY <1>1, <1>2, <1>3 DEF Profile, OneKeyArgs
<1>5. b = Tail(Data("SetOneKeyLaunch", OneKeyArgs(e, c, cells, volt, current)))
  BY <1>3, <1>4, Zenon
<1>6. CarriesProfile(b, e, c, cells, volt, current)
  BY <1>1, <1>2, <1>5, ProfileCarried, Zenon
<1> QED
  BY <1>1, <1>2, <1>6, Zenon DEF ProfileMeant, CarriesProfile

CarriesBattgo(b, channel, current, store, full, days) ==
  /\ b \in Seq(Byte) /\ Len(b) = 10 /\ b[1] = channel /\ b[10] = days
  /\ FromLE(SubSeq(b, 2, 5)) = current /\ FromLE(SubSeq(b, 6, 7)) = store
  /\ FromLE(SubSeq(b, 8, 9)) = full

LEMMA BattgoCarried ==
  ASSUME NEW channel \in Nat, channel < 256, NEW current \in Nat, FitsIn(current, 4),
         NEW store \in Nat, FitsIn(store, 2), NEW full \in Nat, FitsIn(full, 2), NEW days \in Nat,
         days < 256,
         NEW b, b = Tail(Data("BattgoWriteParameters",
                               BattgoArgs(channel, current, store, full, days)))
  PROVE  CarriesBattgo(b, channel, current, store, full, days)
<1>1. FitsIn(channel, 1) /\ FitsIn(days, 1)
  BY Fits
<1>2. /\ b \in Seq(Byte) /\ Len(b) = 10
      /\ Stands(b, 0, 1, channel) /\ Stands(b, 1, 4, current) /\ Stands(b, 5, 2, store)
      /\ Stands(b, 7, 2, full) /\ Stands(b, 9, 1, days)
  <2>1. BattgoHolds(b, channel, current, store, full, days)
    BY <1>1, BattgoHeld, Zenon
  <2> QED
    BY <2>1, Zenon DEF BattgoHolds
<1>3. b[1] = channel /\ b[10] = days
  <2>1. b[0 + 1] = channel
    BY <1>2, ByteHeld
  <2>2. b[9 + 1] = days
    BY <1>2, ByteHeld
  <2>3. 0 + 1 = 1 /\ 9 + 1 = 10
    OBVIOUS
  <2> QED
    BY <2>1, <2>2, <2>3, Zenon
<1>4. FromLE(SubSeq(b, 2, 5)) = current
  <2>1. FromLE(SubSeq(b, 1 + 1, 1 + 4)) = current
    BY <1>2, NumberRead
  <2> QED
    BY <2>1
<1>5. FromLE(SubSeq(b, 6, 7)) = store
  <2>1. FromLE(SubSeq(b, 5 + 1, 5 + 2)) = store
    BY <1>2, NumberRead
  <2> QED
    BY <2>1
<1>6. FromLE(SubSeq(b, 8, 9)) = full
  <2>1. FromLE(SubSeq(b, 7 + 1, 7 + 2)) = full
    BY <1>2, NumberRead
  <2> QED
    BY <2>1
<1> QED
  BY <1>2, <1>3, <1>4, <1>5, <1>6 DEF CarriesBattgo

LEMMA BattgoMeans ==
  ASSUME NEW channel \in Nat, channel < 256, NEW current \in Nat, FitsIn(current, 4),
         NEW store \in Nat, FitsIn(store, 2), NEW full \in Nat, FitsIn(full, 2), NEW days \in Nat,
         days < 256,
         NEW t, t.args = BattgoArgs(channel, current, store, full, days),
         NEW b, b = Tail(Data("BattgoWriteParameters",
                               BattgoArgs(channel, current, store, full, days)))
  PROVE  BattgoMeant(t, b)
<1>1. CarriesBattgo(b, channel, current, store, full, days)
  BY BattgoCarried, Zenon
<1>2. PICK args : args = BattgoArgs(channel, current, store, full, days)
  OBVIOUS
<1>3. /\ args["channel"] = channel /\ args["current_ma"] = current
      /\ args["store_mv"] = store /\ args["volt_mv"] = full /\ args["days"] = days
  BY <1>2 DEF BattgoArgs
<1> QED
  BY <1>1, <1>2, <1>3, Zenon DEF BattgoMeant, CarriesBattgo

-----------------------------------------------------------------------------
(* What the charger repeats                                                *)

\* The state, the task and the cutoff in a work state are those in the memory.
WorkMirrors(b, task, limits) ==
  /\ b[16] = task[3] /\ b[17] = task[9] /\ b[18] = task[4]
  /\ \A j \in 1 .. 2 : b[18 + j] = task[9 + j]
  /\ \A j \in 1 .. 4 : b[20 + j] = task[4 + j]
  /\ \A j \in 1 .. 2 : b[28 + j] = limits[0 + j]
  /\ b[2] \in {0, 3, 7, 10}
  /\ task[2] \in 0 .. 3 => (b[2] = 0 <=> task[2] = 3)

\* The bytes spliced in are where they were put, the others where they were.
Spliced(s, n, body, at, bytes, m) ==
  /\ DOMAIN s = 1 .. n
  /\ \A j \in 1 .. m : s[at + j - 1] = bytes[j]
  /\ \A i \in 1 .. n : i < at \/ i > at + m - 1 => s[i] = body[i]

LEMMA SplicedIn ==
  ASSUME NEW n \in Nat, NEW body, DOMAIN body = 1 .. n, NEW at \in Nat, at >= 1, NEW bytes,
         NEW m \in Nat, Len(bytes) = m, at + m - 1 <= n, NEW s, s = Splice(body, at, bytes)
  PROVE  Spliced(s, n, body, at, bytes, m)
<1>1. DOMAIN s = 1 .. n
  BY DEF Splice
<1>2. \A i \in 1 .. n : s[i] = IF i \in at .. at + m - 1 THEN bytes[i - at + 1] ELSE body[i]
  BY DEF Splice
<1>3. ASSUME NEW j \in 1 .. m PROVE s[at + j - 1] = bytes[j]
  <2>1. PICK i \in 1 .. n : i = at + j - 1
    OBVIOUS
  <2>2. i \in at .. at + m - 1 /\ i - at + 1 = j
    BY <2>1
  <2> QED
    BY <1>2, <2>1, <2>2
<1>4. ASSUME NEW i \in 1 .. n, i < at \/ i > at + m - 1 PROVE s[i] = body[i]
  BY <1>2, <1>4
<1> QED
  BY <1>1, <1>3, <1>4 DEF Spliced

\* t is the n bytes of s behind the first a.
Cut(t, s, a, n) ==
  (\E V : t \in Seq(V)) /\ Len(t) = n /\ \A j \in 1 .. n : t[j] = s[a + j]

LEMMA CutBytes ==
  ASSUME NEW s, NEW a \in Nat, NEW n \in Nat, NEW t, t = SubSeq(s, a + 1, a + n)
  PROVE  Cut(t, s, a, n)
<1>1. PICK m, e \in Nat : m = a + 1 /\ e = a + n
  OBVIOUS
<1>2. n = e - m + 1
  BY <1>1
<1>3. t = [j \in 1 .. n |-> s[j + m - 1]]
  BY <1>1, <1>2
<1>4. \A j \in 1 .. n : t[j] = s[a + j]
  <2> TAKE j \in 1 .. n
  <2>1. t[j] = s[j + m - 1]
    BY <1>3
  <2>2. j + m - 1 = a + j
    BY <1>1
  <2> QED
    BY <2>1, <2>2
<1>5. DOMAIN t = 1 .. n /\ t = [j \in 1 .. n |-> t[j]]
  BY <1>3
<1>6. PICK f : f = t
  OBVIOUS
<1>7. DOMAIN f = 1 .. n /\ f = [j \in 1 .. n |-> f[j]]
  BY <1>5, <1>6
<1>8. f \in Seq({f[j] : j \in 1 .. n}) /\ Len(f) = n
  BY <1>7, ListIs
<1> QED
  BY <1>4, <1>6, <1>8 DEF Cut

LEMMA TargetBytes ==
  ASSUME NEW task, NEW t, t = SubSeq(task, 10, 11) \o SubSeq(task, 5, 8)
  PROVE  /\ Len(t) = 6 /\ t[1] = task[10] /\ t[2] = task[11] /\ t[3] = task[5]
         /\ t[4] = task[6] /\ t[5] = task[7] /\ t[6] = task[8]
<1>0. PICK a, c, n, m \in Nat : a = 9 /\ n = 2 /\ c = 4 /\ m = 4
  OBVIOUS
<1>1. PICK x, y : x = SubSeq(task, a + 1, a + n) /\ y = SubSeq(task, c + 1, c + m)
  OBVIOUS
<1>11. Cut(x, task, a, n) /\ Cut(y, task, c, m)
  BY <1>1, CutBytes, Zenon
<1>2. /\ Len(x) = 2 /\ \A j \in 1 .. 2 : x[j] = task[9 + j]
      /\ \E V : x \in Seq(V)
  BY <1>0, <1>11 DEF Cut
<1>3. /\ Len(y) = 4 /\ \A j \in 1 .. 4 : y[j] = task[4 + j]
      /\ \E V : y \in Seq(V)
  BY <1>0, <1>11 DEF Cut
<1>4. t = x \o y
  BY <1>0, <1>1
<1>5. PICK V, W : x \in Seq(V) /\ y \in Seq(W)
  BY <1>2, <1>3
<1>6. /\ Len(t) = 6 /\ t[1] = x[1] /\ t[2] = x[2] /\ t[3] = y[1] /\ t[4] = y[2]
      /\ t[5] = y[3] /\ t[6] = y[4]
  BY <1>2, <1>3, <1>4, <1>5
<1>7. x[1] = task[10] /\ x[2] = task[11]
  BY <1>2
<1>8. y[1] = task[5] /\ y[2] = task[6] /\ y[3] = task[7] /\ y[4] = task[8]
  BY <1>3
<1> QED
  BY <1>6, <1>7, <1>8

LEMMA WorkStateMirrors ==
  ASSUME NEW channel, NEW b, b = WorkStateBody(channel)
  PROVE  WorkMirrors(b, memory["SetTask"], memory["SetLimitParameters"])
<1>1. PICK n \in Nat : n = 36
  OBVIOUS
<1>2. PICK task, limits : task = memory["SetTask"] /\ limits = memory["SetLimitParameters"]
  OBVIOUS
<1>3. PICK p : p = Pattern(36, channel)
  OBVIOUS
<1>4. DOMAIN p = 1 .. n
  BY <1>1, <1>3, PatternIs
<1>5. PICK b1 : b1 = <<task[3], task[9], task[4]>>
  OBVIOUS
<1>6. PICK b2, b3 : b2 = SubSeq(task, 10, 11) \o SubSeq(task, 5, 8) /\ b3 = SubSeq(limits, 1, 2)
  OBVIOUS
<1>7. PICK state : state = CASE task[2] = 0 -> 3 [] task[2] = 1 -> 7 [] task[2] = 2 -> 10
                             [] OTHER -> 0
  OBVIOUS
<1>8. PICK b4 : b4 = <<state>>
  OBVIOUS
<1>9. PICK s1 : s1 = Splice(p, 16, b1)
  OBVIOUS
<1>10. PICK s2 : s2 = Splice(s1, 19, b2)
  OBVIOUS
<1>11. PICK s3 : s3 = Splice(s2, 29, b3)
  OBVIOUS
<1>12. b = Splice(s3, 2, b4)
  BY <1>2, <1>3, <1>5, <1>6, <1>7, <1>8, <1>9, <1>10, <1>11, Zenon DEF WorkStateBody
<1>13. Len(b1) = 3 /\ b1[1] = task[3] /\ b1[2] = task[9] /\ b1[3] = task[4]
  BY <1>5
<1>14. /\ Len(b2) = 6 /\ b2[1] = task[10] /\ b2[2] = task[11] /\ b2[3] = task[5]
       /\ b2[4] = task[6] /\ b2[5] = task[7] /\ b2[6] = task[8]
  BY <1>6, TargetBytes
<1>15. Len(b3) = 2 /\ \A j \in 1 .. 2 : b3[j] = limits[0 + j]
  <2>0. PICK a, m \in Nat : a = 0 /\ m = 2
    OBVIOUS
  <2>1. b3 = SubSeq(limits, a + 1, a + m)
    BY <1>6, <2>0
  <2>2. Cut(b3, limits, a, m)
    BY <2>1, CutBytes, Zenon
  <2> QED
    BY <2>0, <2>2 DEF Cut
<1>16. Len(b4) = 1 /\ b4[1] = state
  BY <1>8
<1>17. Spliced(s1, n, p, 16, b1, 3)
  <2>1. PICK at, m \in Nat : at = 16 /\ m = 3
    OBVIOUS
  <2>2. at >= 1 /\ at + m - 1 <= n /\ Len(b1) = m /\ DOMAIN p = 1 .. n
    BY <1>1, <1>4, <1>9, <1>13, <2>1
  <2>3. s1 = Splice(p, at, b1)
    BY <1>9, <2>1
  <2>4. Spliced(s1, n, p, at, b1, m)
    BY <2>2, <2>3, SplicedIn, Zenon
  <2> QED
    BY <2>1, <2>4
<1>18. Spliced(s2, n, s1, 19, b2, 6)
  <2>1. PICK at, m \in Nat : at = 19 /\ m = 6
    OBVIOUS
  <2>2. at >= 1 /\ at + m - 1 <= n /\ Len(b2) = m /\ DOMAIN s1 = 1 .. n
    BY <1>1, <1>10, <1>14, <1>17, <2>1 DEF Spliced
  <2>3. s2 = Splice(s1, at, b2)
    BY <1>10, <2>1
  <2>4. Spliced(s2, n, s1, at, b2, m)
    BY <2>2, <2>3, SplicedIn, Zenon
  <2> QED
    BY <2>1, <2>4
<1>19. Spliced(s3, n, s2, 29, b3, 2)
  <2>1. PICK at, m \in Nat : at = 29 /\ m = 2
    OBVIOUS
  <2>2. at >= 1 /\ at + m - 1 <= n /\ Len(b3) = m /\ DOMAIN s2 = 1 .. n
    BY <1>1, <1>11, <1>15, <1>18, <2>1 DEF Spliced
  <2>3. s3 = Splice(s2, at, b3)
    BY <1>11, <2>1
  <2>4. Spliced(s3, n, s2, at, b3, m)
    BY <2>2, <2>3, SplicedIn, Zenon
  <2> QED
    BY <2>1, <2>4
<1>20. Spliced(b, n, s3, 2, b4, 1)
  <2>1. PICK at, m \in Nat : at = 2 /\ m = 1
    OBVIOUS
  <2>2. at >= 1 /\ at + m - 1 <= n /\ Len(b4) = m /\ DOMAIN s3 = 1 .. n
    BY <1>1, <1>12, <1>16, <1>19, <2>1 DEF Spliced
  <2>3. b = Splice(s3, at, b4)
    BY <1>12, <2>1
  <2>4. Spliced(b, n, s3, at, b4, m)
    BY <2>2, <2>3, SplicedIn, Zenon
  <2> QED
    BY <2>1, <2>4
<1>21. b[2] = state
  BY <1>16, <1>20 DEF Spliced
<1>22. \A i \in 3 .. 36 : b[i] = s3[i]
  BY <1>1, <1>20 DEF Spliced
<1>23. \A i \in 3 .. 28 : s3[i] = s2[i]
  BY <1>1, <1>19 DEF Spliced
<1>24. s3[29] = b3[1] /\ s3[30] = b3[2]
  BY <1>19 DEF Spliced
<1>25. \A i \in 3 .. 18 : s2[i] = s1[i]
  BY <1>1, <1>18 DEF Spliced
<1>26. /\ s2[19] = b2[1] /\ s2[20] = b2[2] /\ s2[21] = b2[3] /\ s2[22] = b2[4]
       /\ s2[23] = b2[5] /\ s2[24] = b2[6]
  BY <1>18 DEF Spliced
<1>27. s1[16] = b1[1] /\ s1[17] = b1[2] /\ s1[18] = b1[3]
  BY <1>17 DEF Spliced
<1>28. b[16] = task[3] /\ b[17] = task[9] /\ b[18] = task[4]
  BY <1>13, <1>22, <1>23, <1>25, <1>27
<1>29. /\ b[19] = task[10] /\ b[20] = task[11] /\ b[21] = task[5]
       /\ b[22] = task[6] /\ b[23] = task[7] /\ b[24] = task[8]
  BY <1>14, <1>22, <1>23, <1>26
<1>30. b[29] = limits[0 + 1] /\ b[30] = limits[0 + 2]
  BY <1>15, <1>22, <1>24
<1>31. /\ \A j \in 1 .. 2 : b[18 + j] = task[9 + j]
       /\ \A j \in 1 .. 4 : b[20 + j] = task[4 + j]
  BY <1>29
<1>32. \A j \in 1 .. 2 : b[28 + j] = limits[0 + j]
  BY <1>30
<1>33. /\ state \in {0, 3, 7, 10}
       /\ task[2] \in 0 .. 3 => (state = 0 <=> task[2] = 3)
  BY <1>7
<1> QED
  BY <1>2, <1>21, <1>28, <1>31, <1>32, <1>33 DEF WorkMirrors

\* What the fields of a work state show.
WorkTells(r, state, task, limits) ==
  /\ Value(r, "state") = state /\ Value(r, "battery") = task[3] /\ Value(r, "link") = task[4]
  /\ Value(r, "cells") = task[9] /\ Value(r, "volt_mv") = FromLE(SubSeq(task, 10, 11))
  /\ Value(r, "current_ma") = FromLE(SubSeq(task, 5, 8))
  /\ Value(r, "min_input_mv") = FromLE(SubSeq(limits, 1, 2))

\* The i-th field repeats n bytes of m behind the first c.
Repeats(F, at, body, i, n, m, c) ==
  /\ F[i].size = n /\ n \in {1, 2, 4} /\ at[i] \in Nat /\ c \in Nat
  /\ \A j \in 1 .. n : body[at[i] + j] = m[c + j]

LEMMA RepeatShown ==
  ASSUME NEW r, NEW body, NEW F, NEW O, NEW at, Shows(r, body, F, O, at),
         NEW i, NEW name, Alone(F, O, i, name), NEW n, NEW m, NEW c,
         Repeats(F, at, body, i, n, m, c)
  PROVE  Value(r, name) = FromLE(SubSeq(m, c + 1, c + n))
<1>1. /\ F[i].size = n /\ n \in {1, 2, 4} /\ c \in Nat
  BY DEF Repeats
<1>2. PICK a \in Nat : at[i] = a /\ \A j \in 1 .. n : body[a + j] = m[c + j]
  BY DEF Repeats
<1> QED
  BY <1>1, <1>2, NumberShown

\* The i-th field is the byte x.
IsByte(F, at, body, i, x) ==
  F[i].size = 1 /\ at[i] \in Nat /\ body[at[i] + 1] = x /\ x \in Byte

LEMMA IsByteShown ==
  ASSUME NEW r, NEW body, NEW F, NEW O, NEW at, Shows(r, body, F, O, at),
         NEW i, NEW name, Alone(F, O, i, name), NEW x, IsByte(F, at, body, i, x)
  PROVE  Value(r, name) = x
<1>1. F[i].size = 1 /\ x \in Byte
  BY DEF IsByte
<1>2. PICK a \in Nat : at[i] = a /\ body[a + 1] = x
  BY DEF IsByte
<1> QED
  BY <1>1, <1>2, ByteShown

LEMMA ByteAt ==
  ASSUME NEW s \in Seq(Byte), NEW n \in Nat, Len(s) = n
  PROVE  \A i \in 1 .. n : s[i] \in Byte
  OBVIOUS

LEMMA WorkRead ==
  ASSUME NEW r, NEW body, NEW F, F = WorkLayout, NEW O, O = <<U16("errors")>>,
         NEW at, at = <<0, 1, 2, 3, 7, 11, 15, 16, 17, 18, 20, 24, 26, 28, 30>>,
         Shows(r, body, F, O, at), NEW task \in Seq(Byte), Len(task) = 11, NEW limits,
         WorkMirrors(body, task, limits)
  PROVE  WorkTells(r, body[2], task, limits)
<1>1. /\ Alone(F, O, 2, "state") /\ Alone(F, O, 7, "battery") /\ Alone(F, O, 8, "cells")
      /\ Alone(F, O, 9, "link") /\ Alone(F, O, 10, "volt_mv")
      /\ Alone(F, O, 11, "current_ma") /\ Alone(F, O, 14, "min_input_mv")
  BY WorkNames
<1>2. /\ F[2].size = 1 /\ F[7].size = 1 /\ F[8].size = 1 /\ F[9].size = 1 /\ F[10].size = 2
      /\ F[11].size = 4 /\ F[14].size = 2
      /\ at[2] = 1 /\ at[7] = 15 /\ at[8] = 16 /\ at[9] = 17 /\ at[10] = 18 /\ at[11] = 20
      /\ at[14] = 28
  BY WorkPlaces
<1>3. task[3] \in Byte /\ task[4] \in Byte /\ task[9] \in Byte
  <2>1. PICK n \in Nat : n = 11
    OBVIOUS
  <2>2. \A i \in 1 .. n : task[i] \in Byte
    BY <2>1, ByteAt
  <2> QED
    BY <2>1, <2>2
<1>4. IsByte(F, at, body, 2, body[2])
  BY <1>2 DEF IsByte, WorkMirrors, Byte
<1>5. IsByte(F, at, body, 7, task[3])
  BY <1>2, <1>3 DEF IsByte, WorkMirrors
<1>6. IsByte(F, at, body, 8, task[9])
  BY <1>2, <1>3 DEF IsByte, WorkMirrors
<1>7. IsByte(F, at, body, 9, task[4])
  BY <1>2, <1>3 DEF IsByte, WorkMirrors
<1>8. Repeats(F, at, body, 10, 2, task, 9)
  BY <1>2 DEF Repeats, WorkMirrors
<1>9. Repeats(F, at, body, 11, 4, task, 4)
  BY <1>2 DEF Repeats, WorkMirrors
<1>10. Repeats(F, at, body, 14, 2, limits, 0)
  BY <1>2 DEF Repeats, WorkMirrors
<1>11. /\ Value(r, "state") = body[2] /\ Value(r, "battery") = task[3]
       /\ Value(r, "link") = task[4] /\ Value(r, "cells") = task[9]
  <2>1. Value(r, "state") = body[2]
    BY <1>1, <1>4, <1>5, <1>6, <1>7, IsByteShown
  <2>2. Value(r, "battery") = task[3]
    BY <1>1, <1>4, <1>5, <1>6, <1>7, IsByteShown
  <2>3. Value(r, "link") = task[4]
    BY <1>1, <1>4, <1>5, <1>6, <1>7, IsByteShown
  <2>4. Value(r, "cells") = task[9]
    BY <1>1, <1>4, <1>5, <1>6, <1>7, IsByteShown
  <2> QED
    BY <2>1, <2>2, <2>3, <2>4, Zenon
<1>12. /\ Value(r, "volt_mv") = FromLE(SubSeq(task, 9 + 1, 9 + 2))
       /\ Value(r, "current_ma") = FromLE(SubSeq(task, 4 + 1, 4 + 4))
       /\ Value(r, "min_input_mv") = FromLE(SubSeq(limits, 0 + 1, 0 + 2))
  <2>1. Value(r, "volt_mv") = FromLE(SubSeq(task, 9 + 1, 9 + 2))
    BY <1>1, <1>8, <1>9, <1>10, RepeatShown
  <2>2. Value(r, "current_ma") = FromLE(SubSeq(task, 4 + 1, 4 + 4))
    BY <1>1, <1>8, <1>9, <1>10, RepeatShown
  <2>3. Value(r, "min_input_mv") = FromLE(SubSeq(limits, 0 + 1, 0 + 2))
    BY <1>1, <1>8, <1>9, <1>10, RepeatShown
  <2> QED
    BY <2>1, <2>2, <2>3, Zenon
<1>13. 9 + 1 = 10 /\ 9 + 2 = 11 /\ 4 + 1 = 5 /\ 4 + 4 = 8 /\ 0 + 1 = 1 /\ 0 + 2 = 2
  OBVIOUS
<1> QED
  BY <1>11, <1>12, <1>13, Zenon DEF WorkTells

\* What the fields of a profile show.
ProfileTells(r, b) ==
  /\ Value(r, "enabled") = b[1] /\ Value(r, "battery") = b[2] /\ Value(r, "cells") = b[3]
  /\ Value(r, "volt_mv") = FromLE(SubSeq(b, 4, 5))
  /\ Value(r, "current_ma") = FromLE(SubSeq(b, 6, 9))

LEMMA ProfileRead ==
  ASSUME NEW r, NEW body, NEW F, F = ProfileLayout, NEW at, at = <<0, 1, 2, 3, 5>>,
         Shows(r, body, F, <<>>, at), NEW b \in Seq(Byte), Len(b) = 9,
         \A i \in 1 .. 9 : body[i] = b[i]
  PROVE  ProfileTells(r, b)
<1>1. /\ Alone(F, <<>>, 1, "enabled") /\ Alone(F, <<>>, 2, "battery")
      /\ Alone(F, <<>>, 3, "cells") /\ Alone(F, <<>>, 4, "volt_mv")
      /\ Alone(F, <<>>, 5, "current_ma")
  BY ProfileNames
<1>2. /\ F[1].size = 1 /\ F[2].size = 1 /\ F[3].size = 1 /\ F[4].size = 2 /\ F[5].size = 4
      /\ at[1] = 0 /\ at[2] = 1 /\ at[3] = 2 /\ at[4] = 3 /\ at[5] = 5
  BY ProfilePlaces
<1>3. b[1] \in Byte /\ b[2] \in Byte /\ b[3] \in Byte
  <2>1. PICK n \in Nat : n = 9
    OBVIOUS
  <2>2. \A i \in 1 .. n : b[i] \in Byte
    BY <2>1, ByteAt
  <2> QED
    BY <2>1, <2>2
<1>4. IsByte(F, at, body, 1, b[1]) /\ IsByte(F, at, body, 2, b[2]) /\ IsByte(F, at, body, 3, b[3])
  BY <1>2, <1>3 DEF IsByte
<1>5. Repeats(F, at, body, 4, 2, b, 3)
  BY <1>2 DEF Repeats
<1>6. Repeats(F, at, body, 5, 4, b, 5)
  BY <1>2 DEF Repeats
<1>7. Value(r, "enabled") = b[1] /\ Value(r, "battery") = b[2] /\ Value(r, "cells") = b[3]
  <2>1. Value(r, "enabled") = b[1]
    BY <1>1, <1>4, IsByteShown
  <2>2. Value(r, "battery") = b[2]
    BY <1>1, <1>4, IsByteShown
  <2>3. Value(r, "cells") = b[3]
    BY <1>1, <1>4, IsByteShown
  <2> QED
    BY <2>1, <2>2, <2>3, Zenon
<1>8. /\ Value(r, "volt_mv") = FromLE(SubSeq(b, 3 + 1, 3 + 2))
      /\ Value(r, "current_ma") = FromLE(SubSeq(b, 5 + 1, 5 + 4))
  <2>1. Value(r, "volt_mv") = FromLE(SubSeq(b, 3 + 1, 3 + 2))
    BY <1>1, <1>5, <1>6, RepeatShown
  <2>2. Value(r, "current_ma") = FromLE(SubSeq(b, 5 + 1, 5 + 4))
    BY <1>1, <1>5, <1>6, RepeatShown
  <2> QED
    BY <2>1, <2>2, Zenon
<1>9. 3 + 1 = 4 /\ 3 + 2 = 5 /\ 5 + 1 = 6 /\ 5 + 4 = 9
  OBVIOUS
<1> QED
  BY <1>7, <1>8, <1>9, Zenon DEF ProfileTells

\* What the fields of a battery's settings show.
BattgoTells(r, b) ==
  /\ Value(r, "channel") = b[1] /\ Value(r, "days") = b[10]
  /\ Value(r, "current_ma") = FromLE(SubSeq(b, 2, 5))
  /\ Value(r, "store_mv") = FromLE(SubSeq(b, 6, 7))
  /\ Value(r, "volt_mv") = FromLE(SubSeq(b, 8, 9))

LEMMA BattgoRead ==
  ASSUME NEW r, NEW body, NEW F, F = BattgoLayout, NEW at, at = <<0, 1, 5, 7, 9>>,
         Shows(r, body, F, <<>>, at), NEW b \in Seq(Byte), Len(b) = 10,
         \A i \in 1 .. 10 : body[i] = b[i]
  PROVE  BattgoTells(r, b)
<1>1. /\ Alone(F, <<>>, 1, "channel") /\ Alone(F, <<>>, 2, "current_ma")
      /\ Alone(F, <<>>, 3, "store_mv") /\ Alone(F, <<>>, 4, "volt_mv")
      /\ Alone(F, <<>>, 5, "days")
  BY BattgoNames
<1>2. /\ F[1].size = 1 /\ F[2].size = 4 /\ F[3].size = 2 /\ F[4].size = 2 /\ F[5].size = 1
      /\ at[1] = 0 /\ at[2] = 1 /\ at[3] = 5 /\ at[4] = 7 /\ at[5] = 9
  BY BattgoPlaces
<1>3. b[1] \in Byte /\ b[10] \in Byte
  <2>1. PICK n \in Nat : n = 10
    OBVIOUS
  <2>2. \A i \in 1 .. n : b[i] \in Byte
    BY <2>1, ByteAt
  <2> QED
    BY <2>1, <2>2
<1>4. IsByte(F, at, body, 1, b[1]) /\ IsByte(F, at, body, 5, b[10])
  BY <1>2, <1>3 DEF IsByte
<1>5. Repeats(F, at, body, 2, 4, b, 1)
  BY <1>2 DEF Repeats
<1>6. Repeats(F, at, body, 3, 2, b, 5)
  BY <1>2 DEF Repeats
<1>10. Repeats(F, at, body, 4, 2, b, 7)
  BY <1>2 DEF Repeats
<1>7. Value(r, "channel") = b[1] /\ Value(r, "days") = b[10]
  <2>1. Value(r, "channel") = b[1]
    BY <1>1, <1>4, IsByteShown
  <2>2. Value(r, "days") = b[10]
    BY <1>1, <1>4, IsByteShown
  <2> QED
    BY <2>1, <2>2, Zenon
<1>8. /\ Value(r, "current_ma") = FromLE(SubSeq(b, 1 + 1, 1 + 4))
      /\ Value(r, "store_mv") = FromLE(SubSeq(b, 5 + 1, 5 + 2))
      /\ Value(r, "volt_mv") = FromLE(SubSeq(b, 7 + 1, 7 + 2))
  <2>1. Value(r, "current_ma") = FromLE(SubSeq(b, 1 + 1, 1 + 4))
    BY <1>1, <1>5, <1>6, <1>10, RepeatShown
  <2>2. Value(r, "store_mv") = FromLE(SubSeq(b, 5 + 1, 5 + 2))
    BY <1>1, <1>5, <1>6, <1>10, RepeatShown
  <2>3. Value(r, "volt_mv") = FromLE(SubSeq(b, 7 + 1, 7 + 2))
    BY <1>1, <1>5, <1>6, <1>10, RepeatShown
  <2> QED
    BY <2>1, <2>2, <2>3, Zenon
<1>9. /\ 1 + 1 = 2 /\ 1 + 4 = 5 /\ 5 + 1 = 6 /\ 5 + 2 = 7 /\ 7 + 1 = 8 /\ 7 + 2 = 9
  OBVIOUS
<1> QED
  BY <1>7, <1>8, <1>9, Zenon DEF BattgoTells

\* The first n bytes are those of m.
SameHead(body, m, n) == \A i \in 1 .. n : body[i] = m[i]

\* A whole reply that gives settings back repeats those in the memory.
Mirrors(mem, k, body) ==
  /\ k = "WorkState" /\ Len(body) >= 34 =>
       WorkMirrors(body, mem["SetTask"], mem["SetLimitParameters"])
  /\ k = "OneKeyLaunch" /\ Len(body) >= 9 => SameHead(body, mem["SetOneKeyLaunch"], 9)
  /\ k = "BattgoReadParameters" /\ Len(body) >= 10 =>
       SameHead(body, mem["BattgoWriteParameters"], 10)

\* The settings in the memory of the charger, and the one on its way to it, are
\* what the program meant, and a reply on its way repeats the memory.
MirrorInv ==
  /\ AnswerInv
  /\ told = [k \in Setters |-> told[k]]
  /\ \A k \in Setters : Meant(k, told[k], memory[k])
  /\ request.kind \in Setters => Meant(request.kind, request.told, Tail(request.data))
  /\ reply # NoReply => Mirrors(memory, request.kind, Tail(reply.data))

LEMMA WorkMirrorsAgree ==
  ASSUME NEW b, NEW t, NEW task, NEW limits, WorkMirrors(b, task, limits),
         \A i \in 1 .. 34 : t[i] = b[i]
  PROVE  WorkMirrors(t, task, limits)
<1>1. t[2] = b[2] /\ t[16] = b[16] /\ t[17] = b[17] /\ t[18] = b[18]
  OBVIOUS
<1>2. \A j \in 1 .. 2 : t[18 + j] = b[18 + j]
  OBVIOUS
<1>3. \A j \in 1 .. 4 : t[20 + j] = b[20 + j]
  OBVIOUS
<1>4. \A j \in 1 .. 2 : t[28 + j] = b[28 + j]
  OBVIOUS
<1> QED
  BY <1>1, <1>2, <1>3, <1>4 DEF WorkMirrors

\* t is n bytes long and as much of body as there is.
Cuts(t, body, n) ==
  /\ Len(t) = n /\ \E W : t \in Seq(W)
  /\ \A i \in 1 .. n : i <= Len(body) => t[i] = body[i]

LEMMA OfLengthCuts ==
  ASSUME NEW V, NEW body \in Seq(V), NEW n \in Nat, NEW channel
  PROVE  Cuts(SubSeq(OfLength(body, n, channel), 1, n), body, n)
<1> DEFINE t == SubSeq(OfLength(body, n, channel), 1, n)
<1>1. /\ Len(t) = n /\ \E W : t \in Seq(W)
      /\ \A i \in 1 .. n : i <= Len(body) => t[i] = body[i]
      /\ n >= 1 /\ Len(body) = 0 => t[1] = channel
  BY OfLengthIs
<1> HIDE DEF t
<1>2. Cuts(t, body, n)
  BY <1>1 DEF Cuts
<1> QED
  BY <1>2 DEF t

\* The charger repeats its memory.
LEMMA AnswerMirrors ==
  ASSUME NEW n \in Lengths, NEW refused \in BOOLEAN, Answer(n, refused),
         \A j \in Setters : memory[j] \in Seq(Byte),
         Len(memory["SetOneKeyLaunch"]) = 9, Len(memory["BattgoWriteParameters"]) = 10
  PROVE  Mirrors(memory, request.kind, Tail(reply'.data))
<1> DEFINE k == request.kind
           channel == IF "channel" \in DOMAIN request.told THEN request.told.channel ELSE 0
           b == ChargerBody(k, channel, refused)
           t == SubSeq(OfLength(b, n, channel), 1, n)
<1>1. reply' = [data |-> <<CommandWord[k] + 1>> \o t, refused |-> refused]
  BY DEF Answer
<1>2. n \in Nat
  BY BoundsAssumption
<1> HIDE DEF k, channel
<1>3. k = "WorkState" => b = WorkStateBody(channel)
  BY DEF ChargerBody, Acknowledged
<1>4. k = "OneKeyLaunch" => b = memory["SetOneKeyLaunch"]
  BY DEF ChargerBody, Acknowledged
<1>5. k = "BattgoReadParameters" => b = memory["BattgoWriteParameters"]
  BY DEF ChargerBody, Acknowledged
<1>6. PICK V : b \in Seq(V)
  BY ChargerBodyIs
<1>7. k = "WorkState" => Len(b) = 36
  BY ChargerBodyIs
<1> HIDE DEF b
<1>8. Cuts(t, b, n)
  BY <1>2, <1>6, OfLengthCuts, Zenon
<1> HIDE DEF t
<1>9. PICK W : t \in Seq(W)
  BY <1>8 DEF Cuts
<1>10. Len(t) = n /\ \A i \in 1 .. n : i <= Len(b) => t[i] = b[i]
  BY <1>8 DEF Cuts
<1>11. Tail(reply'.data) = t
  BY <1>1, <1>2, <1>9, <1>10, DataSays
<1>12. ASSUME k = "WorkState", n >= 34
       PROVE  WorkMirrors(t, memory["SetTask"], memory["SetLimitParameters"])
  <2>1. WorkMirrors(b, memory["SetTask"], memory["SetLimitParameters"])
    BY <1>3, <1>12, WorkStateMirrors
  <2>2. \A i \in 1 .. 34 : i \in 1 .. n /\ i <= 36
    BY <1>2, <1>12
  <2>3. \A i \in 1 .. 34 : t[i] = b[i]
    BY <1>7, <1>10, <1>12, <2>2
  <2> QED
    BY <2>1, <2>3, WorkMirrorsAgree
<1>13. ASSUME k = "OneKeyLaunch", n >= 9 PROVE SameHead(t, memory["SetOneKeyLaunch"], 9)
  <2>1. \A i \in 1 .. 9 : i \in 1 .. n /\ i <= 9
    BY <1>2, <1>13
  <2>2. Len(b) = 9
    BY <1>4, <1>13
  <2> QED
    BY <1>4, <1>10, <1>13, <2>1, <2>2 DEF SameHead
<1>14. ASSUME k = "BattgoReadParameters", n >= 10
       PROVE  SameHead(t, memory["BattgoWriteParameters"], 10)
  <2>1. \A i \in 1 .. 10 : i \in 1 .. n /\ i <= 10
    BY <1>2, <1>14
  <2>2. Len(b) = 10
    BY <1>5, <1>14
  <2> QED
    BY <1>5, <1>10, <1>14, <2>1, <2>2 DEF SameHead
<1> QED
  BY <1>10, <1>11, <1>12, <1>13, <1>14 DEF Mirrors, k

LEMMA ZerosAre ==
  ASSUME NEW k \in Setters, NEW n \in Nat, n = Documented[k] - 1
  PROVE  Zeros(k) \in Seq(Byte) /\ Len(Zeros(k)) = n
<1>1. k \in RequestKinds \ {"Raw"}
  BY DEF Setters, RequestKinds, CommandWord
<1>2. Numbers(<<>>)
  BY DEF Numbers
<1>3. Len(Data(k, <<>>)) = Documented[k]
  BY <1>1, <1>2, PacketType
<1>4. Zeros(k) = [i \in 1 .. n |-> 0] /\ 0 \in Byte
  BY <1>3 DEF Zeros, Byte
<1> QED
  BY <1>4, SeqDef

LEMMA SetterLengths ==
  /\ Documented["SetTask"] = 12 /\ Documented["SetLimitParameters"] = 7
  /\ Documented["SetOneKeyLaunch"] = 10 /\ Documented["BattgoWriteParameters"] = 11
  BY DEF Documented, RequestKinds, CommandWord, PerChannel

LEMMA MirrorInit == Init => MirrorInv
<1> SUFFICES ASSUME Init PROVE MirrorInv
  OBVIOUS
<1> DEFINE zeros == [k \in Setters |-> Zeros(k)]
<1>1. /\ memory = [zeros EXCEPT !["SetTask"][3] = 9] /\ told = [k \in Setters |-> NothingTold]
      /\ request = NoRequest /\ reply = NoReply
  BY DEF Init
<1>2. AnswerInv
  BY AnswerInit
<1>3. \A k \in Setters : memory[k] \in Seq(Byte)
  BY <1>2 DEF AnswerInv, TypeInv
<1>4. /\ Zeros("SetTask") \in Seq(Byte) /\ Len(Zeros("SetTask")) = 11
      /\ Len(Zeros("SetLimitParameters")) = 6 /\ Len(Zeros("SetOneKeyLaunch")) = 9
      /\ Len(Zeros("BattgoWriteParameters")) = 10
  <2>1. \A k \in Setters : \A n \in Nat : n = Documented[k] - 1 =>
          Zeros(k) \in Seq(Byte) /\ Len(Zeros(k)) = n
    BY ZerosAre
  <2>2. PICK a, b, c, d \in Nat : a = 11 /\ b = 6 /\ c = 9 /\ d = 10
    OBVIOUS
  <2>3. /\ a = Documented["SetTask"] - 1 /\ b = Documented["SetLimitParameters"] - 1
        /\ c = Documented["SetOneKeyLaunch"] - 1
        /\ d = Documented["BattgoWriteParameters"] - 1
    BY <2>2, SetterLengths
  <2>4. /\ "SetTask" \in Setters /\ "SetLimitParameters" \in Setters
        /\ "SetOneKeyLaunch" \in Setters /\ "BattgoWriteParameters" \in Setters
    BY DEF Setters
  <2>5. Zeros("SetTask") \in Seq(Byte) /\ Len(Zeros("SetTask")) = a
    BY <2>1, <2>3, <2>4, Zenon
  <2>6. Len(Zeros("SetLimitParameters")) = b
    BY <2>1, <2>3, <2>4, Zenon
  <2>7. Len(Zeros("SetOneKeyLaunch")) = c
    BY <2>1, <2>3, <2>4, Zenon
  <2>8. Len(Zeros("BattgoWriteParameters")) = d
    BY <2>1, <2>3, <2>4, Zenon
  <2> QED
    BY <2>2, <2>5, <2>6, <2>7, <2>8, Zenon
<1>5. PICK z : z = Zeros("SetTask")
  OBVIOUS
<1>6. /\ "SetTask" \in Setters /\ "SetLimitParameters" \in Setters
      /\ "SetOneKeyLaunch" \in Setters /\ "BattgoWriteParameters" \in Setters
  BY DEF Setters
<1>7. /\ memory["SetTask"] = [z EXCEPT ![3] = 9]
      /\ memory["SetLimitParameters"] = Zeros("SetLimitParameters")
      /\ memory["SetOneKeyLaunch"] = Zeros("SetOneKeyLaunch")
      /\ memory["BattgoWriteParameters"] = Zeros("BattgoWriteParameters")
  BY <1>1, <1>5, <1>6
<1> HIDE DEF zeros
<1>8. Len(memory["SetTask"]) = 11 /\ memory["SetTask"][3] = 9 /\ memory["SetTask"][2] # 3
  <2>1. z \in Seq(Byte) /\ Len(z) = 11
    BY <1>4, <1>5
  <2>2. Len([z EXCEPT ![3] = 9]) = 11 /\ [z EXCEPT ![3] = 9][3] = 9
    BY <2>1
  <2>3. PICK l : l = Len(Data("SetTask", <<>>)) - 1
    OBVIOUS
  <2>4. z = [i \in 1 .. l |-> 0]
    BY <1>5, <2>3 DEF Zeros
  <2>5. [z EXCEPT ![3] = 9][2] = 0
    <3>1. 2 \in DOMAIN z
      BY <2>1
    <3>2. [z EXCEPT ![3] = 9][2] = z[2]
      BY <3>1
    <3> QED
      BY <2>4, <3>1, <3>2
  <2> QED
    BY <1>7, <2>2, <2>5
<1>9. \A k \in Setters : told[k] = NothingTold
  BY <1>1
<1>10. Meant("SetTask", NothingTold, memory["SetTask"])
  BY <1>3, <1>6, <1>8 DEF Meant, TaskMeant
<1>11. Meant("SetLimitParameters", NothingTold, memory["SetLimitParameters"])
  BY <1>3, <1>4, <1>6, <1>7 DEF Meant, LimitsMeant
<1>12. Meant("SetOneKeyLaunch", NothingTold, memory["SetOneKeyLaunch"])
  BY <1>3, <1>4, <1>6, <1>7 DEF Meant, ProfileMeant
<1>13. Meant("BattgoWriteParameters", NothingTold, memory["BattgoWriteParameters"])
  BY <1>3, <1>4, <1>6, <1>7 DEF Meant, BattgoMeant
<1>14. \A k \in Setters : Meant(k, told[k], memory[k])
  BY <1>9, <1>10, <1>11, <1>12, <1>13 DEF Setters
<1>15. request.kind \notin Setters
  BY <1>1 DEF NoRequest, Setters
<1>16. told = [k \in Setters |-> told[k]]
  BY <1>1
<1> QED
  BY <1>1, <1>2, <1>14, <1>15, <1>16 DEF MirrorInv

LEMMA CallMirrors ==
  ASSUME MirrorInv, AnswerInv', NEW k, NEW args, NEW words, Call(k, args, words),
         k \in Setters => Meant(k, words, Tail(Data(k, args)))
  PROVE  MirrorInv'
<1>1. /\ request = NoRequest /\ reply' = reply /\ memory' = memory /\ told' = told
      /\ request' = [kind |-> k, data |-> Data(k, args), told |-> words]
  BY DEF Call
<1>2. request'.kind = k /\ request'.told = words /\ request'.data = Data(k, args)
  BY <1>1
<1>3. reply' = NoReply
  BY <1>1 DEF MirrorInv, AnswerInv
<1> QED
  BY <1>1, <1>2, <1>3 DEF MirrorInv

LEMMA InputsFit ==
  /\ \A c \in Currents : c \in Nat /\ FitsIn(c, 4)
  /\ \A c \in CellCounts : c \in Nat /\ c < 256
  /\ \A v \in Volts : v \in Nat /\ FitsIn(v, 2)
<1>1. \A c \in Currents : c \in Nat /\ c \div 65536 < 65536
  BY InputsAssumption
<1>2. \A c \in CellCounts : c \in Nat /\ c < 256
  BY InputsAssumption
<1>3. \A v \in Volts : v \in Nat /\ v < 65536
  BY InputsAssumption
<1> QED
  BY <1>1, <1>2, <1>3 DEF FitsIn

LEMMA DefaultVoltFits ==
  ASSUME NEW task \in {"Charge", "Storage", "Discharge"}, NEW battery \in Batteries
  PROVE  DefaultVolt(task, battery) \in Nat /\ FitsIn(DefaultVolt(task, battery), 2)
<1> DEFINE full == VoltOf(max_cell_mv, battery)
           half == VoltOf(store_cell_mv, battery)
           empty == VoltOf(discharge_cell_mv, battery)
<1>1. /\ full \in Nat /\ half \in Nat /\ empty \in Nat
      /\ full <= 5000 /\ half <= 5000 /\ empty <= 5000
  BY VoltTable
<1>2. DefaultVolt(task, battery) \in {full, half, empty}
  BY DEF DefaultVolt
<1> HIDE DEF full, half, empty
<1>3. PICK v : v = DefaultVolt(task, battery)
  OBVIOUS
<1>4. v \in Nat /\ v < 65536
  BY <1>1, <1>2, <1>3
<1>5. FitsIn(v, 2)
  BY <1>4, Fits
<1> QED
  BY <1>3, <1>4, <1>5

LEMMA StartMirrors ==
  ASSUME MirrorInv, AnswerInv', NEW task \in {"Charge", "Storage", "Discharge", "Stop"},
         NEW battery \in Batteries, NEW link \in {"SerialOnly", "Both"}, NEW current \in Nat,
         FitsIn(current, 4), NEW cells \in Nat, cells < 256, NEW volt \in Nat, FitsIn(volt, 2),
         NEW by \in {"cli", "force", "window", "stop"}, by = "stop" <=> task = "Stop",
         NEW chosen, NEW t, t = Started(by, battery, link, current, cells, volt, chosen),
         StartTask(0, task, battery, link, current, cells, volt, t)
  PROVE  MirrorInv'
<1> DEFINE args == TaskArgs(0, Code(TaskTypes, Named(task)), Code(BatteryKinds, battery),
                            Code(LinkTypes, Named(link)), current, cells, volt)
<1>1. Call("SetTask", args, t)
  BY DEF StartTask, TaskArgs
<1>2. /\ t.by = by /\ t.battery = battery /\ t.link = Named(link) /\ t.current_ma = current
      /\ t.cells = cells /\ t.volt_mv = volt
  BY DEF Started
<1>3. TaskWords(t, task, battery, link, current, cells, volt)
  BY <1>2 DEF TaskWords
<1>4. TaskMeant(t, Tail(Data("SetTask", args)))
  <2>1. PICK b : b = Tail(Data("SetTask", args))
    OBVIOUS
  <2>2. TaskMeant(t, b)
    BY <1>3, <2>1, TaskMeans, Zenon
  <2> QED
    BY <2>1, <2>2, Zenon
<1> HIDE DEF args
<1>5. Meant("SetTask", t, Tail(Data("SetTask", args)))
  BY <1>4 DEF Meant
<1> QED
  BY <1>1, <1>5, CallMirrors

LimitsCalled(volt) ==
  \E w \in Nat : \E t : /\ FitsIn(w, 4) /\ volt \in Nat /\ t.volt = volt
                      /\ Call("SetLimitParameters", LimitsArgs(Millivolts(volt), w), t)

LEMMA LimitsMeet ==
  ASSUME NEW volt, NEW watts \in {100, 1100}, Limits(volt, watts)
  PROVE  LimitsCalled(volt)
<1>1. PICK t : /\ t = [by |-> "cli", volt |-> volt, watts |-> watts]
               /\ Call("SetLimitParameters",
                       [min_input_mv |-> (volt * 1000) % 65536, max_input_mw |-> watts * 1000], t)
  BY DEF Limits
<1>2. PICK w \in Nat : w = watts * 1000 /\ FitsIn(w, 4)
  <2>1. watts * 1000 \in Nat /\ (watts * 1000) \div 65536 < 65536
    OBVIOUS
  <2> QED
    BY <2>1, Fits
<1>3. Call("SetLimitParameters", LimitsArgs(Millivolts(volt), w), t)
  BY <1>1, <1>2 DEF LimitsArgs, Millivolts
<1>4. volt \in Nat
  BY DEF Limits, MIN_INPUT_VOLT_V
<1>5. t.volt = volt
  BY <1>1
<1> QED
  BY <1>2, <1>3, <1>4, <1>5 DEF LimitsCalled

LEMMA LimitsMirror ==
  ASSUME MirrorInv, AnswerInv', NEW volt \in Nat, NEW w \in Nat, FitsIn(w, 4),
         NEW t, t.volt = volt, Call("SetLimitParameters", LimitsArgs(Millivolts(volt), w), t)
  PROVE  MirrorInv'
<1>1. PICK args : args = LimitsArgs(Millivolts(volt), w)
  OBVIOUS
<1>2. PICK b : b = Tail(Data("SetLimitParameters", args))
  OBVIOUS
<1>3. b = Tail(Data("SetLimitParameters", LimitsArgs(Millivolts(volt), w)))
  BY <1>1, <1>2, Zenon
<1>4. LimitsMeant(t, b)
  BY <1>3, LimitsMean, Zenon
<1>5. Meant("SetLimitParameters", t, Tail(Data("SetLimitParameters", args)))
  BY <1>2, <1>4 DEF Meant
<1>6. Call("SetLimitParameters", args, t)
  BY <1>1, Zenon
<1> QED
  BY <1>5, <1>6, CallMirrors

LEMMA OneKeyMirrors ==
  ASSUME MirrorInv, AnswerInv', NEW enabled \in BOOLEAN, NEW battery \in Batteries,
         NEW cells \in Nat, cells < 256, NEW volt \in Nat, FitsIn(volt, 2), NEW current \in Nat,
         FitsIn(current, 4), OneKey(enabled, battery, cells, volt, current)
  PROVE  MirrorInv'
<1> DEFINE args == [Profile(enabled, battery, cells, volt, current)
                      EXCEPT !.enabled = IF enabled THEN 1 ELSE 0,
                             !.battery = Code(BatteryKinds, battery)]
           t == [by |-> "cli", profile |-> Profile(enabled, battery, cells, volt, current)]
<1>1. Call("SetOneKeyLaunch", args, t)
  BY DEF OneKey
<1>2. t.profile = Profile(enabled, battery, cells, volt, current)
  OBVIOUS
<1>3. ProfileMeant(t, Tail(Data("SetOneKeyLaunch", args)))
  <2>1. PICK b : b = Tail(Data("SetOneKeyLaunch", args))
    OBVIOUS
  <2>2. PICK u : u = t
    OBVIOUS
  <2>3. u.profile = Profile(enabled, battery, cells, volt, current)
    BY <1>2, <2>2
  <2>4. ProfileMeant(u, b)
    BY <2>1, <2>3, ProfileMeans
  <2> HIDE DEF t, args
  <2> QED
    BY <2>1, <2>2, <2>4, Zenon
<1> HIDE DEF args, t
<1>4. Meant("SetOneKeyLaunch", t, Tail(Data("SetOneKeyLaunch", args)))
  BY <1>3 DEF Meant
<1> QED
  BY <1>1, <1>4, CallMirrors

LEMMA BattgoMirrors ==
  ASSUME MirrorInv, AnswerInv', NEW channel \in {0, 1}, NEW current \in Nat, FitsIn(current, 4),
         NEW store \in Nat, FitsIn(store, 2), NEW full \in Nat, FitsIn(full, 2),
         NEW days \in Nat, days < 256, BattgoWrite(channel, current, store, full, days)
  PROVE  MirrorInv'
<1>1. PICK args, t : /\ args = BattgoArgs(channel, current, store, full, days)
                     /\ t = [by |-> "cli", args |-> args]
                     /\ Call("BattgoWriteParameters", args, t)
  BY DEF BattgoWrite, BattgoArgs
<1>2. t.args = BattgoArgs(channel, current, store, full, days)
  BY <1>1
<1>3. channel \in Nat /\ channel < 256
  OBVIOUS
<1>4. PICK b : b = Tail(Data("BattgoWriteParameters", args))
  OBVIOUS
<1>5. BattgoMeant(t, b)
  BY <1>1, <1>2, <1>3, <1>4, BattgoMeans
<1>6. Meant("BattgoWriteParameters", t, Tail(Data("BattgoWriteParameters", args)))
  BY <1>4, <1>5 DEF Meant
<1> QED
  BY <1>1, <1>6, CallMirrors

\* What the charger keeps of a setting means what the setting meant.
LEMMA StoredMeans ==
  ASSUME NEW k \in Setters, NEW old, Meant(k, old, memory[k]),
         NEW t, NEW args, Meant(k, t, args)
  PROVE  Meant(k, t, Stored(k, args))
<1>1. CASE k = "SetTask" /\ args[2] = 3
  <2>1. PICK m \in Seq(Byte) : m = memory[k] /\ Len(m) = 11
    BY <1>1 DEF Meant, TaskMeant
  <2>2. PICK s : s = [m EXCEPT ![2] = 3]
    OBVIOUS
  <2>3. Stored(k, args) = s
    BY <1>1, <2>1, <2>2 DEF Stored
  <2>4. s \in Seq(Byte) /\ Len(s) = 11 /\ s[2] = 3
    <3>1. 3 \in Byte
      BY DEF Byte
    <3> QED
      BY <2>1, <2>2, <3>1
  <2>5. TaskMeant(t, args)
    BY <1>1 DEF Meant
  <2>6. t # NothingTold /\ t.by = "stop"
    BY <1>1, <2>5 DEF TaskMeant
  <2>7. TaskMeant(t, s)
    BY <2>4, <2>6 DEF TaskMeant
  <2> QED
    BY <1>1, <2>3, <2>7 DEF Meant
<1>2. CASE ~(k = "SetTask" /\ args[2] = 3)
  <2>1. Stored(k, args) = args
    BY <1>2 DEF Stored
  <2> QED
    BY <2>1
<1> QED
  BY <1>1, <1>2

LEMMA AnswerKeepsMirror ==
  ASSUME MirrorInv, AnswerInv', NEW n \in Lengths, NEW refused \in BOOLEAN, Answer(n, refused)
  PROVE  MirrorInv'
<1> DEFINE k == request.kind
<1>1. /\ memory' = IF k \in Setters /\ ~refused
                   THEN [memory EXCEPT ![k] = Stored(k, Tail(request.data))] ELSE memory
      /\ told' = IF k \in Setters /\ ~refused
                 THEN [told EXCEPT ![k] = request.told] ELSE told
      /\ request' = request
  BY DEF Answer
<1>2. memory = [j \in Setters |-> memory[j]] /\ told = [j \in Setters |-> told[j]]
  BY DEF MirrorInv, AnswerInv, TypeInv
<1>3. told' = [j \in Setters |-> told'[j]]
  BY <1>1, <1>2
<1>4. ASSUME NEW j \in Setters PROVE Meant(j, told'[j], memory'[j])
  <2>1. CASE j = k /\ ~refused
    <3>1. memory'[j] = Stored(j, Tail(request.data)) /\ told'[j] = request.told
      BY <1>1, <1>2, <2>1
    <3>2. Meant(j, told[j], memory[j]) /\ Meant(j, request.told, Tail(request.data))
      BY <2>1 DEF MirrorInv
    <3> QED
      BY <3>1, <3>2, StoredMeans
  <2>2. CASE ~(j = k /\ ~refused)
    <3>1. memory'[j] = memory[j] /\ told'[j] = told[j]
      BY <1>1, <1>2, <2>2
    <3> QED
      BY <3>1 DEF MirrorInv
  <2> QED
    BY <2>1, <2>2
<1>5. Mirrors(memory, k, Tail(reply'.data))
  <2>1. \A j \in Setters : memory[j] \in Seq(Byte)
    BY DEF MirrorInv, AnswerInv, TypeInv
  <2>2. Len(memory["SetOneKeyLaunch"]) = 9 /\ Len(memory["BattgoWriteParameters"]) = 10
    BY DEF MirrorInv, Meant, ProfileMeant, BattgoMeant, Setters
  <2> QED
    BY <2>1, <2>2, AnswerMirrors
<1>6. Mirrors(memory', k, Tail(reply'.data))
  <2>1. CASE k \in {"WorkState", "OneKeyLaunch", "BattgoReadParameters"}
    <3>1. memory' = memory
      BY <1>1, <2>1 DEF Setters
    <3> QED
      BY <1>5, <3>1
  <2>2. CASE k \notin {"WorkState", "OneKeyLaunch", "BattgoReadParameters"}
    BY <2>2 DEF Mirrors
  <2> QED
    BY <2>1, <2>2
<1> QED
  BY <1>1, <1>3, <1>4, <1>6 DEF MirrorInv

LEMMA MirrorNext ==
  ASSUME MirrorInv, [Next]_vars
  PROVE  MirrorInv'
<1>0. AnswerInv'
  BY AnswerNext DEF MirrorInv
<1>1. /\ \A c \in Currents : c \in Nat /\ FitsIn(c, 4)
      /\ \A c \in CellCounts : c \in Nat /\ c < 256
      /\ \A v \in Volts : v \in Nat /\ FitsIn(v, 2)
  BY InputsFit
<1>2. ASSUME NEW task \in {"Charge", "Storage", "Discharge"}, NEW battery \in Batteries,
             NEW current \in Currents, NEW cells \in CellCounts, NEW typed \in Volts,
             NEW force \in BOOLEAN,
             Start(task, battery, "Both", current, cells, typed, force)
      PROVE  MirrorInv'
  <2>1. PICK volt : volt = IF typed # None THEN typed ELSE DefaultVolt(task, battery)
    OBVIOUS
  <2>2. PICK by : by = (IF force THEN "force" ELSE "cli")
    OBVIOUS
  <2>3. PICK t : /\ t = Started(by, battery, "Both", current, cells, volt, typed # None)
                 /\ StartTask(0, task, battery, "Both", current, cells, volt, t)
    BY <1>2, <2>1, <2>2 DEF Start
  <2>4. volt \in Nat /\ FitsIn(volt, 2)
    BY <1>1, <2>1, DefaultVoltFits
  <2>5. /\ current \in Nat /\ FitsIn(current, 4) /\ cells \in Nat /\ cells < 256
    BY <1>1
  <2>6. /\ by \in {"cli", "force", "window", "stop"} /\ (by = "stop" <=> task = "Stop")
        /\ task \in {"Charge", "Storage", "Discharge", "Stop"}
    BY <2>2
  <2> QED
    BY <1>0, <2>3, <2>4, <2>5, <2>6, StartMirrors
<1>3. ASSUME NEW task \in {"Charge", "Storage", "Discharge"}, NEW battery \in Batteries,
             NEW current \in Currents, NEW cells \in CellCounts,
             WindowStart(task, battery, current, cells)
      PROVE  MirrorInv'
  <2>1. PICK volt : volt = DefaultVolt(task, battery)
    OBVIOUS
  <2>2. PICK by : by = "window"
    OBVIOUS
  <2>3. PICK t : /\ t = Started(by, battery, "SerialOnly", current, cells, volt, FALSE)
                 /\ StartTask(0, task, battery, "SerialOnly", current, cells, volt, t)
    BY <1>3, <2>1, <2>2 DEF WindowStart, Apply
  <2>4. volt \in Nat /\ FitsIn(volt, 2)
    BY <2>1, DefaultVoltFits
  <2>5. /\ current \in Nat /\ FitsIn(current, 4) /\ cells \in Nat /\ cells < 256
    BY <1>1
  <2>6. /\ by \in {"cli", "force", "window", "stop"} /\ (by = "stop" <=> task = "Stop")
        /\ task \in {"Charge", "Storage", "Discharge", "Stop"}
    BY <2>2
  <2> QED
    BY <1>0, <2>3, <2>4, <2>5, <2>6, StartMirrors
<1>4. ASSUME Stop PROVE MirrorInv'
  <2>1. PICK z \in Nat : z = 0 /\ z < 256 /\ FitsIn(z, 2) /\ FitsIn(z, 4)
    <3>1. 0 < 256 /\ 0 < 65536 /\ 0 \div 65536 < 65536
      BY SMT
    <3> QED
      BY <3>1, Fits
  <2>2. PICK battery \in Batteries : battery = Named("LiHv")
    <3>1. BatteryKinds[1] = "LiHv" /\ 1 \in DOMAIN BatteryKinds
      BY DEF BatteryKinds
    <3> QED
      BY <3>1 DEF Batteries
  <2>3. PICK t : /\ t = Started("stop", battery, "SerialOnly", z, z, z, FALSE)
                 /\ StartTask(0, "Stop", battery, "SerialOnly", z, z, z, t)
    BY <1>4, <2>1, <2>2 DEF Stop
  <2>4. PICK by, task : by = "stop" /\ task = "Stop"
    OBVIOUS
  <2>5. /\ by \in {"cli", "force", "window", "stop"} /\ (by = "stop" <=> task = "Stop")
        /\ task \in {"Charge", "Storage", "Discharge", "Stop"}
    BY <2>4
  <2>6. /\ t = Started(by, battery, "SerialOnly", z, z, z, FALSE)
        /\ StartTask(0, task, battery, "SerialOnly", z, z, z, t)
    BY <2>3, <2>4
  <2> QED
    BY <1>0, <2>1, <2>5, <2>6, StartMirrors
<1>5. ASSUME NEW volt \in CutoffVolts, NEW watts \in {100, 1100}, Limits(volt, watts)
      PROVE  MirrorInv'
  <2>0. LimitsCalled(volt)
    BY <1>5, LimitsMeet
  <2>1. PICK w \in Nat : \E t :
               /\ FitsIn(w, 4) /\ volt \in Nat /\ t.volt = volt
               /\ Call("SetLimitParameters", LimitsArgs(Millivolts(volt), w), t)
    BY <2>0 DEF LimitsCalled
  <2> QED
    BY <1>0, <2>1, LimitsMirror
<1>6. ASSUME NEW enabled \in BOOLEAN, NEW battery \in Batteries, NEW cells \in CellCounts,
             NEW volt \in Volts, NEW current \in Currents,
             OneKey(enabled, battery, cells, volt, current)
      PROVE  MirrorInv'
  <2>1. /\ current \in Nat /\ FitsIn(current, 4) /\ cells \in Nat /\ cells < 256
        /\ volt \in Nat /\ FitsIn(volt, 2)
    BY <1>1
  <2> QED
    BY <1>0, <1>6, <2>1, OneKeyMirrors
<1>7. ASSUME NEW channel \in {0, 1}, NEW current \in Currents, NEW store \in Volts,
             NEW days \in {0, 255}, BattgoWrite(channel, current, store, 4200, days)
      PROVE  MirrorInv'
  <2>1. PICK full \in Nat : full = 4200 /\ FitsIn(full, 2)
    <3>1. 4200 \in Nat /\ 4200 < 65536
      OBVIOUS
    <3> QED
      BY <3>1, Fits
  <2>2. /\ current \in Nat /\ FitsIn(current, 4) /\ store \in Nat /\ FitsIn(store, 2)
        /\ days \in Nat /\ days < 256
    BY <1>1
  <2>3. BattgoWrite(channel, current, store, full, days)
    BY <1>7, <2>1
  <2> QED
    BY <1>0, <2>1, <2>2, <2>3, BattgoMirrors
<1>8. ASSUME NEW k \in Kinds, NEW channel \in {0, 1}, Ask(k, channel) PROVE MirrorInv'
  <2>1. PICK args, words : Call(k, args, words)
    BY <1>8 DEF Ask
  <2>2. k \notin Setters
    BY <1>8 DEF Ask
  <2> QED
    BY <1>0, <2>1, <2>2, CallMirrors
<1>9. ASSUME NEW n \in Lengths, NEW refused \in BOOLEAN, Answer(n, refused) PROVE MirrorInv'
  BY <1>0, <1>9, AnswerKeepsMirror
<1>10. ASSUME Understand PROVE MirrorInv'
  <2>1. request' = NoRequest /\ reply' = NoReply /\ memory' = memory /\ told' = told
    BY <1>10 DEF Understand
  <2>2. request'.kind \notin Setters
    BY <2>1 DEF NoRequest, Setters
  <2> QED
    BY <1>0, <2>1, <2>2 DEF MirrorInv
<1>11. ASSUME UNCHANGED vars PROVE MirrorInv'
  BY <1>0, <1>11 DEF vars, MirrorInv
<1> QED
  BY <1>2, <1>3, <1>4, <1>5, <1>6, <1>7, <1>8, <1>9, <1>10, <1>11 DEF Next
-----------------------------------------------------------------------------
(* What was understood                                                     *)

\* Only Understand ends a call.
LEMMA OnlyUnderstandEnds ==
  ASSUME Next, request # NoRequest, request' = NoRequest
  PROVE  Understand
<1>1. ASSUME NEW k, NEW args, NEW words, Call(k, args, words) PROVE FALSE
  BY <1>1 DEF Call
<1>2. ASSUME NEW task, NEW battery, NEW current, NEW cells, NEW typed, NEW force,
             Start(task, battery, "Both", current, cells, typed, force)
      PROVE  FALSE
  BY <1>1, <1>2, Zenon DEF Start, StartTask
<1>3. ASSUME NEW task, NEW battery, NEW current, NEW cells,
             WindowStart(task, battery, current, cells)
      PROVE  FALSE
  BY <1>1, <1>3, Zenon DEF WindowStart, Apply, StartTask
<1>4. ASSUME Stop PROVE FALSE
  BY <1>1, <1>4, Zenon DEF Stop, StartTask
<1>5. ASSUME NEW volt, NEW watts, Limits(volt, watts) PROVE FALSE
  BY <1>1, <1>5 DEF Limits
<1>6. ASSUME NEW enabled, NEW battery, NEW cells, NEW volt, NEW current,
             OneKey(enabled, battery, cells, volt, current)
      PROVE  FALSE
  BY <1>1, <1>6, Zenon DEF OneKey
<1>7. ASSUME NEW channel, NEW current, NEW store, NEW days,
             BattgoWrite(channel, current, store, 4200, days)
      PROVE  FALSE
  BY <1>1, <1>7 DEF BattgoWrite
<1>8. ASSUME NEW k, NEW channel, Ask(k, channel) PROVE FALSE
  BY <1>1, <1>8, Zenon DEF Ask
<1>9. ASSUME NEW n, NEW refused, Answer(n, refused) PROVE FALSE
  BY <1>9 DEF Answer
<1> QED
  BY <1>2, <1>3, <1>4, <1>5, <1>6, <1>7, <1>8, <1>9 DEF Next

LEMMA ReadingShows ==
  ASSUME NEW q, NEW p, NEW r, NEW word, NEW body, NEW F, Reading(q, p, r, word, body, F),
         r.known, NEW O, O = OptionalFields(word), NEW at, NEW n \in Nat, Places(F, at, n)
  PROVE  Shows(r, body, F, O, at)
<1>1. PICK T \in Nat : /\ Total(F, T) /\ ParsedAs(r, body, F, OptionalFields(word), T)
                       /\ r.command = word
                       /\ T <= Len(body) <=> Shortest(word, Len(body)) <= Len(body)
  BY ReadsItsFields
<1>2. Listed(O)
  BY OptionalListed
<1> QED
  BY <1>1, <1>2, Zenon DEF Shows

\* What the client is about to report.
LEMMA Understands ==
  ASSUME AnswerInv, Understand
  PROVE  Reading(request, reply, last'.parsed, CommandWord[request.kind] + 1, Tail(reply.data),
                 Fields(CommandWord[request.kind] + 1, Tail(reply.data)))
<1>1. /\ request # NoRequest /\ reply # NoReply
      /\ last'.parsed = Parse(reply.data)
  BY DEF Understand
<1>2. Asking(request) /\ Said(request, reply)
  BY <1>1 DEF AnswerInv
<1> QED
  BY <1>1, <1>2 DEF Reading, Asking

LEMMA SettingsShortest ==
  ASSUME NEW n
  PROVE  Shortest(\hE7, n) = 34 /\ Shortest(\hD5, n) = 9 /\ Shortest(\h49, n) = 10
<1>1. PICK word : word = \hE7
  OBVIOUS
<1>2. Shortest(word, n) = 34
  BY <1>1 DEF Shortest
<1>3. PICK w : w = \hD5
  OBVIOUS
<1>4. Shortest(w, n) = 9
  BY <1>3 DEF Shortest
<1>5. PICK v : v = \h49
  OBVIOUS
<1>6. Shortest(v, n) = 10
  BY <1>5 DEF Shortest
<1> QED
  BY <1>1, <1>2, <1>3, <1>4, <1>5, <1>6

\* A work state shows the task and the cutoff in the memory.
WorkReported(r, task, limits) ==
  \E code \in {0, 3, 7, 10} : /\ WorkTells(r, code, task, limits)
                              /\ task[2] \in 0 .. 3 => (code = 0 <=> task[2] = 3)

LEMMA WorkUnderstood ==
  ASSUME MirrorInv, Understand, request.kind = "WorkState", last'.parsed.known
  PROVE  WorkReported(last'.parsed, memory["SetTask"], memory["SetLimitParameters"])
<1>1. PICK r, word, body, F, O :
         /\ r = last'.parsed /\ word = CommandWord[request.kind] + 1 /\ body = Tail(reply.data)
         /\ F = Fields(word, body) /\ O = OptionalFields(word)
  OBVIOUS
<1>2. Reading(request, reply, r, word, body, F)
  BY <1>1, Understands DEF MirrorInv
<1>3. word = \hE7
  BY <1>1, SettingsWords
<1>4. F = WorkLayout /\ O = <<U16("errors")>>
  BY <1>1, <1>3, SettingsFields
<1>5. PICK at : at = <<0, 1, 2, 3, 7, 11, 15, 16, 17, 18, 20, 24, 26, 28, 30>>
  OBVIOUS
<1>6. PICK n \in Nat : Places(F, at, n)
  <2>1. Places(F, at, 34)
    BY <1>4, <1>5, WorkPlaces
  <2> QED
    BY <2>1
<1>7. Shows(r, body, F, O, at)
  BY <1>1, <1>2, <1>6, ReadingShows
<1>8. Len(body) >= 34
  <2>0. r.known
    BY <1>1
  <2>1. Shortest(word, Len(body)) <= Len(body)
    BY <1>2, <2>0, KnownExactly, Zenon
  <2>2. Len(body) \in Nat
    BY <1>1, <1>2 DEF Reading, Said
  <2> QED
    BY <1>3, <2>1, <2>2, SettingsShortest
<1>9. PICK task, limits : task = memory["SetTask"] /\ limits = memory["SetLimitParameters"]
  OBVIOUS
<1>10. WorkMirrors(body, task, limits)
  <2>1. reply # NoReply
    BY DEF Understand
  <2> QED
    BY <1>1, <1>8, <1>9, <2>1 DEF MirrorInv, Mirrors
<1>11. task \in Seq(Byte) /\ Len(task) = 11
  BY <1>9 DEF MirrorInv, Meant, TaskMeant, Setters
<1>12. WorkTells(r, body[2], task, limits)
  BY <1>4, <1>5, <1>7, <1>10, <1>11, WorkRead
<1>13. body[2] \in {0, 3, 7, 10} /\ (task[2] \in 0 .. 3 => (body[2] = 0 <=> task[2] = 3))
  BY <1>10 DEF WorkMirrors
<1>14. WorkReported(r, task, limits)
  BY <1>12, <1>13, Zenon DEF WorkReported
<1> QED
  BY <1>1, <1>9, <1>14

LEMMA ProfileUnderstood ==
  ASSUME MirrorInv, Understand, request.kind = "OneKeyLaunch", last'.parsed.known
  PROVE  ProfileTells(last'.parsed, memory["SetOneKeyLaunch"])
<1>1. PICK r, word, body, F, O :
         /\ r = last'.parsed /\ word = CommandWord[request.kind] + 1 /\ body = Tail(reply.data)
         /\ F = Fields(word, body) /\ O = OptionalFields(word)
  OBVIOUS
<1>2. Reading(request, reply, r, word, body, F)
  BY <1>1, Understands DEF MirrorInv
<1>3. word = \hD5
  BY <1>1, SettingsWords
<1>4. F = ProfileLayout /\ O = <<>>
  BY <1>1, <1>3, SettingsFields
<1>5. PICK at : at = <<0, 1, 2, 3, 5>>
  OBVIOUS
<1>6. PICK n \in Nat : Places(F, at, n)
  <2>1. Places(F, at, 9)
    BY <1>4, <1>5, ProfilePlaces
  <2> QED
    BY <2>1
<1>7. Shows(r, body, F, O, at)
  BY <1>1, <1>2, <1>6, ReadingShows
<1>8. Len(body) >= 9
  <2>0. r.known
    BY <1>1
  <2>1. Shortest(word, Len(body)) <= Len(body)
    BY <1>2, <2>0, KnownExactly, Zenon
  <2>2. Len(body) \in Nat
    BY <1>1, <1>2 DEF Reading, Said
  <2> QED
    BY <1>3, <2>1, <2>2, SettingsShortest
<1>9. PICK b : b = memory["SetOneKeyLaunch"]
  OBVIOUS
<1>10. \A i \in 1 .. 9 : body[i] = b[i]
  <2>1. reply # NoReply
    BY DEF Understand
  <2> QED
    BY <1>1, <1>8, <1>9, <2>1 DEF MirrorInv, Mirrors, SameHead
<1>11. b \in Seq(Byte) /\ Len(b) = 9
  BY <1>9 DEF MirrorInv, Meant, ProfileMeant, Setters
<1>12. ProfileTells(r, b)
  BY <1>4, <1>5, <1>7, <1>10, <1>11, ProfileRead
<1> QED
  BY <1>1, <1>9, <1>12

LEMMA BattgoUnderstood ==
  ASSUME MirrorInv, Understand, request.kind = "BattgoReadParameters", last'.parsed.known
  PROVE  BattgoTells(last'.parsed, memory["BattgoWriteParameters"])
<1>1. PICK r, word, body, F, O :
         /\ r = last'.parsed /\ word = CommandWord[request.kind] + 1 /\ body = Tail(reply.data)
         /\ F = Fields(word, body) /\ O = OptionalFields(word)
  OBVIOUS
<1>2. Reading(request, reply, r, word, body, F)
  BY <1>1, Understands DEF MirrorInv
<1>3. word = \h49
  BY <1>1, SettingsWords
<1>4. F = BattgoLayout /\ O = <<>>
  BY <1>1, <1>3, SettingsFields
<1>5. PICK at : at = <<0, 1, 5, 7, 9>>
  OBVIOUS
<1>6. PICK n \in Nat : Places(F, at, n)
  <2>1. Places(F, at, 10)
    BY <1>4, <1>5, BattgoPlaces
  <2> QED
    BY <2>1
<1>7. Shows(r, body, F, O, at)
  BY <1>1, <1>2, <1>6, ReadingShows
<1>8. Len(body) >= 10
  <2>0. r.known
    BY <1>1
  <2>1. Shortest(word, Len(body)) <= Len(body)
    BY <1>2, <2>0, KnownExactly, Zenon
  <2>2. Len(body) \in Nat
    BY <1>1, <1>2 DEF Reading, Said
  <2> QED
    BY <1>3, <2>1, <2>2, SettingsShortest
<1>9. PICK b : b = memory["BattgoWriteParameters"]
  OBVIOUS
<1>10. \A i \in 1 .. 10 : body[i] = b[i]
  <2>1. reply # NoReply
    BY DEF Understand
  <2> QED
    BY <1>1, <1>8, <1>9, <2>1 DEF MirrorInv, Mirrors, SameHead
<1>11. b \in Seq(Byte) /\ Len(b) = 10
  BY <1>9 DEF MirrorInv, Meant, BattgoMeant, Setters
<1>12. BattgoTells(r, b)
  BY <1>4, <1>5, <1>7, <1>10, <1>11, BattgoRead
<1> QED
  BY <1>1, <1>9, <1>12

\* The state codes the charger reports of its tasks.
LEMMA RunningCodes ==
  ASSUME NEW code \in {0, 3, 7, 10}
  PROVE  IsRunning(FromCode(ChargerStates, code)) <=> code # 0
<1>1. /\ Len(ChargerStates) = 12 /\ ChargerStates[1] = "Standby"
      /\ ChargerStates[4] = "ConstantCurrent" /\ ChargerStates[8] = "StorageCharging"
      /\ ChargerStates[11] = "Discharging"
  BY DEF ChargerStates
<1>2. /\ FromCode(ChargerStates, 0) = Named("Standby")
      /\ FromCode(ChargerStates, 3) = Named("ConstantCurrent")
      /\ FromCode(ChargerStates, 7) = Named("StorageCharging")
      /\ FromCode(ChargerStates, 10) = Named("Discharging")
  BY <1>1 DEF FromCode
<1>3. /\ ~IsRunning(Named("Standby")) /\ IsRunning(Named("ConstantCurrent"))
      /\ IsRunning(Named("StorageCharging")) /\ IsRunning(Named("Discharging"))
  BY DEF IsRunning, Named
<1> QED
  BY <1>2, <1>3

LEMMA UnknownChemistry == FromCode(BatteryKinds, 9) = Unnamed(9)
  BY BatteryTable DEF FromCode

\* What AsTold says of each kind.
TaskShown(t, s) ==
  IF t = NothingTold THEN s.battery = Unnamed(9)
  ELSE IF t.by = "stop" THEN ~IsRunning(s.state)
  ELSE /\ s.battery = t.battery /\ s.link = t.link /\ s.cells = t.cells
       /\ s.current_ma = t.current_ma /\ s.volt_mv = t.volt_mv
       /\ IsRunning(s.state)

LEMMA TaskReported ==
  ASSUME NEW r, NEW task, NEW limits, WorkReported(r, task, limits), NEW t, TaskMeant(t, task)
  PROVE  TaskShown(t, ShownWork(r))
<1>1. PICK code \in {0, 3, 7, 10} : /\ WorkTells(r, code, task, limits)
                                    /\ task[2] \in 0 .. 3 => (code = 0 <=> task[2] = 3)
  BY DEF WorkReported
<1>2. PICK s : s = ShownWork(r)
  OBVIOUS
<1>3. /\ s.battery = FromCode(BatteryKinds, task[3]) /\ s.link = FromCode(LinkTypes, task[4])
      /\ s.state = FromCode(ChargerStates, code) /\ s.cells = task[9]
      /\ s.volt_mv = FromLE(SubSeq(task, 10, 11)) /\ s.current_ma = FromLE(SubSeq(task, 5, 8))
  <2>1. PICK battery, link, state, current, cells, volt :
          /\ battery = FromCode(BatteryKinds, Value(r, "battery"))
          /\ link = FromCode(LinkTypes, Value(r, "link"))
          /\ state = FromCode(ChargerStates, Value(r, "state"))
          /\ current = Value(r, "current_ma") /\ cells = Value(r, "cells")
          /\ volt = Value(r, "volt_mv")
    OBVIOUS
  <2>2. s = [battery |-> battery, link |-> link, state |-> state, current_ma |-> current,
             cells |-> cells, volt_mv |-> volt]
    BY <1>2, <2>1 DEF ShownWork
  <2>3. /\ s.battery = battery /\ s.link = link /\ s.state = state /\ s.current_ma = current
        /\ s.cells = cells /\ s.volt_mv = volt
    BY <2>2
  <2> QED
    BY <1>1, <2>1, <2>3, Zenon DEF WorkTells
<1>4. CASE t = NothingTold
  <2>1. s.battery = Unnamed(9)
    BY <1>3, <1>4, UnknownChemistry DEF TaskMeant
  <2> QED
    BY <1>2, <1>4, <2>1 DEF TaskShown
<1>5. CASE t # NothingTold
  <2>1. task[2] \in 0 .. 3 /\ (task[2] = 3 <=> t.by = "stop")
    BY <1>5, Zenon DEF TaskMeant
  <2>2. IsRunning(s.state) <=> t.by # "stop"
    <3>1. IsRunning(FromCode(ChargerStates, code)) <=> code # 0
      BY RunningCodes
    <3>2. code = 0 <=> t.by = "stop"
      BY <1>1, <2>1
    <3> QED
      BY <1>3, <3>1, <3>2, Zenon
  <2>3. t.by # "stop" =>
          /\ s.battery = t.battery /\ s.link = t.link /\ s.cells = t.cells
          /\ s.current_ma = t.current_ma /\ s.volt_mv = t.volt_mv
    BY <1>3, <1>5, Zenon DEF TaskMeant
  <2>4. TaskShown(t, s)
    BY <1>5, <2>2, <2>3, Zenon DEF TaskShown
  <2> QED
    BY <1>2, <2>4
<1> QED
  BY <1>4, <1>5

LEMMA CutoffReported ==
  ASSUME NEW r, NEW task, NEW limits, WorkReported(r, task, limits), NEW t, t # NothingTold,
         LimitsMeant(t, limits), t.volt <= 65
  PROVE  Value(r, "min_input_mv") = t.volt * 1000
<1>1. Value(r, "min_input_mv") = FromLE(SubSeq(limits, 1, 2))
  BY Zenon DEF WorkReported, WorkTells
<1>2. t.volt \in Nat /\ FromLE(SubSeq(limits, 1, 2)) = Millivolts(t.volt)
  BY DEF LimitsMeant
<1>3. PICK v \in Nat : v = t.volt /\ v <= 65
  BY <1>2
<1>4. Millivolts(v) = v * 1000
  BY <1>3, SMT DEF Millivolts
<1> QED
  BY <1>1, <1>2, <1>3, <1>4

LEMMA ProfileReported ==
  ASSUME NEW r, NEW b, ProfileTells(r, b), NEW t, t # NothingTold, ProfileMeant(t, b)
  PROVE  ShownProfile(r) = t.profile
<1>1. t.profile = Profile(b[1] # 0, FromCode(BatteryKinds, b[2]), b[3],
                          FromLE(SubSeq(b, 4, 5)), FromLE(SubSeq(b, 6, 9)))
  BY Zenon DEF ProfileMeant
<1> QED
  BY <1>1, Zenon DEF ProfileTells, ShownProfile

LEMMA BattgoReported ==
  ASSUME NEW r, NEW b, BattgoTells(r, b), NEW t, t # NothingTold, BattgoMeant(t, b),
         NEW name \in {"channel", "current_ma", "store_mv", "volt_mv", "days"}
  PROVE  Value(r, name) = t.args[name]
<1>1. /\ t.args["channel"] = Value(r, "channel")
      /\ t.args["current_ma"] = Value(r, "current_ma")
      /\ t.args["store_mv"] = Value(r, "store_mv") /\ t.args["volt_mv"] = Value(r, "volt_mv")
      /\ t.args["days"] = Value(r, "days")
  BY Zenon DEF BattgoTells, BattgoMeant
<1> QED
  BY <1>1, Zenon

LEMMA StepShowsWhatWasTold ==
  ASSUME MirrorInv, Next
  PROVE  AsTold
<1>1. /\ TaskMeant(told["SetTask"], memory["SetTask"])
      /\ LimitsMeant(told["SetLimitParameters"], memory["SetLimitParameters"])
      /\ ProfileMeant(told["SetOneKeyLaunch"], memory["SetOneKeyLaunch"])
      /\ BattgoMeant(told["BattgoWriteParameters"], memory["BattgoWriteParameters"])
  <2>1. \A k \in Setters : Meant(k, told[k], memory[k])
    BY DEF MirrorInv
  <2> QED
    BY <2>1 DEF Meant, Setters
<1>2. ASSUME NEW k, Understood(k)
      PROVE  Understand /\ request.kind = k /\ last'.parsed.known
  BY <1>2, OnlyUnderstandEnds DEF Understood
<1>3. ASSUME Understood("WorkState")
      PROVE  WorkReported(last'.parsed, memory["SetTask"], memory["SetLimitParameters"])
  BY <1>2, <1>3, WorkUnderstood
<1>4. ASSUME Understood("WorkState")
      PROVE  TaskShown(told["SetTask"], ShownWork(last'.parsed))
  BY <1>1, <1>3, <1>4, TaskReported
<1>5. ASSUME Understood("WorkState"), told["SetLimitParameters"] # NothingTold,
             told["SetLimitParameters"].volt <= 65
      PROVE  Value(last'.parsed, "min_input_mv") = told["SetLimitParameters"].volt * 1000
  BY <1>1, <1>3, <1>5, CutoffReported
<1>6. ASSUME Understood("OneKeyLaunch"), told["SetOneKeyLaunch"] # NothingTold
      PROVE  ShownProfile(last'.parsed) = told["SetOneKeyLaunch"].profile
  <2>1. ProfileTells(last'.parsed, memory["SetOneKeyLaunch"])
    BY <1>2, <1>6, ProfileUnderstood
  <2> QED
    BY <1>1, <1>6, <2>1, ProfileReported
<1>7. ASSUME Understood("BattgoReadParameters"), told["BattgoWriteParameters"] # NothingTold,
             NEW name \in {"channel", "current_ma", "store_mv", "volt_mv", "days"}
      PROVE  Value(last'.parsed, name) = told["BattgoWriteParameters"].args[name]
  <2>1. BattgoTells(last'.parsed, memory["BattgoWriteParameters"])
    BY <1>2, <1>7, BattgoUnderstood
  <2> QED
    BY <1>1, <1>7, <2>1, BattgoReported
<1> QED
  BY <1>4, <1>5, <1>6, <1>7 DEF AsTold, TaskShown

\* Whatever is typed, whatever length the replies have: a task, a cutoff (up to
\* 65 V), a profile and a battery are shown as they were set, and of a stop that
\* nothing runs.
THEOREM SettingsReadBack == Spec => ReadBack
<1>1. MirrorInv /\ [Next]_vars => MirrorInv'
  BY MirrorNext
<1>2. MirrorInv /\ [Next]_vars => [AsTold]_vars
  BY StepShowsWhatWasTold
<1> QED
  BY <1>1, <1>2, MirrorInit, PTL DEF Spec, ReadBack
=============================================================================
