--------------------------- MODULE BindingProofs ---------------------------
(***************************************************************************)
(* Proofs about Binding, for any windows, any runs of the command line, any*)
(* finite set of chargers and any bounds.                                  *)
(***************************************************************************)
EXTENDS Binding, TLAPS, SequenceTheorems, FiniteSetTheorems, WellFoundedInduction

Phases == {"closed", "search", "ready", "asked", "truncate", "write", "dead", "lost"}
Tasks == [charger : Nat, token : Nat, op : {"bind", "use"}, once : BOOLEAN,
          given : Nat, took : BOOLEAN]

Asks(p) == phase[p] \in {"asked", "truncate", "write"}

\* A shell's task, from its start, is about a charger.
TypeInv ==
  /\ TypeOK
  /\ phase \in [Programs -> Phases]
  /\ task \in [Programs -> Tasks]
  /\ \A p \in Programs : task[p].given \in {NoToken} \union Tokens
  /\ \A p \in Shells : phase[p] # "closed" => task[p].charger \in Chargers
  /\ DOMAIN store = Programs
  /\ \A p \in Programs : store[p] \in [DOMAIN store[p] -> Tokens]
  /\ minted \in 0 .. MaxTokens
  /\ seen \in [Programs -> Nat] /\ saves \in Nat
-----------------------------------------------------------------------------
(* What the saves of the two programs have to do with each other           *)

W == {p \in Programs : phase[p] = "write"}

\* A charger has taken an identifier that p has not put on disk yet.
PendingBy(p, c) ==
  /\ phase[p] \in {"asked", "truncate"}
  /\ task[p].charger = c /\ task[p].op = "bind"
  /\ task[p].took /\ task[p].token = held[c]
Pending(c) == \E p \in Programs : PendingBy(p, c)

\* A charger whose line must be on disk.
Due(c) == held[c] \in Tokens /\ c \notin excused /\ ~Pending(c)

\* A line that the copy of p need not have: a shell keeps none of what it binds.
Own(p, c) == task[p].charger = c /\ (p \in Shells \/ phase[p] = "write")

\* Without a save under way, every due line is on disk.
OnDisk == W = {} => \A c \in Chargers : Due(c) => GetToken(Load(file), c) = held[c]

\* A copy as recent as the last save has every due line, as long as no other
\* program is about to write.
Recent ==
  \A p \in Programs : seen[p] = saves =>
    \/ \E q \in W : q # p
    \/ \A c \in Chargers : (Due(c) /\ ~Own(p, c)) => GetToken(store[p], c) = held[c]

\* One that is about to be written over another is known to be a mishap.
Alone == \A p \in W : seen[p] = saves => file = <<>> \/ excused = Chargers

\* What is saved was accepted, for a bind; a window has it in its copy.
Told ==
  \A p \in Programs : phase[p] \in {"truncate", "write"} =>
    /\ task[p].op = "bind"
    /\ p \in Windows => GetToken(store[p], task[p].charger) = task[p].token

Counted == saves >= 1 /\ \A p \in Programs : seen[p] <= saves

BindInv == OnDisk /\ Recent /\ Alone /\ Told /\ Counted

\* The identifiers that were accepted, or answered by another's answer.
Credited == accepted \union mistaken

\* An identifier that is to be saved is one of these, and an answer that says
\* so of an identifier says it of one that was accepted.
Accepted ==
  /\ StoredUnlessStale
  /\ \A p \in Programs : phase[p] \in {"truncate", "write"} =>
       <<task[p].charger, task[p].token>> \in Credited
  /\ \A c \in Chargers : \A i \in DOMAIN answers[c] :
       answers[c][i].bound => <<c, answers[c][i].token>> \in accepted
-----------------------------------------------------------------------------
(* Sets of numbers                                                         *)

Less == {p \in Nat \X Nat : p[1] < p[2]}

LEMMA LessIsWellFounded == IsWellFoundedOn(Less, Nat)
<1>1. Less = OpToRel(<, Nat)
  BY Zenon DEF Less, OpToRel
<1> QED
  BY <1>1, NatLessThanWellFounded, Zenon

\* A set of numbers that is not empty has a least element.
LEMMA Least ==
  ASSUME NEW S \in SUBSET Nat, S # {}
  PROVE  \E x \in S : \A y \in S : x <= y
<1>1. PICK x \in S : \A y \in S : ~ (<<y, x>> \in Less)
  BY LessIsWellFounded, WFMin, Zenon
<1>2. \A y \in S : y < x => <<y, x>> \in Less
  BY DEF Less
<1>3. \A y \in S : ~ (y < x)
  BY <1>1, <1>2, Zenon
<1>4. \A y \in S : y \in Nat
  OBVIOUS
<1> QED
  BY <1>3, <1>4

\* Induction, for a set of numbers.
LEMMA Induction ==
  ASSUME NEW S \in SUBSET Nat, 0 \in S, \A n \in S : n + 1 \in S
  PROVE  S = Nat
<1> SUFFICES ASSUME Nat \ S # {} PROVE FALSE
  OBVIOUS
<1>1. PICK x \in Nat \ S : \A y \in Nat \ S : x <= y
  BY Least, Zenon
<1>2. x - 1 \in Nat /\ x - 1 \notin S
  BY <1>1
<1> QED
  BY <1>1, <1>2

Rising(s, S) == \A i, j \in DOMAIN s : i < j => s[i] < s[j]

LEMMA RisingIsInjective ==
  ASSUME NEW S \in SUBSET Nat, NEW n \in Nat, NEW s \in [1 .. n -> S], Rising(s, S)
  PROVE  s \in Injection(1 .. n, S)
<1> SUFFICES ASSUME NEW a \in 1 .. n, NEW b \in 1 .. n, a < b
             PROVE  s[a] # s[b]
  BY DEF Injection, IsInjective
<1>1. s[a] \in S /\ s[b] \in S /\ s[a] < s[b]
  BY DEF Rising
<1>2. s[a] \in Nat /\ s[b] \in Nat
  BY <1>1
<1> QED
  BY <1>1, <1>2

\* Every finite set of numbers has its elements in order.
LEMMA Ordered ==
  ASSUME NEW S \in SUBSET Nat, IsFiniteSet(S)
  PROVE  \E s \in [1 .. Cardinality(S) -> S] : Rising(s, S)
<1> DEFINE Has(T) == \E s \in [1 .. Cardinality(T) -> T] : Rising(s, T)
           N == {n \in Nat : \A T \in SUBSET Nat :
                               (IsFiniteSet(T) /\ Cardinality(T) = n) => Has(T)}
<1>1. 0 \in N
  <2> SUFFICES ASSUME NEW T \in SUBSET Nat, IsFiniteSet(T), Cardinality(T) = 0
               PROVE  Has(T)
    OBVIOUS
  <2>1. T = {}
    BY FS_EmptySet
  <2>2. [i \in 1 .. 0 |-> 0] \in [1 .. Cardinality(T) -> T]
    OBVIOUS
  <2>3. Rising([i \in 1 .. 0 |-> 0], T)
    BY DEF Rising
  <2> QED
    BY <2>2, <2>3
<1>2. \A n \in N : n + 1 \in N
  <2> SUFFICES ASSUME NEW n \in N,
                      NEW T \in SUBSET Nat, IsFiniteSet(T), Cardinality(T) = n + 1
               PROVE  Has(T)
    OBVIOUS
  <2>1. n \in Nat
    OBVIOUS
  <2>2. T # {}
    BY <2>1, FS_EmptySet
  <2>3. PICK x \in T : \A y \in T : x <= y
    BY <2>2, Least, Zenon
  <2>4. IsFiniteSet(T \ {x}) /\ Cardinality(T \ {x}) = n
    BY <2>1, FS_RemoveElement
  <2>5. PICK s \in [1 .. n -> T \ {x}] : Rising(s, T \ {x})
    BY <2>4
  <2> DEFINE r == [i \in 1 .. n + 1 |-> IF i = 1 THEN x ELSE s[i - 1]]
  <2>6. r \in [1 .. n + 1 -> T]
    BY <2>1
  <2>7. \A i \in 2 .. n + 1 : r[i] = s[i - 1] /\ i - 1 \in 1 .. n /\ r[i] \in T \ {x}
    BY <2>1
  <2>8. Rising(r, T)
    <3> SUFFICES ASSUME NEW i \in 1 .. n + 1, NEW j \in 1 .. n + 1, i < j
                 PROVE  r[i] < r[j]
      BY DEF Rising
    <3>1. CASE i = 1
      <4>1. r[i] = x /\ r[j] \in T \ {x} /\ x <= r[j] /\ x \in Nat /\ r[j] \in Nat
        <5>1. j \in 2 .. n + 1
          BY <3>1, <2>1
        <5>2. r[i] = x /\ r[j] \in T \ {x}
          BY <3>1, <5>1, <2>1, <2>7
        <5>3. \A y \in T : y \in Nat
          OBVIOUS
        <5> HIDE DEF r
        <5> QED
          BY <5>2, <5>3, <2>3
      <4> QED
        BY <4>1
    <3>2. CASE i # 1
      BY <3>2, <2>1, <2>5, <2>7 DEF Rising
    <3> QED
      BY <3>1, <3>2
  <2> QED
    BY <2>6, <2>8
<1>3. N = Nat
  <2> HIDE DEF N
  <2> QED
    BY <1>1, <1>2, Induction DEF N
<1>4. Cardinality(S) \in N
  BY <1>3, FS_CardinalityType
<1> QED
  BY <1>4

\* A finite set of numbers that is not empty has a greatest element.
LEMMA Greatest ==
  ASSUME NEW S \in SUBSET Nat, IsFiniteSet(S), S # {}
  PROVE  \E x \in S : \A y \in S : x >= y
<1>1. PICK s \in [1 .. Cardinality(S) -> S] : Rising(s, S)
  BY Ordered
<1>2. Cardinality(S) \in Nat /\ Cardinality(S) # 0
  BY FS_CardinalityType, FS_EmptySet
<1>3. s \in Injection(1 .. Cardinality(S), S)
  BY <1>1, <1>2, RisingIsInjective
<1>4. s \in Surjection(1 .. Cardinality(S), S)
  BY <1>2, <1>3, FS_Injection, FS_Interval
<1> DEFINE n == Cardinality(S)
<1> HIDE DEF n
<1>5. s[n] \in S /\ \A i \in 1 .. n : s[n] >= s[i]
  <2>1. n \in Nat /\ n # 0 /\ s \in [1 .. n -> S]
    BY <1>1, <1>2 DEF n
  <2>2. n \in 1 .. n
    BY <2>1
  <2>3. \A i \in 1 .. n : s[i] \in S /\ (i < n => s[i] < s[n])
    <3>1. DOMAIN s = 1 .. n /\ \A i \in 1 .. n : s[i] \in S
      BY <2>1
    <3>2. Rising(s, S) => \A i \in 1 .. n : i < n => s[i] < s[n]
      BY <3>1, <2>2 DEF Rising
    <3> QED
      BY <1>1, <3>1, <3>2
  <2>4. \A i \in 1 .. n : s[i] \in Nat
    BY <2>3
  <2>5. \A i \in 1 .. n : s[n] >= s[i]
    BY <2>1, <2>2, <2>3, <2>4
  <2> QED
    BY <2>2, <2>3, <2>5
<1> QED
  BY <1>4, <1>5 DEF Surjection, n
-----------------------------------------------------------------------------
(* Maps, and the text they are written as                                  *)

LEMMA InOrderIsAll ==
  ASSUME NEW S \in SUBSET Nat, IsFiniteSet(S)
  PROVE  /\ Cardinality(S) \in Nat
         /\ InOrder(S) \in [1 .. Cardinality(S) -> S]
         /\ Rising(InOrder(S), S)
         /\ \A x \in S : \E i \in 1 .. Cardinality(S) : InOrder(S)[i] = x
<1>1. Cardinality(S) \in Nat
  BY FS_CardinalityType
<1>2. InOrder(S) \in [1 .. Cardinality(S) -> S] /\ Rising(InOrder(S), S)
  BY Ordered DEF InOrder, Rising
<1> DEFINE s == InOrder(S)
<1> HIDE DEF s
<1>3. s \in Injection(1 .. Cardinality(S), S)
  BY <1>1, <1>2, RisingIsInjective DEF s
<1>4. s \in Surjection(1 .. Cardinality(S), S)
  BY <1>1, <1>3, FS_Injection, FS_Interval
<1> QED
  BY <1>1, <1>2, <1>4 DEF Surjection, s
\* The map a that st becomes when the token of c is set.
WithToken(a, st, D, T, c, t) ==
  /\ a \in [D \union {c} -> T]
  /\ GetToken(a, c) = t
  /\ \A d : d # c => GetToken(a, d) = GetToken(st, d)
  /\ \A d \in D \union {c} : a[d] = IF d = c THEN t ELSE st[d]

LEMMA GetSetToken ==
  ASSUME NEW D, NEW T, NEW st \in [D -> T], NEW c, NEW t \in T
  PROVE  WithToken(SetToken(st, c, t), st, D, T, c, t)
  BY DEF SetToken, GetToken, WithToken

\* A map loaded from the lines f has, for each of their chargers, one of its
\* lines.
LoadedFrom(f, D, T) ==
  /\ Load(f) \in [DOMAIN Load(f) -> T]
  /\ DOMAIN Load(f) = {f[i].charger : i \in DOMAIN f}
  /\ DOMAIN Load(f) \subseteq D
  /\ \A d \in DOMAIN Load(f) :
       \E i \in DOMAIN f : f[i].charger = d /\ f[i].token = Load(f)[d]

LEMMA LoadOfLines ==
  ASSUME NEW D, NEW T, NEW f \in Seq([charger : D, token : T])
  PROVE  LoadedFrom(f, D, T)
<1> DEFINE at(d) == {i \in DOMAIN f : f[i].charger = d}
           K == {f[i].charger : i \in DOMAIN f}
<1>1. DOMAIN f = 1 .. Len(f) /\ Len(f) \in Nat
  OBVIOUS
<1>2. Load(f) = [d \in K |-> f[Max(at(d))].token]
  BY DEF Load
<1>3. \A d \in K : Max(at(d)) \in DOMAIN f /\ f[Max(at(d))].charger = d
  <2> SUFFICES ASSUME NEW d \in K
               PROVE  Max(at(d)) \in at(d)
    OBVIOUS
  <2>1. at(d) # {} /\ at(d) \in SUBSET Nat
    BY <1>1
  <2>2. IsFiniteSet(at(d))
    <3>1. IsFiniteSet(1 .. Len(f)) /\ at(d) \in SUBSET (1 .. Len(f))
      BY <1>1, FS_Interval
    <3> HIDE DEF at
    <3> QED
      BY <3>1, FS_Subset
  <2>3. \E x \in at(d) : \A y \in at(d) : x >= y
    <3> HIDE DEF at
    <3> QED
      BY <2>1, <2>2, Greatest
  <2> QED
    BY <2>3 DEF Max
<1>4. \A i \in DOMAIN f : f[i].charger \in D /\ f[i].token \in T
  <2>1. \A i \in DOMAIN f : f[i] \in [charger : D, token : T]
    BY <1>1, ElementOfSeq
  <2> QED
    BY <2>1
<1> HIDE DEF at
<1> QED
  BY <1>2, <1>3, <1>4 DEF LoadedFrom

\* The text of a map has a line for each of its keys, and loads as the map.
TextOf(f, D, T, st) ==
  /\ f \in Seq([charger : D, token : T])
  /\ Len(f) = Cardinality(D)
  /\ \A i \in DOMAIN f : f[i].charger \in D /\ f[i].token = st[f[i].charger]
  /\ \A d : GetToken(Load(f), d) = GetToken(st, d)

LEMMA LoadOfText ==
  ASSUME NEW D \in SUBSET Nat, IsFiniteSet(D), NEW T, NEW st \in [D -> T], NEW c
  PROVE  TextOf(Lines(st, c), D, T, st)
<1> DEFINE n == Cardinality(D)
           s == InOrder(D)
           f == Lines(st, c)
<1>1. /\ n \in Nat /\ s \in [1 .. n -> D]
      /\ \A x \in D : \E i \in 1 .. n : s[i] = x
  BY InOrderIsAll
<1>2. f = [i \in 1 .. n |-> [charger |-> s[i], token |-> st[s[i]]]]
  <2>1. DOMAIN st = D /\ DOMAIN s = 1 .. n
    BY <1>1
  <2> HIDE DEF s
  <2> QED
    BY <2>1 DEF Lines, s
<1> HIDE DEF n, s, f
<1>3. f \in Seq([charger : D, token : T]) /\ Len(f) = n /\ DOMAIN f = 1 .. n
  <2>1. \A i \in 1 .. n : f[i] \in [charger : D, token : T]
    BY <1>1, <1>2
  <2>2. f = [i \in 1 .. n |-> f[i]]
    BY <1>2
  <2>3. [i \in 1 .. n |-> f[i]] \in Seq([charger : D, token : T])
    BY <1>1, <2>1, IsASeq
  <2>4. f \in Seq([charger : D, token : T])
    BY <2>2, <2>3, Zenon
  <2>5. DOMAIN f = 1 .. n
    BY <1>2
  <2>6. Len(f) = n
    BY <1>1, <1>2
  <2> QED
    BY <2>4, <2>5, <2>6
<1>4. \A i \in DOMAIN f : f[i].charger = s[i] /\ f[i].token = st[f[i].charger]
  BY <1>1, <1>2
<1>5. DOMAIN Load(f) = D
  <2>1. {f[i].charger : i \in DOMAIN f} = D
    BY <1>1, <1>3, <1>4
  <2> QED
    BY <1>3, <2>1, LoadOfLines DEF LoadedFrom
<1>6. \A d \in D : Load(f)[d] = st[d]
  <2>1. f \in Seq([charger : D, token : T])
    BY <1>3
  <2>2. \A d \in DOMAIN Load(f) :
          \E i \in DOMAIN f : f[i].charger = d /\ f[i].token = Load(f)[d]
    <3>1. LoadedFrom(f, D, T)
      BY <2>1, LoadOfLines
    <3> QED
      BY <3>1 DEF LoadedFrom
  <2> QED
    BY <2>2, <1>4, <1>5
<1>7. \A d : GetToken(Load(f), d) = GetToken(st, d)
  BY <1>5, <1>6 DEF GetToken
<1> QED
  BY <1>1, <1>3, <1>4, <1>7 DEF f, n, TextOf

\* What h has of a file f that a text g was written over.
Overwritten(h, f, g, S) ==
  /\ h \in Seq(S)
  /\ Len(h) = IF Len(f) > Len(g) THEN Len(f) ELSE Len(g)
  /\ \A i \in DOMAIN h : \/ i \in DOMAIN g /\ h[i] = g[i]
                         \/ i \in DOMAIN f /\ h[i] = f[i]
  /\ f = <<>> => h = g

LEMMA OverOfText ==
  ASSUME NEW S, NEW f \in Seq(S), NEW g \in Seq(S)
  PROVE  Overwritten(Over(f, g), f, g, S)
<1> DEFINE h == SubSeq(f, Len(g) + 1, Len(f))
<1>1. Len(f) \in Nat /\ Len(g) \in Nat
  OBVIOUS
<1>2. /\ h \in Seq(S)
      /\ Len(h) = IF Len(f) > Len(g) THEN Len(f) - Len(g) ELSE 0
      /\ \A i \in 1 .. Len(h) : h[i] = f[Len(g) + i] /\ Len(g) + i \in DOMAIN f
  BY <1>1, SubSeqProperties
<1>3. Over(f, g) = g \o h
  BY DEF Over
<1> HIDE DEF h
<1>4. /\ g \o h \in Seq(S) /\ Len(g \o h) = Len(g) + Len(h)
      /\ \A i \in 1 .. Len(g) : (g \o h)[i] = g[i]
      /\ \A i \in 1 .. Len(h) : (g \o h)[Len(g) + i] = h[i]
  BY <1>1, <1>2, ConcatProperties
<1>5. \A i \in DOMAIN (g \o h) :
        \/ i \in DOMAIN g /\ (g \o h)[i] = g[i]
        \/ i \in DOMAIN f /\ (g \o h)[i] = f[i]
  <2> SUFFICES ASSUME NEW i \in 1 .. Len(g) + Len(h), i \notin 1 .. Len(g)
               PROVE  i \in DOMAIN f /\ (g \o h)[i] = f[i]
    BY <1>4
  <2>1. i - Len(g) \in 1 .. Len(h) /\ Len(g) + (i - Len(g)) = i
    BY <1>1, <1>2
  <2> QED
    BY <2>1, <1>2, <1>4
<1>6. f = <<>> => g \o h = g
  <2> HAVE f = <<>>
  <2>1. Len(h) = 0
    BY <1>1, <1>2
  <2>2. h = <<>>
    BY <1>2, <2>1, EmptySeq
  <2> QED
    BY <2>2
<1> QED
  BY <1>1, <1>2, <1>3, <1>4, <1>5, <1>6 DEF Overwritten
-----------------------------------------------------------------------------
(* The types                                                               *)

\* What a program that saves is about to write.
Written(p, text) ==
  /\ text \in Seq(Line) /\ Len(text) <= Cardinality(Chargers)
  /\ \A i \in DOMAIN text :
       \/ text[i].charger = task[p].charger /\ text[i].token = task[p].token
       \/ /\ text[i].charger \in DOMAIN store[p]
          /\ text[i].token = store[p][text[i].charger]
  /\ GetToken(Load(text), task[p].charger) = task[p].token
  /\ \A d : d # task[p].charger => GetToken(Load(text), d) = GetToken(store[p], d)

LEMMA TextWritten ==
  ASSUME TypeInv, NEW p \in Programs, Asks(p)
  PROVE  Written(p, Text(p))
<1> DEFINE c == task[p].charger
           t == task[p].token
           D == DOMAIN store[p]
           st == SetToken(store[p], c, t)
<1>1. /\ c \in Chargers /\ t \in Tokens /\ D \subseteq Chargers
      /\ store[p] \in [D -> Tokens]
  BY DEF TypeInv, TypeOK, Asks
<1> HIDE DEF c, t, D
<1>2. /\ st \in [D \union {c} -> Tokens]
      /\ GetToken(st, c) = t
      /\ \A d : d # c => GetToken(st, d) = GetToken(store[p], d)
      /\ \A d \in D \union {c} : st[d] = IF d = c THEN t ELSE store[p][d]
  <2>1. WithToken(st, store[p], D, Tokens, c, t)
    BY <1>1, GetSetToken
  <2> HIDE DEF st
  <2> QED
    BY <2>1 DEF WithToken
<1>3. D \union {c} \in SUBSET Chargers
  BY <1>1
<1>4. /\ IsFiniteSet(D \union {c}) /\ D \union {c} \in SUBSET Nat
      /\ Cardinality(D \union {c}) <= Cardinality(Chargers)
  BY <1>3, FS_Subset, ChargersAssumption
<1> HIDE DEF st
<1>5. TextOf(Lines(st, c), D \union {c}, Tokens, st)
  BY <1>2, <1>4, LoadOfText
<1>6. Text(p) = Lines(st, c)
  BY DEF Text, st, c, t
<1> HIDE DEF TextOf
<1>7. TextOf(Text(p), D \union {c}, Tokens, st)
  BY <1>5, <1>6
<1>8. Text(p) \in Seq([charger : D \union {c}, token : Tokens])
  BY <1>7 DEF TextOf
<1>9. Text(p) \in Seq(Line)
  <2>1. \A i \in 1 .. Len(Text(p)) : Text(p)[i] \in [charger : D \union {c}, token : Tokens]
    BY <1>8, ElementOfSeq
  <2>2. \A i \in 1 .. Len(Text(p)) : Text(p)[i] \in Line
    BY <2>1, <1>3 DEF Line
  <2> QED
    BY <1>8, <2>2
<1> QED
  BY <1>2, <1>4, <1>7, <1>9 DEF TextOf, Written, c, t, D

LEMMA LoadedTypes ==
  ASSUME TypeInv
  PROVE  LoadedFrom(file, Chargers, Tokens)
<1>1. file \in Seq([charger : Chargers, token : Tokens])
  BY DEF TypeInv, TypeOK, Line
<1> QED
  BY <1>1, LoadOfLines

LEMMA TypesAtFirst == Init => TypeInv
<1> SUFFICES ASSUME Init PROVE TypeInv
  OBVIOUS
<1> USE DEF Init, Programs, Foreign, NoTask, NoToken, NoEntries
<1>1. Cardinality(Chargers) \in Nat
  BY FS_CardinalityType, ChargersAssumption
<1>2. file \in Seq(Line) /\ Len(file) <= Cardinality(Chargers)
  BY <1>1
<1>3. TypeOK
  BY <1>2 DEF TypeOK
<1> QED
  BY <1>3, BoundsAssumption DEF TypeInv, Phases, Tasks

\* A step of program p that changes its phase, and excuses chargers.
LEMMA PhaseTypes ==
  ASSUME TypeInv, NEW p \in Programs, NEW x \in Phases, NEW E \in SUBSET Chargers,
         phase' = [phase EXCEPT ![p] = x], excused' = excused \union E,
         x \in {"asked", "truncate", "write"} => Asks(p),
         x # "closed" => phase[p] # "closed" \/ p \notin Shells,
         UNCHANGED <<store, task, charger, answers, minted, seen, saves>>,
         file' \in Seq(Line), Len(file') <= Cardinality(Chargers)
  PROVE  TypeInv'
  BY DEF TypeInv, TypeOK, Asks, Phases, charger

\* Losing the first answers.
LEMMA NewClientTypes ==
  ASSUME TypeInv, NEW c \in Chargers, NewClient(c)
  PROVE  /\ answers' \in [Chargers -> Seq(Answers)]
         /\ \A d \in Chargers : \A i \in DOMAIN answers'[d] :
              \E j \in DOMAIN answers[d] : answers'[d][i] = answers[d][j]
<1>1. answers \in [Chargers -> Seq(Answers)]
  BY DEF TypeInv, TypeOK
<1>2. PICK n \in 0 .. Len(answers[c]) :
        answers' = [answers EXCEPT ![c] = SubSeq(@, n + 1, Len(@))]
  BY DEF NewClient
<1> DEFINE old == answers[c]
           new == SubSeq(old, n + 1, Len(old))
<1>3. old \in Seq(Answers) /\ Len(old) \in Nat /\ DOMAIN old = 1 .. Len(old)
  BY <1>1
<1> HIDE DEF old
<1>4. n \in 0 .. Len(old)
  BY DEF old
<1>5. /\ new \in Seq(Answers) /\ Len(new) = Len(old) - n
      /\ \A i \in 1 .. Len(new) : new[i] = old[n + i]
  <2>1. n + 1 \in Int /\ Len(old) \in Int /\ \A i \in n + 1 .. Len(old) : old[i] \in Answers
    BY <1>3, <1>4, ElementOfSeq
  <2>2. /\ new \in Seq(Answers)
        /\ Len(new) = IF n + 1 <= Len(old) THEN Len(old) - (n + 1) + 1 ELSE 0
        /\ \A i \in 1 .. Len(old) - (n + 1) + 1 : new[i] = old[n + 1 + i - 1]
    BY <2>1, SubSeqProperties
  <2> HIDE DEF new
  <2>3. PICK k \in Nat : k = Len(old)
    BY <1>3
  <2>4. PICK l : l = Len(new)
    OBVIOUS
  <2>5. n \in 0 .. k /\ l = IF n + 1 <= k THEN k - (n + 1) + 1 ELSE 0
    BY <1>4, <2>2, <2>3, <2>4
  <2>6. l = k - n /\ k - (n + 1) + 1 = k - n /\ n \in Nat
    BY <2>3, <2>5
  <2>7. \A i \in 1 .. k - n : n + 1 + i - 1 = n + i
    BY <2>3, <2>6
  <2>8. \A i \in 1 .. k - n : new[i] = old[n + i]
    BY <2>2, <2>3, <2>6, <2>7
  <2> QED
    BY <2>2, <2>3, <2>4, <2>6, <2>8
<1>6. DOMAIN new = 1 .. Len(new)
  BY <1>5
<1> HIDE DEF new
<1>7. \A i \in DOMAIN new : n + i \in DOMAIN old /\ new[i] = old[n + i]
  BY <1>3, <1>4, <1>5, <1>6
<1>8. answers' = [answers EXCEPT ![c] = new]
  BY <1>2 DEF new, old
<1> QED
  BY <1>1, <1>5, <1>7, <1>8 DEF old

LEMMA AskTypes ==
  ASSUME TypeInv, NEW p \in Programs, NEW c \in Chargers, NEW t, NEW op \in {"bind", "use"},
         NEW once \in BOOLEAN, NEW given \in {NoToken} \union Tokens,
         Minting(t), Ask(p, c, t, op, once, given),
         UNCHANGED <<store, file, charger, saves, excused, seen>>,
         answers' \in [Chargers -> Seq(Answers)]
  PROVE  TypeInv'
<1>1. t \in Tokens /\ minted' \in 0 .. MaxTokens /\ t \in Nat /\ given \in Nat /\ c \in Nat
  BY BoundsAssumption, ChargersAssumption DEF Minting, TypeInv, Tokens, NoToken
<1>2. /\ DOMAIN store' = Programs
      /\ \A q \in Programs : /\ DOMAIN store'[q] \subseteq Chargers
                             /\ store'[q] \in [DOMAIN store'[q] -> Tokens]
  BY DEF TypeInv, TypeOK
<1>3. task' \in [Programs -> Tasks]
  BY <1>1 DEF Ask, Tasks, TypeInv
<1>4. phase' \in [Programs -> Phases]
  BY DEF Ask, Phases, TypeInv
<1>5. /\ \A q \in Programs : task'[q].given \in {NoToken} \union Tokens
      /\ \A q \in Shells : phase'[q] # "closed" => task'[q].charger \in Chargers
      /\ \A q \in Programs : phase'[q] \in {"asked", "truncate", "write"} =>
           task'[q].charger \in Chargers /\ task'[q].token \in Tokens
  BY <1>1 DEF Ask, TypeInv, TypeOK, Programs, Tasks
<1>6. UNCHANGED <<file, held, binding, excused, saves>>
  BY DEF charger
<1>7. TypeOK'
  BY <1>2, <1>4, <1>5, <1>6 DEF TypeOK, TypeInv, Phases
<1> QED
  BY <1>1, <1>2, <1>3, <1>4, <1>5, <1>6, <1>7 DEF TypeInv
LEMMA HandleTypes ==
  ASSUME TypeInv, NEW p \in Programs, NEW answered \in BOOLEAN, Handle(p, answered)
  PROVE  TypeInv'
<1> DEFINE c == task[p].charger
           t == task[p].token
           bound == c \in binding \/ held[c] = t
<1>1. c \in Chargers /\ t \in Tokens
  BY DEF Handle, TypeInv, TypeOK
<1>2. /\ held' \in [Chargers -> Tokens \union {Foreign}]
      /\ binding' \subseteq Chargers /\ excused' \subseteq Chargers
  BY <1>1 DEF Handle, TypeInv, TypeOK
<1>3. task' \in [Programs -> Tasks] /\ bound \in BOOLEAN
  <2>1. bound \in BOOLEAN /\ task' = [task EXCEPT ![p].took = bound \/ @]
    BY Zenon DEF Handle
  <2>2. task \in [Programs -> Tasks] /\ task[p] \in Tasks
    BY DEF TypeInv
  <2> HIDE DEF bound
  <2>3. (bound \/ task[p].took) \in BOOLEAN
    BY Zenon
  <2>4. [task[p] EXCEPT !.took = bound \/ @] \in Tasks
    BY <2>2, <2>3 DEF Tasks
  <2> QED
    BY <2>1, <2>2, <2>4
<1>4. \A q \in Programs : /\ task'[q].charger = task[q].charger
                          /\ task'[q].token = task[q].token
                          /\ task'[q].given = task[q].given
  BY DEF Handle, TypeInv, Tasks
<1> DEFINE answer == [token |-> t, bound |-> bound]
<1>5. answers' = answers \/ answers' = [answers EXCEPT ![c] = Append(@, answer)]
  BY DEF Handle
<1>6. answer \in Answers
  <2> HIDE DEF t, bound
  <2> QED
    BY <1>1, <1>3 DEF Answers
<1>7. answers' \in [Chargers -> Seq(Answers)]
  <2>1. answers \in [Chargers -> Seq(Answers)]
    BY DEF TypeInv, TypeOK
  <2> HIDE DEF answer, c
  <2>2. answers[c] \in Seq(Answers)
    BY <1>1, <2>1
  <2>3. Append(answers[c], answer) \in Seq(Answers)
    BY <1>6, <2>2, AppendProperties
  <2> QED
    BY <1>5, <2>1, <2>3
<1>8. UNCHANGED <<phase, store, file, minted, seen, saves>>
  BY DEF Handle
<1> HIDE DEF c, t, bound
<1>9. TypeOK'
  BY <1>2, <1>4, <1>7, <1>8 DEF TypeOK, TypeInv
<1>10. \A q \in Shells : phase'[q] # "closed" => task'[q].charger \in Chargers
  BY <1>4, <1>8 DEF TypeInv, Programs
<1> QED
  BY <1>3, <1>4, <1>8, <1>9, <1>10 DEF TypeInv

\* Taking the first answer.
LEMMA TailTypes ==
  ASSUME TypeInv, NEW p \in Programs, TakeAnswer(p)
  PROVE  LET c == task[p].charger IN
         /\ answers' \in [Chargers -> Seq(Answers)]
         /\ Head(answers[c]) \in Answers
         /\ 1 \in DOMAIN answers[c] /\ Head(answers[c]) = answers[c][1]
         /\ \A d \in Chargers : \A i \in DOMAIN answers'[d] :
              \E j \in DOMAIN answers[d] : answers'[d][i] = answers[d][j]
<1> DEFINE c == task[p].charger
           old == answers[c]
           new == Tail(old)
<1>1. c \in Chargers /\ old # <<>> /\ answers' = [answers EXCEPT ![c] = new]
  BY DEF TakeAnswer, TypeInv, TypeOK
<1>2. answers \in [Chargers -> Seq(Answers)]
  BY DEF TypeInv, TypeOK
<1> HIDE DEF c
<1>3. old \in Seq(Answers)
  BY <1>1, <1>2
<1> HIDE DEF old
<1>4. Len(old) \in Nat \ {0} /\ DOMAIN old = 1 .. Len(old)
  BY <1>1, <1>3, EmptySeq
<1>5. Head(old) = old[1] /\ 1 \in DOMAIN old /\ old[1] \in Answers
  BY <1>3, <1>4, ElementOfSeq
<1>6. /\ new \in Seq(Answers) /\ Len(new) = Len(old) - 1
      /\ \A i \in 1 .. Len(new) : new[i] = old[i + 1]
  BY <1>1, <1>3, HeadTailProperties
<1>7. DOMAIN new = 1 .. Len(new)
  BY <1>6
<1> HIDE DEF new
<1>8. \A i \in DOMAIN new : i + 1 \in DOMAIN old /\ new[i] = old[i + 1]
  BY <1>4, <1>6, <1>7
<1>9. answers' \in [Chargers -> Seq(Answers)]
  BY <1>1, <1>2, <1>6
<1>10. \A d \in Chargers : \A i \in DOMAIN answers'[d] :
         \E j \in DOMAIN answers[d] : answers'[d][i] = answers[d][j]
  BY <1>1, <1>2, <1>8 DEF old
<1> QED
  BY <1>5, <1>9, <1>10 DEF old, c

LEMMA TakeTypes ==
  ASSUME TypeInv, NEW p \in Programs, TakeAnswer(p)
  PROVE  TypeInv'
<1> DEFINE c == task[p].charger
           t == task[p].token
<1>1. c \in Chargers /\ t \in Tokens
  BY DEF TakeAnswer, TypeInv, TypeOK
<1>2. excused' \subseteq Chargers
  BY <1>1 DEF TakeAnswer, TypeInv, TypeOK
<1>3. answers' \in [Chargers -> Seq(Answers)]
  BY TailTypes
<1>4. UNCHANGED <<task, file, held, binding, minted, seen, saves>>
  BY DEF TakeAnswer, charger
<1> DEFINE st == SetToken(store[p], c, t)
<1>5. store' = store \/ store' = [store EXCEPT ![p] = st]
  BY DEF TakeAnswer, Hears
<1>6. DOMAIN st \subseteq Chargers /\ st \in [DOMAIN st -> Tokens]
  <2>1. store[p] \in [DOMAIN store[p] -> Tokens] /\ DOMAIN store[p] \subseteq Chargers
    BY DEF TypeInv, TypeOK
  <2>2. WithToken(st, store[p], DOMAIN store[p], Tokens, c, t)
    BY <1>1, <2>1, GetSetToken
  <2> HIDE DEF st, c, t
  <2> QED
    BY <1>1, <2>1, <2>2 DEF WithToken
<1>7. /\ DOMAIN store' = Programs
      /\ \A q \in Programs : /\ DOMAIN store'[q] \subseteq Chargers
                             /\ store'[q] \in [DOMAIN store'[q] -> Tokens]
  <2> HIDE DEF st, c, t
  <2> QED
    BY <1>5, <1>6 DEF TypeInv, TypeOK
<1>8. \E x \in Phases \ {"asked", "write"} : phase' = [phase EXCEPT ![p] = x]
  BY DEF TakeAnswer, Hears, Phases, After, Failed
<1>9. /\ phase' \in [Programs -> Phases]
      /\ \A q \in Programs : phase'[q] \in {"asked", "truncate", "write"} =>
                               phase[q] \in {"asked", "truncate", "write"}
      /\ \A q \in Programs : phase'[q] # "closed" => phase[q] # "closed"
  BY <1>8 DEF TypeInv, Phases, TakeAnswer
<1> HIDE DEF st, c, t
<1>10. TypeOK'
  BY <1>2, <1>3, <1>4, <1>7, <1>9 DEF TypeOK, TypeInv, Phases
<1>11. \A q \in Shells : phase'[q] # "closed" => task'[q].charger \in Chargers
  BY <1>4, <1>9 DEF TypeInv, Programs
<1> QED
  BY <1>4, <1>7, <1>9, <1>10, <1>11 DEF TypeInv

LEMMA StartTypes ==
  ASSUME TypeInv, NEW p \in Windows, OpenWindow(p)
  PROVE  TypeInv'
<1>1. NoEntries \in [DOMAIN NoEntries -> Tokens] /\ DOMAIN NoEntries \subseteq Chargers
  BY DEF NoEntries
<1>2. /\ DOMAIN store' = Programs
      /\ \A q \in Programs : /\ DOMAIN store'[q] \subseteq Chargers
                             /\ store'[q] \in [DOMAIN store'[q] -> Tokens]
  BY <1>1, LoadedTypes DEF OpenWindow, Loads, TypeInv, TypeOK, LoadedFrom
<1>3. seen' \in [Programs -> Nat]
  BY DEF OpenWindow, Loads, TypeInv
<1>4. UNCHANGED <<task, file, held, binding, answers, minted, saves, excused>>
  BY DEF OpenWindow, charger
<1>5. phase' = [phase EXCEPT ![p] = "ready"]
  BY DEF OpenWindow
<1>6. TypeOK'
  BY <1>2, <1>4, <1>5 DEF TypeOK, TypeInv
<1>7. \A q \in Shells : phase'[q] # "closed" => task'[q].charger \in Chargers
  BY <1>4, <1>5, ProgramsAssumption DEF TypeInv, Programs
<1> QED
  BY <1>2, <1>3, <1>4, <1>5, <1>6, <1>7 DEF TypeInv, Phases

LEMMA RunTypes ==
  ASSUME TypeInv, NEW p \in Shells, NEW t \in {NoToken} \union Tokens, NEW c \in Chargers,
         NEW op \in {"bind", "use"}, RunCommand(p, c, t, op)
  PROVE  TypeInv'
<1>1. /\ DOMAIN store' = Programs
      /\ \A q \in Programs : /\ DOMAIN store'[q] \subseteq Chargers
                             /\ store'[q] \in [DOMAIN store'[q] -> Tokens]
  BY LoadedTypes DEF RunCommand, Loads, TypeInv, TypeOK, LoadedFrom
<1>2. seen' \in [Programs -> Nat]
  BY DEF RunCommand, Loads, TypeInv
<1>3. UNCHANGED <<file, held, binding, answers, minted, saves, excused>>
  BY DEF RunCommand, charger
<1>4. phase' = [phase EXCEPT ![p] = "search"]
  BY DEF RunCommand
<1>5. t \in Nat /\ c \in Nat /\ NoToken \in Nat
  BY BoundsAssumption, ChargersAssumption DEF Tokens, NoToken
<1>6. task' \in [Programs -> Tasks]
  BY <1>5 DEF RunCommand, Tasks, TypeInv
<1>7. /\ \A q \in Programs : task'[q].given \in {NoToken} \union Tokens
      /\ \A q \in Shells : phase'[q] # "closed" => task'[q].charger \in Chargers
      /\ \A q \in Programs : phase'[q] \in {"asked", "truncate", "write"} =>
           task'[q].charger \in Chargers /\ task'[q].token \in Tokens
  BY <1>4 DEF RunCommand, TypeInv, TypeOK, Programs
<1>8. TypeOK'
  BY <1>1, <1>3, <1>4, <1>7 DEF TypeOK, TypeInv
<1> QED
  BY <1>1, <1>2, <1>3, <1>4, <1>6, <1>7, <1>8 DEF TypeInv, Phases

LEMMA OnDiskTypes ==
  ASSUME TypeInv, NEW text \in Seq(Line), Len(text) <= Cardinality(Chargers)
  PROVE  Over(file, text) \in Seq(Line) /\ Len(Over(file, text)) <= Cardinality(Chargers)
<1>1. file \in Seq(Line) /\ Len(file) <= Cardinality(Chargers)
  BY DEF TypeInv, TypeOK
<1>2. Overwritten(Over(file, text), file, text, Line)
  BY <1>1, OverOfText
<1> QED
  BY <1>1, <1>2 DEF Overwritten

\* A file that was cut short.
LEMMA PartTypes ==
  ASSUME NEW text \in Seq(Line), NEW n \in 0 .. Len(text) - 1
  PROVE  SubSeq(text, 1, n) \in Seq(Line) /\ Len(SubSeq(text, 1, n)) <= Len(text)
<1>1. Len(text) \in Nat
  OBVIOUS
<1> QED
  BY <1>1, SubSeqProperties

LEMMA SaveTypes ==
  ASSUME TypeInv, NEW p \in Programs, Write(p)
  PROVE  TypeInv'
<1>1. Written(p, Text(p))
  BY TextWritten DEF Write, Asks
<1>2. file' \in Seq(Line) /\ Len(file') <= Cardinality(Chargers)
  BY <1>1, OnDiskTypes DEF Write, Written
<1>3. task[p].charger \in Chargers
  BY DEF Write, TypeInv, TypeOK
<1>4. excused' \subseteq Chargers
  BY <1>3 DEF Write, TypeInv, TypeOK
<1>5. \E x \in {"ready", "closed"} : phase' = [phase EXCEPT ![p] = x]
  BY DEF Write, After
<1>6. UNCHANGED <<store, task, held, binding, answers, minted>> /\ phase[p] = "write"
  BY DEF Write, charger
<1>7. saves' \in Nat /\ seen' \in [Programs -> Nat]
  BY DEF Write, TypeInv
<1>8. TypeOK'
  BY <1>2, <1>4, <1>5, <1>6 DEF TypeOK, TypeInv
<1>9. phase' \in [Programs -> Phases]
  BY <1>5 DEF TypeInv, Phases
<1>10. \A q \in Shells : phase'[q] # "closed" => task'[q].charger \in Chargers
  BY <1>5, <1>6 DEF TypeInv, Programs
<1> QED
  BY <1>6, <1>7, <1>8, <1>9, <1>10 DEF TypeInv

LEMMA FailTypes ==
  ASSUME TypeInv, NEW p \in Programs,
         \/ GiveUp(p) \/ Truncate(p) \/ SaveFails(p)
         \/ Leave(p) \/ Killed(p) \/ LinkDrops(p) \/ KeepAlive(p) \/ TypesOnce(p)
  PROVE  TypeInv'
<1>1. /\ file \in Seq(Line) /\ Len(file) <= Cardinality(Chargers)
      /\ <<>> \in Seq(Line) /\ Len(<<>>) <= Cardinality(Chargers)
  BY FS_CardinalityType, ChargersAssumption DEF TypeInv, TypeOK
<1>2. /\ file' \in Seq(Line) /\ Len(file') <= Cardinality(Chargers)
      /\ \E E \in SUBSET Chargers : excused' = excused \union E
      /\ UNCHANGED <<store, task, charger, answers, minted, seen, saves>>
      /\ \E x \in Phases : /\ phase' = [phase EXCEPT ![p] = x]
                           /\ x \in {"asked", "truncate", "write"} => Asks(p)
                           /\ x # "closed" => phase[p] # "closed" \/ p \notin Shells
  <2>1. phase[p] \in {"asked", "truncate", "write"} => task[p].charger \in Chargers
    BY DEF TypeInv, TypeOK
  <2>2. excused = excused \union {} /\ excused \subseteq Chargers
    BY DEF TypeInv, TypeOK
  <2>3. CASE GiveUp(p)
    <3>1. \E E \in SUBSET Chargers : excused' = excused \union E
      BY <2>1, <2>2, <2>3 DEF GiveUp, Forgets
    <3> QED
      BY <1>1, <2>3, <3>1 DEF GiveUp, Failed, After, Phases
  <2>4. CASE Truncate(p)
    BY <1>1, <2>2, <2>4 DEF Truncate, told, Phases, Asks
  <2>5. CASE SaveFails(p)
    <3>1. \E E \in SUBSET Chargers : excused' = excused \union E
      BY <2>1, <2>2, <2>5 DEF SaveFails, Forgets
    <3>2. file' \in Seq(Line) /\ Len(file') <= Cardinality(Chargers)
      <4>1. Written(p, Text(p))
        BY <2>5, TextWritten DEF SaveFails, Asks
      <4>2. CASE file' = file
        BY <1>1, <4>2
      <4>3. CASE \E n \in 0 .. Len(Text(p)) - 1 : file' = Over(file, SubSeq(Text(p), 1, n))
        <5>1. PICK n \in 0 .. Len(Text(p)) - 1 : file' = Over(file, SubSeq(Text(p), 1, n))
          BY <4>3
        <5> DEFINE part == SubSeq(Text(p), 1, n)
        <5>2. Text(p) \in Seq(Line) /\ Len(Text(p)) <= Cardinality(Chargers)
          BY <4>1 DEF Written
        <5>3. part \in Seq(Line) /\ Len(part) <= Len(Text(p))
          BY <5>2, PartTypes
        <5>4. Cardinality(Chargers) \in Nat /\ Len(Text(p)) \in Nat /\ Len(part) \in Nat
          BY <5>2, <5>3, FS_CardinalityType, ChargersAssumption
        <5> HIDE DEF part
        <5>5. Len(part) <= Cardinality(Chargers)
          BY <5>2, <5>3, <5>4
        <5> QED
          BY <5>1, <5>3, <5>5, OnDiskTypes DEF part
      <4> QED
        BY <2>5, <4>2, <4>3 DEF SaveFails
    <3> QED
      BY <2>5, <3>1, <3>2 DEF SaveFails, After, Phases
  <2>6. CASE Leave(p)
    BY <1>1, <2>2, <2>6 DEF Leave, told, Phases
  <2>7. CASE Killed(p)
    <3>1. \E E \in SUBSET Chargers : excused' = excused \union E
      BY <2>1, <2>2, <2>7 DEF Killed, Forgets
    <3> QED
      BY <1>1, <2>7, <3>1 DEF Killed, Phases
  <2>8. CASE LinkDrops(p)
    BY <1>1, <2>2, <2>8 DEF LinkDrops, told, Phases
  <2>9. CASE KeepAlive(p)
    BY <1>1, <2>2, <2>9 DEF KeepAlive, told, Phases
  <2>10. CASE TypesOnce(p)
    BY <1>1, <2>2, <2>10 DEF TypesOnce, told, Phases
  <2> QED
    BY <2>3, <2>4, <2>5, <2>6, <2>7, <2>8, <2>9, <2>10
<1> QED
  BY <1>2, PhaseTypes

LEMMA TypesKept == TypeInv /\ [Next]_vars => TypeInv'
<1> SUFFICES ASSUME TypeInv, [Next]_vars PROVE TypeInv'
  OBVIOUS
<1>1. ASSUME NEW p \in Windows, OpenWindow(p) PROVE TypeInv'
  BY <1>1, StartTypes
<1>2. ASSUME NEW p \in Windows, NEW c \in Chargers, NEW op \in {"bind", "use"},
             WindowAsks(p, c, op)
      PROVE  TypeInv'
  <2>1. p \in Programs /\ FALSE \in BOOLEAN /\ NoToken \in {NoToken} \union Tokens
    BY DEF Programs
  <2>2. /\ UNCHANGED <<store, file, charger, saves, excused, seen>>
        /\ answers' \in [Chargers -> Seq(Answers)]
    BY <1>2, NewClientTypes DEF WindowAsks, told
  <2>3. PICK t : Minting(t) /\ Ask(p, c, t, op, FALSE, NoToken)
    BY <1>2 DEF WindowAsks
  <2> QED
    BY <2>1, <2>2, <2>3, AskTypes
<1>3. ASSUME NEW p \in Shells, NEW typed \in Supplied, ShellBinds(p, typed)
      PROVE  TypeInv'
  <2>1. /\ p \in Programs /\ FALSE \in BOOLEAN /\ task[p].charger \in Chargers
        /\ task[p].given \in {NoToken} \union Tokens
    BY <1>3 DEF Programs, TypeInv, ShellBinds, Idle
  <2>2. /\ UNCHANGED <<store, file, charger, saves, excused, seen>>
        /\ answers' \in [Chargers -> Seq(Answers)]
    BY <1>3 DEF ShellBinds, told, TypeInv, TypeOK
  <2>3. PICK t : Minting(t) /\ Ask(p, task[p].charger, t, "bind", FALSE, task[p].given)
    BY <1>3 DEF ShellBinds
  <2> QED
    BY <2>1, <2>2, <2>3, AskTypes
<1>4. ASSUME NEW p \in Shells, NEW t \in Supplied, NEW c \in Chargers,
             NEW op \in {"bind", "use"}, RunCommand(p, c, t, op)
      PROVE  TypeInv'
  <2>1. t \in {NoToken} \union Tokens
    BY BoundsAssumption DEF Supplied, Tokens, TypeInv
  <2> QED
    BY <1>4, <2>1, RunTypes
<1>5. ASSUME NEW p \in Programs, NEW answered \in BOOLEAN, Handle(p, answered)
      PROVE  TypeInv'
  BY <1>5, HandleTypes
<1>6. ASSUME NEW p \in Programs, Write(p) PROVE TypeInv'
  BY <1>6, SaveTypes
<1>7. ASSUME NEW p \in Programs,
             \/ GiveUp(p) \/ Truncate(p) \/ SaveFails(p)
             \/ Leave(p) \/ Killed(p) \/ LinkDrops(p) \/ KeepAlive(p) \/ TypesOnce(p)
      PROVE  TypeInv'
  BY <1>7, FailTypes
<1>10. ASSUME NEW p \in Shells, Connect(p) PROVE TypeInv'
  <2>1. p \in Programs /\ task[p].charger \in Chargers /\ task[p] \in Tasks
        /\ task[p].given \in {NoToken} \union Tokens
    BY <1>10 DEF Connect, TypeInv, Programs
  <2>2. /\ UNCHANGED <<store, file, charger, saves, excused, seen>>
        /\ answers' \in [Chargers -> Seq(Answers)]
    BY <1>10, <2>1, NewClientTypes DEF Connect, told
  <2>3. PICK u : Minting(u) /\ Ask(p, task[p].charger, u, task[p].op, task[p].once,
                                   task[p].given)
    BY <1>10 DEF Connect
  <2>4. task[p].op \in {"bind", "use"} /\ task[p].once \in BOOLEAN
    BY <2>1 DEF Tasks
  <2> QED
    BY <2>1, <2>2, <2>3, <2>4, AskTypes
<1>11. ASSUME NEW p \in Programs, TakeAnswer(p) PROVE TypeInv'
  BY <1>11, TakeTypes
<1>12. ASSUME NEW p \in Shells, SetAside(p) PROVE TypeInv'
  <2>1. task[p].charger \in Chargers
    BY <1>12 DEF SetAside, TypeInv, Programs
  <2>2. answers' \in [Chargers -> Seq(Answers)]
    BY <1>12, <2>1, NewClientTypes DEF SetAside
  <2> QED
    BY <1>12, <2>2 DEF SetAside, programs, charger, told, TypeInv, TypeOK
<1>8. ASSUME NEW c \in Chargers, Outside(c) PROVE TypeInv'
  BY <1>8 DEF Outside, programs, told, TypeInv, TypeOK
<1>9. CASE UNCHANGED vars
  BY <1>9 DEF vars, programs, charger, told, TypeInv, TypeOK
<1> QED
  BY <1>1, <1>2, <1>3, <1>4, <1>5, <1>6, <1>7, <1>8, <1>9, <1>10, <1>11, <1>12 DEF Next

\* The types of both programs, the chargers and the file, with those of the
\* tasks and copies that the later proofs use.
THEOREM TypeInvariant == Spec => []TypeInv
  BY TypesAtFirst, TypesKept, PTL DEF Spec

\* What the variables hold is of their types: a program presents no identifier
\* that is none, and the file never has more lines than there are chargers.
THEOREM TypeCorrect == Spec => []TypeOK
  BY TypeInvariant, PTL DEF TypeInv
-----------------------------------------------------------------------------
(* What is stored                                                          *)

LinesIn(f, A) == \A i \in DOMAIN f : <<f[i].charger, f[i].token>> \in A
EntriesIn(st, A) == \A c \in DOMAIN st : <<c, st[c]>> \in A
SavesAre(A) ==
  \A p \in Programs : phase[p] \in {"truncate", "write"} =>
    <<task[p].charger, task[p].token>> \in A
Truthful(A) ==
  \A c \in Chargers : \A i \in DOMAIN answers[c] :
    answers[c][i].bound => <<c, answers[c][i].token>> \in A

LEMMA AcceptedParts ==
  Accepted <=> /\ LinesIn(file, Credited)
               /\ \A p \in Programs : EntriesIn(store[p], Credited)
               /\ SavesAre(Credited)
               /\ Truthful(accepted)
  BY DEF Accepted, StoredUnlessStale, StoredIn, LinesIn, EntriesIn, SavesAre, Truthful,
         Credited

LEMMA TextAccepted ==
  ASSUME TypeInv, Accepted, NEW p \in Programs, phase[p] \in {"truncate", "write"}
  PROVE  LinesIn(Text(p), Credited) /\ Text(p) \in Seq(Line)
<1>1. Written(p, Text(p))
  BY TextWritten DEF Asks
<1>2. <<task[p].charger, task[p].token>> \in Credited /\ EntriesIn(store[p], Credited)
  BY AcceptedParts DEF SavesAre
<1> QED
  BY <1>1, <1>2 DEF Written, LinesIn, EntriesIn

LEMMA OverAccepted ==
  ASSUME NEW A, NEW f \in Seq(Line), NEW g \in Seq(Line), LinesIn(f, A), LinesIn(g, A)
  PROVE  LinesIn(Over(f, g), A)
<1>1. Overwritten(Over(f, g), f, g, Line)
  BY OverOfText
<1> DEFINE h == Over(f, g)
<1> HIDE DEF h
<1>2. \A i \in DOMAIN h : \/ i \in DOMAIN g /\ h[i] = g[i]
                          \/ i \in DOMAIN f /\ h[i] = f[i]
  BY <1>1 DEF Overwritten, h
<1> QED
  BY <1>2 DEF LinesIn, h

LEMMA PartAccepted ==
  ASSUME NEW A, NEW f \in Seq(Line), NEW n \in 0 .. Len(f) - 1, LinesIn(f, A)
  PROVE  LinesIn(SubSeq(f, 1, n), A)
<1>1. Len(f) \in Nat
  OBVIOUS
<1>2. /\ DOMAIN SubSeq(f, 1, n) = 1 .. n
      /\ \A i \in 1 .. n : SubSeq(f, 1, n)[i] = f[i] /\ i \in DOMAIN f
  BY <1>1
<1> QED
  BY <1>2 DEF LinesIn

LEMMA LoadAccepted ==
  ASSUME TypeInv, NEW A, LinesIn(file, A)
  PROVE  EntriesIn(Load(file), A)
<1> DEFINE m == Load(file)
<1>1. \A d \in DOMAIN m : \E i \in DOMAIN file : file[i].charger = d /\ file[i].token = m[d]
  BY LoadedTypes DEF LoadedFrom
<1> HIDE DEF m
<1> QED
  BY <1>1 DEF LinesIn, EntriesIn, m

LEMMA AcceptedAtFirst == Init => Accepted
  BY DEF Init, Accepted, StoredUnlessStale, StoredIn, NoEntries

\* A step after which no program saves what it did not save before.
LEMMA AcceptedStays ==
  ASSUME Accepted, Credited \subseteq Credited', LinesIn(file', Credited'),
         \A q \in Programs : store'[q] = store[q] \/ EntriesIn(store'[q], Credited'),
         \A q \in Programs : phase'[q] \in {"truncate", "write"} =>
           /\ phase[q] \in {"truncate", "write"}
           /\ task'[q].charger = task[q].charger /\ task'[q].token = task[q].token,
         Truthful(accepted)'
  PROVE  Accepted'
<1>1. SavesAre(Credited)'
  BY AcceptedParts DEF SavesAre
<1>2. \A q \in Programs : EntriesIn(store'[q], Credited')
  BY AcceptedParts DEF EntriesIn
<1> QED
  BY <1>1, <1>2 DEF Accepted, StoredUnlessStale, StoredIn, LinesIn, EntriesIn, SavesAre,
                    Truthful, Credited

\* Answers that were there before are as truthful as they were.
LEMMA TruthStays ==
  ASSUME Accepted, accepted \subseteq accepted',
         \A d \in Chargers : \A i \in DOMAIN answers'[d] :
           \E j \in DOMAIN answers[d] : answers'[d][i] = answers[d][j]
  PROVE  Truthful(accepted)'
<1>1. Truthful(accepted)
  BY AcceptedParts
<1> QED
  BY <1>1 DEF Truthful

LEMMA HandleAccepted ==
  ASSUME TypeInv, Accepted, NEW p \in Programs, NEW answered \in BOOLEAN,
         Handle(p, answered)
  PROVE  Accepted'
<1> DEFINE c == task[p].charger
           t == task[p].token
           bound == c \in binding \/ held[c] = t
           answer == [token |-> t, bound |-> bound]
<1>1. /\ accepted' = IF bound THEN accepted \union {<<c, t>>} ELSE accepted
      /\ UNCHANGED <<phase, store, file, mistaken>>
  BY DEF Handle
<1>2. \A q \in Programs : task'[q].charger = task[q].charger /\ task'[q].token = task[q].token
  BY DEF Handle, TypeInv, Tasks
<1>3. answers' = answers \/ answers' = [answers EXCEPT ![c] = Append(@, answer)]
  BY DEF Handle
<1>4. c \in Chargers /\ answers \in [Chargers -> Seq(Answers)]
  BY DEF Handle, TypeInv, TypeOK
<1>5. answer.token = t /\ answer.bound = bound
  OBVIOUS
<1> HIDE DEF c, t, bound, answer
<1>6. accepted \subseteq accepted' /\ Credited \subseteq Credited'
  BY <1>1 DEF Credited
<1>7. LinesIn(file', Credited')
  BY <1>1, <1>6, AcceptedParts DEF LinesIn
<1>8. Truthful(accepted)'
  <2>1. \A d \in Chargers : \A i \in DOMAIN answers'[d] :
          \/ i \in DOMAIN answers[d] /\ answers'[d][i] = answers[d][i]
          \/ d = c /\ answers'[d][i] = answer
    <3> DEFINE old == answers[c]
               new == Append(old, answer)
    <3>1. old \in Seq(Answers) /\ Len(old) \in Nat /\ DOMAIN old = 1 .. Len(old)
      BY <1>4
    <3> HIDE DEF old
    <3>2. \A i \in DOMAIN new : (i \in DOMAIN old /\ new[i] = old[i]) \/ new[i] = answer
      BY <3>1
    <3> HIDE DEF new
    <3>3. answers' = answers \/ answers' = [answers EXCEPT ![c] = new]
      BY <1>3 DEF new, old
    <3> QED
      BY <1>4, <3>2, <3>3 DEF old
  <2>2. Truthful(accepted)
    BY AcceptedParts
  <2> SUFFICES ASSUME NEW d \in Chargers, NEW i \in DOMAIN answers'[d], answers'[d][i].bound
               PROVE  <<d, answers'[d][i].token>> \in accepted'
    BY DEF Truthful
  <2>3. CASE i \in DOMAIN answers[d] /\ answers'[d][i] = answers[d][i]
    BY <1>6, <2>2, <2>3 DEF Truthful
  <2>4. CASE d = c /\ answers'[d][i] = answer
    BY <1>1, <1>5, <2>4
  <2> QED
    BY <2>1, <2>3, <2>4
<1> QED
  BY <1>1, <1>2, <1>6, <1>7, <1>8, AcceptedStays

LEMMA TakeAccepted ==
  ASSUME TypeInv, Accepted, NEW p \in Programs, TakeAnswer(p)
  PROVE  Accepted'
<1> DEFINE c == task[p].charger
           t == task[p].token
           answer == Head(answers[c])
           st == SetToken(store[p], c, t)
<1>1. /\ accepted' = accepted
      /\ mistaken' = IF answer.token = t THEN mistaken ELSE mistaken \union {<<c, t>>}
      /\ UNCHANGED <<task, file>>
  BY DEF TakeAnswer
<1>2. answer \in Answers /\ c \in Chargers /\ t \in Tokens
      /\ 1 \in DOMAIN answers[c] /\ answer = answers[c][1]
  BY TailTypes DEF TakeAnswer, TypeInv, TypeOK
<1>3. answer.bound => <<c, t>> \in Credited'
  <2>1. Truthful(accepted)
    BY AcceptedParts
  <2>2. answer.bound => <<c, answer.token>> \in accepted
    BY <1>2, <2>1 DEF Truthful
  <2> HIDE DEF c, t, answer
  <2> QED
    BY <1>1, <2>2 DEF Credited
<1>4. /\ \E x \in Phases : phase' = [phase EXCEPT ![p] = x]
      /\ phase'[p] \in {"truncate", "write"} => answer.bound
      /\ store' = store \/ (store' = [store EXCEPT ![p] = st] /\ answer.bound)
  BY DEF TakeAnswer, Hears, Phases, After, Failed, TypeInv
<1>5. Truthful(accepted)'
  BY <1>1, TailTypes, TruthStays
<1>6. answer.bound => EntriesIn(st, Credited')
  <2>1. EntriesIn(store[p], Credited)
    BY AcceptedParts
  <2>2. WithToken(st, store[p], DOMAIN store[p], Tokens, c, t)
    BY <1>2, GetSetToken DEF TypeInv
  <2> HIDE DEF st, c, t, answer
  <2> QED
    BY <1>1, <1>3, <2>1, <2>2 DEF WithToken, EntriesIn, Credited
<1> HIDE DEF st, answer
<1>7. Credited \subseteq Credited' /\ LinesIn(file', Credited')
  <2>1. LinesIn(file, Credited)
    BY AcceptedParts
  <2> QED
    BY <1>1, <2>1 DEF Credited, LinesIn
<1>8. \A q \in Programs : EntriesIn(store'[q], Credited')
  <2>1. \A q \in Programs : EntriesIn(store[q], Credited')
    BY <1>7, AcceptedParts DEF EntriesIn
  <2> QED
    BY <1>4, <1>6, <2>1 DEF TypeInv
<1>9. SavesAre(Credited)'
  <2> SUFFICES ASSUME NEW q \in Programs, phase'[q] \in {"truncate", "write"}
               PROVE  <<task'[q].charger, task'[q].token>> \in Credited'
    BY DEF SavesAre
  <2>1. CASE q = p
    BY <1>1, <1>3, <1>4, <2>1 DEF c, t
  <2>2. CASE q # p
    BY <1>1, <1>4, <1>7, <2>2, AcceptedParts DEF SavesAre, TypeInv
  <2> QED
    BY <2>1, <2>2
<1> QED
  BY <1>5, <1>7, <1>8, <1>9 DEF Accepted, StoredUnlessStale, StoredIn, LinesIn, EntriesIn,
                               SavesAre, Truthful, Credited

LEMMA AcceptedKept == TypeInv /\ Accepted /\ [Next]_vars => Accepted'
<1> SUFFICES ASSUME TypeInv, Accepted, [Next]_vars PROVE Accepted'
  OBVIOUS
<1>a. file \in Seq(Line) /\ DOMAIN store = Programs /\ phase \in [Programs -> Phases]
  BY DEF TypeInv, TypeOK
<1>b. LinesIn(file, Credited) /\ EntriesIn(Load(file), Credited)
  BY AcceptedParts, LoadAccepted
<1>c. EntriesIn(NoEntries, Credited) /\ LinesIn(<<>>, Credited)
  BY DEF EntriesIn, LinesIn, NoEntries
<1>d. UNCHANGED <<answers, accepted>> => Truthful(accepted)'
  BY AcceptedParts DEF Truthful
<1>1. ASSUME NEW p \in Windows, OpenWindow(p) PROVE Accepted'
  <2>1. \A q \in Programs : store'[q] = store[q] \/ EntriesIn(store'[q], Credited')
    BY <1>1, <1>a, <1>b, <1>c DEF OpenWindow, Loads, Credited
  <2>2. \A q \in Programs : phase'[q] \in {"truncate", "write"} =>
          phase[q] \in {"truncate", "write"} /\ task' = task
    BY <1>1, <1>a DEF OpenWindow
  <2> QED
    BY <1>1, <1>b, <1>d, <2>1, <2>2, AcceptedStays DEF OpenWindow, Credited
<1>2. ASSUME NEW p \in Programs, NEW c, NEW t, NEW op, NEW once, NEW given,
             Ask(p, c, t, op, once, given), UNCHANGED <<file, store, accepted, mistaken>>,
             Truthful(accepted)'
      PROVE  Accepted'
  <2>1. \A q \in Programs : store'[q] = store[q] \/ EntriesIn(store'[q], Credited')
    BY <1>2
  <2>2. \A q \in Programs : phase'[q] \in {"truncate", "write"} =>
          phase[q] \in {"truncate", "write"} /\ task'[q] = task[q]
    BY <1>2, <1>a DEF Ask, TypeInv
  <2> QED
    BY <1>2, <1>b, <2>1, <2>2, AcceptedStays DEF Credited
<1>3. ASSUME NEW p \in Programs, NEW answered \in BOOLEAN, Handle(p, answered)
      PROVE  Accepted'
  BY <1>3, HandleAccepted
<1>4. ASSUME NEW p \in Programs, UNCHANGED <<store, accepted, mistaken, answers, task>>,
             LinesIn(file', Credited),
             NEW x \in Phases, phase' = [phase EXCEPT ![p] = x],
             x \in {"truncate", "write"} => phase[p] \in {"truncate", "write"}
      PROVE  Accepted'
  BY <1>4, <1>a, <1>d, AcceptedStays DEF Credited
<1>5. ASSUME NEW p \in Programs, Write(p) PROVE Accepted'
  <2>1. LinesIn(file', Credited)
    BY <1>5, <1>a, <1>b, TextAccepted, OverAccepted DEF Write
  <2> QED
    BY <1>4, <1>5, <2>1 DEF Write, After, Phases
<1>6. ASSUME NEW p \in Programs, SaveFails(p) PROVE Accepted'
  <2>1. LinesIn(Text(p), Credited) /\ Text(p) \in Seq(Line)
    BY <1>6, TextAccepted DEF SaveFails
  <2>2. LinesIn(file', Credited)
    <3>1. CASE file' = file
      BY <1>b, <3>1
    <3>2. CASE \E n \in 0 .. Len(Text(p)) - 1 : file' = Over(file, SubSeq(Text(p), 1, n))
      <4>1. PICK n \in 0 .. Len(Text(p)) - 1 : file' = Over(file, SubSeq(Text(p), 1, n))
        BY <3>2
      <4>2. /\ LinesIn(SubSeq(Text(p), 1, n), Credited)
            /\ SubSeq(Text(p), 1, n) \in Seq(Line)
        BY <2>1, PartAccepted, PartTypes
      <4> QED
        BY <1>a, <1>b, <4>1, <4>2, OverAccepted
    <3> QED
      BY <1>6, <3>1, <3>2 DEF SaveFails
  <2> QED
    BY <1>4, <1>6, <2>2 DEF SaveFails, After, Phases
<1>7. ASSUME NEW p \in Programs,
             \/ GiveUp(p) \/ Truncate(p) \/ Leave(p) \/ Killed(p)
             \/ LinkDrops(p) \/ KeepAlive(p) \/ TypesOnce(p)
      PROVE  Accepted'
  <2>1. /\ LinesIn(file', Credited)
        /\ UNCHANGED <<store, accepted, mistaken, answers, task>>
    BY <1>7, <1>b, <1>c
    DEF GiveUp, Truncate, Leave, Killed, LinkDrops, KeepAlive, TypesOnce, told
  <2>2. \E x \in Phases : /\ phase' = [phase EXCEPT ![p] = x]
                          /\ x \in {"truncate", "write"} => phase[p] \in {"truncate", "write"}
    BY <1>7 DEF GiveUp, Truncate, Leave, Killed, LinkDrops, KeepAlive, TypesOnce,
                Failed, After, Phases
  <2> QED
    BY <1>4, <2>1, <2>2
<1>8. ASSUME NEW c \in Chargers, Outside(c) PROVE Accepted'
  BY <1>8 DEF Outside, programs, told, Accepted, StoredUnlessStale, StoredIn, Credited
<1>9. CASE UNCHANGED vars
  BY <1>9 DEF vars, programs, told, Accepted, StoredUnlessStale, StoredIn, Credited
<1>10. ASSUME NEW p \in Windows, NEW c \in Chargers, NEW op, WindowAsks(p, c, op)
       PROVE  Accepted'
  <2>1. Truthful(accepted)'
    BY <1>10, NewClientTypes, TruthStays DEF WindowAsks, told
  <2> QED
    BY <1>2, <1>10, <2>1 DEF WindowAsks, told, Programs
<1>11. ASSUME NEW p \in Shells, NEW typed, ShellBinds(p, typed) PROVE Accepted'
  BY <1>2, <1>d, <1>11 DEF ShellBinds, told, Programs
<1>12. ASSUME NEW p \in Shells, NEW c, NEW t, NEW op, RunCommand(p, c, t, op)
       PROVE  Accepted'
  <2>1. \A q \in Programs : store'[q] = store[q] \/ EntriesIn(store'[q], Credited')
    BY <1>12, <1>a, <1>b DEF RunCommand, Loads, Credited
  <2>2. \A q \in Programs : phase'[q] \in {"truncate", "write"} =>
          phase[q] \in {"truncate", "write"} /\ task'[q] = task[q]
    BY <1>12, <1>a DEF RunCommand, TypeInv
  <2> QED
    BY <1>12, <1>b, <1>d, <2>1, <2>2, AcceptedStays DEF RunCommand, Credited
<1>13. ASSUME NEW p \in Shells, Connect(p) PROVE Accepted'
  <2>1. p \in Programs /\ task[p].charger \in Chargers
    BY <1>13 DEF Connect, TypeInv, Programs
  <2>2. Truthful(accepted)'
    BY <1>13, <2>1, NewClientTypes, TruthStays DEF Connect, told
  <2> QED
    BY <1>2, <1>13, <2>1, <2>2 DEF Connect, told
<1>14. ASSUME NEW p \in Shells, SetAside(p) PROVE Accepted'
  <2>1. task[p].charger \in Chargers
    BY <1>14 DEF SetAside, TypeInv, Programs
  <2>2. Truthful(accepted)'
    BY <1>14, <2>1, NewClientTypes, TruthStays DEF SetAside, told
  <2> QED
    BY <1>14, <1>b, <2>2, AcceptedStays DEF SetAside, programs, told, Credited
<1>15. ASSUME NEW p \in Programs, TakeAnswer(p) PROVE Accepted'
  BY <1>15, TakeAccepted
<1> QED
  BY <1>1, <1>3, <1>5, <1>6, <1>7, <1>8, <1>9, <1>10, <1>11, <1>12,
     <1>13, <1>14, <1>15 DEF Next

\* Nothing is stored, in the file or in a program's copy of it, that the charger
\* it is for did not accept at some time, unless the call that presented it took
\* the answer to another identifier for its own.
THEOREM StoredWasAccepted == Spec => []StoredUnlessStale
<1>1. Spec => [](TypeInv /\ Accepted)
  BY TypesAtFirst, TypesKept, AcceptedAtFirst, AcceptedKept, PTL DEF Spec
<1> QED
  BY <1>1, PTL DEF Accepted
-----------------------------------------------------------------------------
(* What is known                                                           *)

LEMMA BindAtFirst == Init => BindInv
<1> SUFFICES ASSUME Init PROVE BindInv
  OBVIOUS
<1>1. \A c \in Chargers : ~Due(c)
  BY BoundsAssumption DEF Init, Due, Foreign, Tokens
<1>2. \A p \in Programs : phase[p] = "closed" /\ seen[p] = 0 /\ saves = 1
  BY DEF Init
<1>3. W = {}
  BY <1>2 DEF W
<1>4. OnDisk /\ Recent
  BY <1>1 DEF OnDisk, Recent
<1>5. Alone /\ Told
  BY <1>2, <1>3 DEF Alone, Told
<1>6. Counted
  BY <1>2 DEF Init, Counted
<1> QED
  BY <1>4, <1>5, <1>6 DEF BindInv

\* A step that leaves the file and the saves alone, and after which no line is
\* due that was not due before or that a copy has no longer.
LEMMA KnownStays ==
  ASSUME BindInv, UNCHANGED <<file, saves, seen>>,
         \A q \in Programs : phase'[q] = "write" <=> phase[q] = "write",
         excused = Chargers => excused' = Chargers,
         \A c \in Chargers : Due(c)' => Due(c) /\ held'[c] = held[c],
         \A q \in Programs, c \in Chargers : (Due(c)' /\ Own(q, c)) => Own(q, c)',
         \A q \in Programs, c \in Chargers : Due(c)' =>
           \/ GetToken(store'[q], c) = GetToken(store[q], c)
           \/ GetToken(store'[q], c) = held'[c]
  PROVE  (OnDisk /\ Recent /\ Alone /\ Counted)'
<1>1. W' = W
  BY DEF W
<1>2. OnDisk'
  <2> SUFFICES ASSUME W = {}, NEW c \in Chargers, Due(c)'
               PROVE  GetToken(Load(file), c) = held'[c]
    BY <1>1 DEF OnDisk
  <2> QED
    BY DEF BindInv, OnDisk
<1>3. Recent'
  <2> SUFFICES ASSUME NEW p \in Programs, seen[p] = saves, ~ \E q \in W : q # p,
                      NEW c \in Chargers, Due(c)', ~Own(p, c)'
               PROVE  GetToken(store'[p], c) = held'[c]
    BY <1>1 DEF Recent
  <2>1. Due(c) /\ ~Own(p, c)
    OBVIOUS
  <2>2. GetToken(store[p], c) = held[c]
    BY <2>1 DEF BindInv, Recent
  <2> QED
    BY <2>2
<1>4. Alone'
  BY <1>1 DEF BindInv, Alone
<1>5. Counted'
  BY DEF BindInv, Counted
<1> QED
  BY <1>2, <1>3, <1>4, <1>5
\* In a step of p, a line becomes due only when its charger takes an identifier.
LEMMA DueBefore ==
  ASSUME NEW p \in Programs, NEW c \in Chargers, held'[c] = held[c],
         c \in excused => c \in excused',
         \A q \in Programs \ {p} : task'[q] = task[q] /\ phase'[q] = phase[q],
         PendingBy(p, c) => PendingBy(p, c)' \/ c \in excused'
  PROVE  Due(c)' => Due(c)
<1> SUFFICES ASSUME Due(c)', Pending(c) PROVE FALSE
  BY DEF Due
<1>1. PICK q \in Programs : PendingBy(q, c)
  BY DEF Pending
<1>2. CASE q = p
  BY <1>1, <1>2 DEF Due, Pending
<1>3. CASE q # p
  <2>1. PendingBy(q, c)'
    BY <1>1, <1>3 DEF PendingBy
  <2> QED
    BY <2>1 DEF Due, Pending
<1> QED
  BY <1>2, <1>3

\* Asking is not saving, and nothing is due that was not.
LEMMA AskKnown ==
  ASSUME TypeInv, BindInv, NEW p \in Programs, NEW c \in Chargers, NEW t, NEW op, NEW once,
         NEW given, Ask(p, c, t, op, once, given), phase[p] \in {"ready", "search"},
         UNCHANGED <<file, held, saves, excused>>
  PROVE  /\ \A q \in Programs : phase'[q] = "write" <=> phase[q] = "write"
         /\ \A d \in Chargers : Due(d)' => Due(d) /\ held'[d] = held[d]
         /\ \A q \in Programs : q # p \/ p \in Windows \/ task[p].charger = c =>
              \A d \in Chargers : Own(q, d) => Own(q, d)'
         /\ \A q \in Programs : phase'[q] \in {"truncate", "write"} =>
              q # p /\ phase'[q] = phase[q] /\ task'[q] = task[q]
<1>1. /\ \A q \in Programs : phase'[q] = IF q = p THEN "asked" ELSE phase[q]
      /\ \A q \in Programs \ {p} : task'[q] = task[q]
      /\ task'[p].charger = c
  BY DEF Ask, TypeInv, Tasks
<1>2. \A d \in Chargers : Due(d)' => Due(d) /\ held'[d] = held[d]
  BY <1>1, DueBefore DEF PendingBy
<1>3. ASSUME NEW q \in Programs, q # p \/ p \in Windows \/ task[p].charger = c,
             NEW d \in Chargers, Own(q, d)
      PROVE  Own(q, d)'
  BY <1>1, <1>3, ProgramsAssumption DEF Own
<1> QED
  BY <1>1, <1>2, <1>3

LEMMA WindowAsksKnown ==
  ASSUME TypeInv, BindInv, NEW p \in Windows, NEW c \in Chargers, NEW op,
         WindowAsks(p, c, op)
  PROVE  BindInv'
<1>1. /\ p \in Programs /\ phase[p] \in {"ready", "search"}
      /\ UNCHANGED <<store, file, held, saves, seen, excused>>
  BY DEF WindowAsks, Programs, Idle, charger, told
<1>2. PICK t : Ask(p, c, t, op, FALSE, NoToken)
  BY DEF WindowAsks
<1>3. Told'
  BY <1>1, <1>2, AskKnown DEF BindInv, Told
<1>4. (OnDisk /\ Recent /\ Alone /\ Counted)'
  BY <1>1, <1>2, AskKnown, KnownStays
<1> QED
  BY <1>3, <1>4 DEF BindInv

LEMMA ConnectKnown ==
  ASSUME TypeInv, BindInv, NEW p \in Shells, Connect(p)
  PROVE  BindInv'
<1>1. /\ p \in Programs /\ phase[p] \in {"ready", "search"}
      /\ UNCHANGED <<store, file, held, saves, seen, excused>>
  BY DEF Connect, Programs, charger, told
<1>2. PICK t : Ask(p, task[p].charger, t, task[p].op, task[p].once, task[p].given)
  BY DEF Connect
<1>3. task[p].charger \in Chargers
  BY DEF TypeInv, Connect, Programs
<1>4. Told'
  BY <1>1, <1>2, <1>3, AskKnown DEF BindInv, Told
<1>5. (OnDisk /\ Recent /\ Alone /\ Counted)'
  BY <1>1, <1>2, <1>3, AskKnown, KnownStays
<1> QED
  BY <1>4, <1>5 DEF BindInv

LEMMA ShellBindsKnown ==
  ASSUME TypeInv, BindInv, NEW p \in Shells, NEW typed, ShellBinds(p, typed)
  PROVE  BindInv'
<1>1. /\ p \in Programs /\ phase[p] \in {"ready", "search"}
      /\ UNCHANGED <<store, file, held, saves, seen, excused>>
  BY DEF ShellBinds, Programs, Idle, charger, told
<1>2. PICK t : Ask(p, task[p].charger, t, "bind", FALSE, task[p].given)
  BY DEF ShellBinds
<1>3. task[p].charger \in Chargers
  BY <1>2 DEF TypeInv, ShellBinds, Idle
<1>4. Told'
  BY <1>1, <1>2, <1>3, AskKnown DEF BindInv, Told
<1>5. (OnDisk /\ Recent /\ Alone /\ Counted)'
  BY <1>1, <1>2, <1>3, AskKnown, KnownStays
<1> QED
  BY <1>4, <1>5 DEF BindInv
\* A copy loaded by p, which was closed, has every due line if none is being
\* written.
LEMMA LoadKnown ==
  ASSUME BindInv, NEW p \in Programs, phase[p] = "closed", NEW copy, Loads(p, copy),
         DOMAIN store = Programs, seen \in [Programs -> Nat], saves \in Nat,
         UNCHANGED <<file, saves, excused>>,
         \A q \in Programs : phase'[q] = "write" <=> phase[q] = "write",
         \A d \in Chargers : Due(d)' => Due(d) /\ held'[d] = held[d],
         \A q \in Programs : q # p => \A d \in Chargers : Own(q, d) => Own(q, d)'
  PROVE  (OnDisk /\ Recent /\ Alone /\ Counted)'
<1>1. /\ W' = W /\ p \notin W
      /\ \A q \in Programs \ {p} : store'[q] = store[q] /\ seen'[q] = seen[q]
      /\ store'[p] = copy /\ seen'[p] = IF copy = Load(file) THEN saves ELSE 0
  BY DEF W, Loads
<1>2. OnDisk'
  BY <1>1 DEF BindInv, OnDisk
<1>3. Recent'
  <2> SUFFICES ASSUME NEW q \in Programs, seen'[q] = saves, ~ \E x \in W : x # q,
                      NEW d \in Chargers, Due(d)', ~Own(q, d)'
               PROVE  GetToken(store'[q], d) = held'[d]
    BY <1>1 DEF Recent
  <2>1. CASE q = p
    <3>1. W = {} /\ copy = Load(file)
      BY <1>1, <2>1 DEF BindInv, Counted
    <3> QED
      BY <1>1, <2>1, <3>1 DEF BindInv, OnDisk
  <2>2. CASE q # p
    BY <1>1, <2>2 DEF BindInv, Recent
  <2> QED
    BY <2>1, <2>2
<1>4. Alone'
  BY <1>1 DEF BindInv, Alone, W
<1>5. Counted'
  <2>1. \A q \in Programs : seen'[q] = seen[q] \/ seen'[q] = saves \/ seen'[q] = 0
    BY <1>1
  <2> QED
    BY <2>1 DEF BindInv, Counted
<1> QED
  BY <1>2, <1>3, <1>4, <1>5

LEMMA RunCommandKnown ==
  ASSUME TypeInv, BindInv, NEW p \in Shells, NEW c \in Chargers, NEW supplied, NEW op,
         RunCommand(p, c, supplied, op)
  PROVE  BindInv'
<1>1. /\ p \in Programs /\ phase[p] = "closed" /\ p \notin Windows
      /\ UNCHANGED <<file, held, saves, excused>> /\ Loads(p, Load(file))
      /\ DOMAIN store = Programs /\ seen \in [Programs -> Nat] /\ saves \in Nat
  BY ProgramsAssumption DEF RunCommand, Programs, charger, TypeInv
<1>2. /\ \A q \in Programs : phase'[q] = IF q = p THEN "search" ELSE phase[q]
      /\ \A q \in Programs \ {p} : task'[q] = task[q]
  BY DEF RunCommand, TypeInv
<1>3. \A q \in Programs : q # p => store'[q] = store[q]
  BY <1>1 DEF Loads
<1>4. Told'
  BY <1>2, <1>3 DEF BindInv, Told
<1>5. \A d \in Chargers : Due(d)' => Due(d) /\ held'[d] = held[d]
  BY <1>1, <1>2, DueBefore DEF PendingBy
<1>6. \A q \in Programs : q # p => \A d \in Chargers : Own(q, d) => Own(q, d)'
  BY <1>2 DEF Own
<1>7. (OnDisk /\ Recent /\ Alone /\ Counted)'
  BY <1>1, <1>2, <1>5, <1>6, LoadKnown
<1> QED
  BY <1>4, <1>7 DEF BindInv

LEMMA OpenWindowKnown ==
  ASSUME TypeInv, BindInv, NEW p \in Windows, OpenWindow(p)
  PROVE  BindInv'
<1>1. /\ p \in Programs /\ phase[p] = "closed"
      /\ UNCHANGED <<file, held, saves, excused, task>>
      /\ DOMAIN store = Programs /\ seen \in [Programs -> Nat] /\ saves \in Nat
  BY DEF OpenWindow, Programs, charger, TypeInv
<1>2. PICK copy : Loads(p, copy)
  BY DEF OpenWindow
<1>3. \A q \in Programs : phase'[q] = IF q = p THEN "ready" ELSE phase[q]
  BY DEF OpenWindow, TypeInv
<1>4. \A q \in Programs : q # p => store'[q] = store[q]
  BY <1>1, <1>2 DEF Loads
<1>5. Told'
  BY <1>1, <1>3, <1>4 DEF BindInv, Told
<1>6. \A d \in Chargers : Due(d)' => Due(d) /\ held'[d] = held[d]
  BY <1>1, <1>3, DueBefore DEF PendingBy
<1>7. (OnDisk /\ Recent /\ Alone /\ Counted)'
  BY <1>1, <1>2, <1>3, <1>6, LoadKnown DEF Own
<1> QED
  BY <1>5, <1>7 DEF BindInv

LEMMA HandleKnown ==
  ASSUME TypeInv, BindInv, NEW p \in Programs, NEW answered \in BOOLEAN,
         Handle(p, answered)
  PROVE  BindInv'
<1> DEFINE c == task[p].charger
           t == task[p].token
           bound == c \in binding \/ held[c] = t
           binds == bound /\ task[p].op = "bind"
<1>1. /\ c \in Chargers /\ t \in Tokens /\ phase[p] = "asked"
      /\ UNCHANGED <<phase, store, file, saves, seen>>
  BY DEF Handle, TypeInv, TypeOK
<1>2. \A d \in Chargers : held'[d] = IF d = c /\ bound THEN t ELSE held[d]
  BY <1>1 DEF Handle, TypeInv, TypeOK
<1>3. /\ \A q \in Programs \ {p} : task'[q] = task[q]
      /\ task'[p].charger = c /\ task'[p].token = t /\ task'[p].op = task[p].op
      /\ task'[p].took = (bound \/ task[p].took)
  BY DEF Handle, TypeInv, Tasks
<1>4. /\ excused \subseteq excused' /\ excused' \subseteq Chargers
      /\ (bound /\ ~binds /\ held[c] # t) => c \in excused'
  BY <1>1 DEF Handle, TypeInv, TypeOK, Tasks
<1>5. held[c] = t => bound
  OBVIOUS
<1>6. bound \in BOOLEAN /\ (binds => bound) /\ (binds => task[p].op = "bind")
      /\ (bound /\ ~binds => task[p].op # "bind")
  OBVIOUS
<1> HIDE DEF c, t, bound, binds
<1>7. \A d \in Chargers : Due(d)' => Due(d) /\ held'[d] = held[d]
  <2> SUFFICES ASSUME NEW d \in Chargers, Due(d)'
               PROVE  Due(d) /\ held'[d] = held[d]
    OBVIOUS
  <2>1. d \notin excused' /\ ~Pending(d)'
    BY DEF Due
  <2>2. ~(binds /\ d = c)
    <3> SUFFICES ASSUME binds, d = c PROVE FALSE
      OBVIOUS
    <3>1. PendingBy(p, d)'
      BY <1>1, <1>2, <1>3, <1>6 DEF PendingBy
    <3> QED
      BY <2>1, <3>1 DEF Pending
  <2>3. held'[d] = held[d]
    BY <1>2, <1>4, <2>1, <2>2
  <2>4. ~PendingBy(p, d)
    <3> SUFFICES ASSUME PendingBy(p, d) PROVE FALSE
      OBVIOUS
    <3>1. d = c /\ held[c] = t /\ task[p].op = "bind"
      BY DEF PendingBy, c, t
    <3> QED
      BY <1>5, <1>6, <2>2, <3>1
  <2>5. Due(d)
    BY <1>1, <1>3, <1>4, <2>3, <2>4, DueBefore
  <2> QED
    BY <2>3, <2>5
<1>8. \A q \in Programs, d \in Chargers : Own(q, d) => Own(q, d)'
  BY <1>1, <1>3 DEF Own, c
<1>9. (OnDisk /\ Recent /\ Alone /\ Counted)'
  BY <1>1, <1>4, <1>7, <1>8, KnownStays
<1>10. Told'
  BY <1>1, <1>3 DEF BindInv, Told
<1> QED
  BY <1>9, <1>10 DEF BindInv

LEMMA TakeKnown ==
  ASSUME TypeInv, BindInv, NEW p \in Programs, TakeAnswer(p)
  PROVE  BindInv'
<1> DEFINE c == task[p].charger
           t == task[p].token
           b == Head(answers[c]).bound
           st == SetToken(store[p], c, t)
<1>1. /\ c \in Chargers /\ t \in Tokens /\ phase[p] = "asked"
      /\ store[p] \in [DOMAIN store[p] -> Tokens]
      /\ UNCHANGED <<task, held, file, saves, seen>>
  BY DEF TakeAnswer, TypeInv, TypeOK, charger
<1>2. b \in BOOLEAN
  BY TailTypes DEF Answers
<1>3. excused' = IF task[p].op = "bind" /\ (IF b THEN held[c] # t ELSE task[p].took)
                 THEN excused \union {c} ELSE excused
  BY DEF TakeAnswer
<1>4. Hears(p, b)
  BY DEF TakeAnswer
<1> HIDE DEF b
<1>5. /\ \A q \in Programs \ {p} : phase'[q] = phase[q] /\ store'[q] = store[q]
      /\ phase'[p] \in {"truncate", "ready", "closed"}
      /\ phase'[p] = "truncate" => task[p].op = "bind" /\ (p \in Windows => store'[p] = st)
      /\ (task[p].op = "bind" /\ b) => phase'[p] = "truncate"
      /\ \/ store'[p] = store[p]
         \/ task[p].op = "bind" /\ b /\ store'[p] = st
  BY <1>1, <1>4 DEF Hears, TypeInv, After, Failed
<1>6. WithToken(st, store[p], DOMAIN store[p], Tokens, c, t)
  BY <1>1, GetSetToken
<1>7. excused \subseteq excused' /\ excused' \subseteq Chargers
  BY <1>1, <1>3 DEF TypeInv, TypeOK
<1> HIDE DEF c, t, st
<1>8. \A d \in Chargers : Due(d)' => Due(d) /\ held'[d] = held[d]
  <2> SUFFICES ASSUME NEW d \in Chargers
               PROVE  PendingBy(p, d) => PendingBy(p, d)' \/ d \in excused'
    BY <1>1, <1>5, <1>7, DueBefore
  <2>1. PendingBy(p, d) => d = c /\ task[p].op = "bind" /\ task[p].took
    BY DEF PendingBy, c
  <2>2. CASE b
    BY <1>1, <1>5, <2>1, <2>2 DEF PendingBy
  <2>3. CASE ~b
    BY <1>3, <2>1, <2>3
  <2> QED
    BY <2>2, <2>3
<1>9. \A q \in Programs, d \in Chargers : Due(d)' =>
        \/ GetToken(store'[q], d) = GetToken(store[q], d)
        \/ GetToken(store'[q], d) = held'[d]
  <2> SUFFICES ASSUME NEW q \in Programs, NEW d \in Chargers, Due(d)', q = p, d = c,
                      store'[p] # store[p]
               PROVE  GetToken(store'[q], d) = held'[d]
    BY <1>5, <1>6 DEF WithToken
  <2>1. task[p].op = "bind" /\ b /\ store'[p] = st
    BY <1>5
  <2>2. held[c] = t
    BY <1>3, <2>1 DEF Due
  <2> QED
    BY <1>1, <1>6, <2>1, <2>2 DEF WithToken
<1>10. \A q \in Programs : phase'[q] = "write" <=> phase[q] = "write"
  BY <1>1, <1>5
<1>11. \A q \in Programs, d \in Chargers : Own(q, d) => Own(q, d)'
  BY <1>1, <1>5 DEF Own
<1>12. (OnDisk /\ Recent /\ Alone /\ Counted)'
  BY <1>1, <1>7, <1>8, <1>9, <1>10, <1>11, KnownStays
<1>13. Told'
  BY <1>1, <1>5, <1>6 DEF BindInv, Told, WithToken, c, t
<1> QED
  BY <1>12, <1>13 DEF BindInv

LEMMA TruncateKnown ==
  ASSUME TypeInv, BindInv, NEW p \in Programs, Truncate(p)
  PROVE  BindInv'
<1>1. /\ phase[p] = "truncate" /\ file' = <<>>
      /\ \A q \in Programs : phase'[q] = IF q = p THEN "write" ELSE phase[q]
      /\ UNCHANGED <<store, task, held, saves, seen, excused>>
  BY DEF Truncate, TypeInv, charger, told
<1>2. W' = W \union {p} /\ p \notin W
  BY <1>1 DEF W
<1>3. OnDisk' /\ Alone'
  BY <1>1, <1>2 DEF OnDisk, Alone
<1>4. Recent'
  <2> SUFFICES ASSUME NEW q \in Programs, seen[q] = saves, ~ \E x \in W \union {p} : x # q,
                      NEW d \in Chargers, Due(d)', ~Own(q, d)'
               PROVE  GetToken(store[q], d) = held[d]
    BY <1>1, <1>2 DEF Recent
  <2>1. q = p
    OBVIOUS
  <2>2. task[p].charger # d
    BY <1>1, <2>1 DEF Own
  <2>3. Due(d)
    BY <1>1, <2>2, DueBefore DEF PendingBy
  <2>4. ~Own(q, d) /\ ~ \E x \in W : x # q
    BY <2>1, <2>2 DEF Own
  <2> QED
    BY <2>3, <2>4 DEF BindInv, Recent
<1>5. Told' /\ Counted'
  BY <1>1 DEF BindInv, Told, Counted
<1> QED
  BY <1>3, <1>4, <1>5 DEF BindInv

LEMMA WriteKnown ==
  ASSUME TypeInv, BindInv, NEW p \in Programs, Write(p)
  PROVE  BindInv'
<1> DEFINE c == task[p].charger
           t == task[p].token
<1>1. /\ phase[p] = "write" /\ c \in Chargers
      /\ file' = Over(file, Text(p))
      /\ \A q \in Programs \ {p} : phase'[q] = phase[q] /\ seen'[q] = seen[q]
      /\ phase'[p] \in {"ready", "closed"} /\ seen'[p] = saves + 1
      /\ saves' = saves + 1
      /\ UNCHANGED <<store, task, held>>
  BY DEF Write, TypeInv, TypeOK, charger, After
<1>2. excused' = IF held[c] = t /\ file = <<>>
                 THEN (IF seen[p] = saves THEN excused ELSE Chargers) \ {c}
                 ELSE (IF seen[p] = saves THEN excused ELSE Chargers) \union {c}
  BY DEF Write
<1>3. saves \in Nat /\ \A q \in Programs : seen[q] \in Nat /\ seen[q] <= saves
  BY DEF BindInv, Counted, TypeInv
<1>4. W' = W \ {p} /\ p \in W
  BY <1>1 DEF W
<1>5. Written(p, Text(p))
  BY <1>1, TextWritten DEF Asks
<1>6. file = <<>> => file' = Text(p)
  <2>1. file \in Seq(Line) /\ Text(p) \in Seq(Line)
    BY <1>5 DEF Written, TypeInv, TypeOK
  <2> QED
    BY <1>1, <2>1, OverOfText DEF Overwritten
<1> HIDE DEF c, t
<1>7. \A d \in Chargers : (Due(d)' /\ d # c) => d \notin excused /\ seen[p] = saves
  BY <1>2 DEF Due
<1>8. ASSUME NEW d \in Chargers, Due(d)', d # c, W = {p}
      PROVE  GetToken(store[p], d) = held[d] /\ file = <<>>
  <2>1. d \notin excused /\ seen[p] = saves
    BY <1>7, <1>8
  <2>2. Due(d)
    BY <1>1, <1>2, <1>8, <2>1, DueBefore DEF PendingBy
  <2>3. ~Own(p, d) /\ ~ \E x \in W : x # p
    BY <1>8 DEF Own, c
  <2> QED
    BY <1>4, <2>1, <2>2, <2>3 DEF BindInv, Recent, Alone
<1>9. \A d \in Chargers : (Due(d)' /\ d = c) => held[d] = t /\ file = <<>>
  BY <1>1, <1>2 DEF Due
<1>10. OnDisk'
  <2> SUFFICES ASSUME W \ {p} = {}, NEW d \in Chargers, Due(d)'
               PROVE  GetToken(Load(file'), d) = held[d]
    BY <1>1, <1>4 DEF OnDisk
  <2>1. W = {p}
    BY <1>4
  <2>2. CASE d = c
    BY <1>5, <1>6, <1>9, <2>2 DEF Written, c, t
  <2>3. CASE d # c
    BY <1>5, <1>6, <1>8, <2>1, <2>3 DEF Written, c
  <2> QED
    BY <2>2, <2>3
<1>11. Recent'
  <2> SUFFICES ASSUME NEW q \in Programs, seen'[q] = saves + 1, ~ \E x \in W \ {p} : x # q,
                      NEW d \in Chargers, Due(d)', ~Own(q, d)'
               PROVE  GetToken(store[q], d) = held[d]
    BY <1>1, <1>4 DEF Recent
  <2>1. q = p /\ W = {p}
    BY <1>1, <1>3, <1>4
  <2>2. CASE d = c
    <3>1. p \in Windows
      BY <1>1, <2>1, <2>2 DEF Own, Programs, c
    <3>2. GetToken(store[p], c) = t
      BY <1>1, <3>1 DEF BindInv, Told, c, t
    <3> QED
      BY <1>9, <2>1, <2>2, <3>2
  <2>3. CASE d # c
    BY <1>8, <2>1, <2>3
  <2> QED
    BY <2>2, <2>3
<1>12. Alone'
  BY <1>1, <1>3, <1>4 DEF Alone, W
<1>13. Told'
  BY <1>1 DEF BindInv, Told
<1>14. Counted'
  BY <1>1, <1>3 DEF Counted
<1> QED
  BY <1>10, <1>11, <1>12, <1>13, <1>14 DEF BindInv

\* A program that fails while it writes spoils the file.
LEMMA SpoiltKnown ==
  ASSUME TypeInv, BindInv, NEW p \in Programs, NEW x \in {"ready", "closed"},
         phase' = [phase EXCEPT ![p] = x], excused' = Chargers,
         UNCHANGED <<store, task, held, saves, seen>>
  PROVE  BindInv'
<1>1. \A d \in Chargers : ~Due(d)'
  BY DEF Due
<1>2. OnDisk' /\ Recent' /\ Alone'
  BY <1>1 DEF OnDisk, Recent, Alone
<1>3. Told' /\ Counted'
  BY DEF BindInv, Told, Counted, TypeInv
<1> QED
  BY <1>2, <1>3 DEF BindInv

\* One that ends before, or does anything else, forgets what its charger took.
LEMMA ForgetsKnown ==
  ASSUME TypeInv, BindInv, NEW p \in Programs, NEW x \in Phases \ {"truncate", "write"},
         phase[p] # "write", phase' = [phase EXCEPT ![p] = x],
         UNCHANGED <<store, task, held, file, saves, seen>>,
         \/ excused' = excused /\ phase[p] \notin {"asked", "truncate"}
         \/ Forgets(p) /\ phase[p] \in {"asked", "truncate"}
  PROVE  BindInv'
<1>1. \A q \in Programs : phase'[q] = IF q = p THEN x ELSE phase[q]
  BY DEF TypeInv
<1>2. /\ excused \subseteq excused' /\ excused' \subseteq Chargers
      /\ (phase[p] \in {"asked", "truncate"} /\ task[p].op = "bind" /\ task[p].took)
           => task[p].charger \in excused'
  BY DEF Forgets, TypeInv, TypeOK
<1>3. \A d \in Chargers : Due(d)' => Due(d) /\ held'[d] = held[d]
  BY <1>1, <1>2, DueBefore DEF PendingBy
<1>4. (OnDisk /\ Recent /\ Alone /\ Counted)'
  BY <1>1, <1>2, <1>3, KnownStays DEF Own
<1>5. Told'
  BY <1>1 DEF BindInv, Told
<1> QED
  BY <1>4, <1>5 DEF BindInv

LEMMA OutsideKnown ==
  ASSUME TypeInv, BindInv, NEW c \in Chargers, Outside(c)
  PROVE  BindInv'
<1>1. /\ UNCHANGED <<phase, store, task, file, saves, seen, excused>>
      /\ \A d \in Chargers : held'[d] = held[d] \/ held'[d] = Foreign
  BY DEF Outside, programs, told, TypeInv, TypeOK
<1>2. Foreign \notin Tokens
  BY BoundsAssumption DEF Foreign, Tokens
<1>3. \A d \in Chargers : Due(d)' => Due(d) /\ held'[d] = held[d]
  BY <1>1, <1>2 DEF Due, Pending, PendingBy
<1>4. (OnDisk /\ Recent /\ Alone /\ Counted)'
  BY <1>1, <1>3, KnownStays DEF Own
<1>5. Told'
  BY <1>1 DEF BindInv, Told
<1> QED
  BY <1>4, <1>5 DEF BindInv

LEMMA BindKept == TypeInv /\ BindInv /\ [Next]_vars => BindInv'
<1> SUFFICES ASSUME TypeInv, BindInv, [Next]_vars PROVE BindInv'
  OBVIOUS
<1>1. ASSUME NEW p \in Programs, SaveFails(p) PROVE BindInv'
  <2>1. CASE phase[p] = "write"
    BY <1>1, <2>1, SpoiltKnown DEF SaveFails, After, charger
  <2>2. CASE phase[p] # "write"
    <3>1. phase' = [phase EXCEPT ![p] = After(p)]
      BY <1>1 DEF SaveFails
    <3>2. After(p) \in Phases \ {"truncate", "write"}
      BY DEF After, Phases
    <3>3. phase[p] = "truncate" /\ Forgets(p) /\ file' = file
      BY <1>1, <2>2 DEF SaveFails
    <3>4. UNCHANGED <<store, task, held, saves, seen>>
      BY <1>1 DEF SaveFails, charger
    <3> QED
      BY <3>1, <3>2, <3>3, <3>4, ForgetsKnown
  <2> QED
    BY <2>1, <2>2
<1>2. ASSUME NEW p \in Programs, Killed(p) PROVE BindInv'
  <2>1. CASE phase[p] = "write"
    BY <1>2, <2>1, SpoiltKnown DEF Killed, charger
  <2>2. CASE phase[p] # "write"
    BY <1>2, <2>2, ForgetsKnown DEF Killed, charger, Phases
  <2> QED
    BY <2>1, <2>2
<1>3. ASSUME NEW p \in Programs, GiveUp(p) PROVE BindInv'
  <2>1. \E x \in Phases \ {"truncate", "write"} : phase' = [phase EXCEPT ![p] = x]
    BY <1>3 DEF GiveUp, Failed, After, Phases
  <2> QED
    BY <1>3, <2>1, ForgetsKnown DEF GiveUp, charger
<1>4. ASSUME NEW p \in Programs,
             Leave(p) \/ LinkDrops(p) \/ KeepAlive(p) \/ TypesOnce(p)
      PROVE  BindInv'
  <2>1. /\ \E x \in Phases \ {"truncate", "write"} : phase' = [phase EXCEPT ![p] = x]
        /\ phase[p] \notin {"asked", "truncate", "write"}
        /\ UNCHANGED <<store, task, held, file, saves, seen, excused>>
    BY <1>4 DEF Leave, LinkDrops, KeepAlive, TypesOnce, Phases, charger, told
  <2> QED
    BY <2>1, ForgetsKnown
<1>6. ASSUME NEW p \in Shells, SetAside(p) PROVE BindInv'
  BY <1>6 DEF SetAside, programs, charger, told, BindInv, OnDisk, Recent, Alone, Told,
              Counted, W, Due, Own, Pending, PendingBy
<1>5. CASE UNCHANGED vars
  BY <1>5 DEF vars, programs, charger, told, BindInv, OnDisk, Recent, Alone, Told,
              Counted, W, Due, Own, Pending, PendingBy
<1> QED
  BY <1>1, <1>2, <1>3, <1>4, <1>5, <1>6, WindowAsksKnown, ShellBindsKnown,
     RunCommandKnown, ConnectKnown, OpenWindowKnown, TakeKnown, HandleKnown,
     TruncateKnown, WriteKnown, OutsideKnown DEF Next

\* What the copies of load, the two halves of save and the binds under way owe
\* the file, in every state.
THEOREM Invariant == Spec => [](TypeInv /\ BindInv)
  BY TypesAtFirst, TypesKept, BindAtFirst, BindKept, PTL DEF Spec

\* A charger that holds an identifier of this host finds it in the file, unless
\* one of the named mishaps has cost it its line.
THEOREM KnownIsOnDisk == Spec => []KnownUnlessMishap
<1>1. TypeInv /\ BindInv => KnownUnlessMishap
  <2> SUFFICES ASSUME BindInv, ~Saving, NEW c \in Chargers \ excused,
                      held[c] \in Tokens, ~UnderWay(c)
               PROVE  GetToken(Load(file), c) = held[c]
    BY DEF KnownUnlessMishap
  <2>1. W = {}
    BY DEF W, Saving
  <2>2. Due(c)
    BY DEF Due, Pending, PendingBy, UnderWay
  <2> QED
    BY <2>1, <2>2 DEF BindInv, OnDisk
<1> QED
  BY <1>1, Invariant, PTL
=============================================================================
