---------------------------- MODULE FrameProofs ----------------------------
(***************************************************************************)
(* Proofs about the framing layer, for any bytes, any stream and any way   *)
(* of cutting it: what the decoder makes of a stream (Decoder), and of     *)
(* replies whose notifications are lost, cut short or mixed with noise     *)
(* (Notifications).                                                        *)
(***************************************************************************)
EXTENDS Decoder, Notifications, TLAPS, SequenceTheorems, WellFoundedInduction

(* What a recursion over a sequence computes                               *)

LEMMA NatLessWellFounded ==
  IsWellFoundedOn({p \in Nat \X Nat : p[1] < p[2]}, Nat)
  BY NatLessThanWellFounded, Zenon DEF OpToRel

\* Induction, for a set of numbers.
LEMMA Induction ==
  ASSUME NEW S \in SUBSET Nat, 0 \in S, \A n \in S : n + 1 \in S
  PROVE  S = Nat
<1> SUFFICES ASSUME Nat \ S # {} PROVE FALSE
  OBVIOUS
<1> DEFINE R == {p \in Nat \X Nat : p[1] < p[2]}
           T == Nat \ S
<1>1. \A x, y \in Nat : y < x => <<y, x>> \in R
  OBVIOUS
<1>2. IsWellFoundedOn(R, Nat)
  BY NatLessWellFounded
<1>3. T \subseteq Nat /\ T # {}
  OBVIOUS
<1> HIDE DEF R, T
<1>4. PICK x \in T : \A y \in T : ~ (<<y, x>> \in R)
  BY <1>2, <1>3, WFMin, Zenon
<1>5. \A y \in T : ~ (y < x)
  BY <1>1, <1>3, <1>4
<1> QED
  BY <1>3, <1>4, <1>5 DEF T

\* f computes the values of a recursion over s, one byte or more at a time.
Computes(f, N, base, step, s) ==
  f[0] = base /\ \A n \in 1 .. N : f[n] = step[<<f[n - 1], s[n]>>]

\* A recursion over elements of E with values in X.
Recursion(X, E, base, step) == base \in X /\ step \in [X \X E -> X]

\* What any solution satisfies.
Obeys(g, N, X, E, base, step, s) ==
  /\ g[0] = base
  /\ \A n \in 1 .. N : s[n] \in E /\ (g[n - 1] \in X => g[n] = step[<<g[n - 1], s[n]>>])

Agrees(f, g, N, X) == \A n \in 0 .. N : f[n] = g[n] /\ f[n] \in X

\* The recursion has a solution.
LEMMA Computable ==
  ASSUME NEW X, NEW E, NEW base, NEW step, Recursion(X, E, base, step), NEW s \in Seq(E)
  PROVE  \E f \in [0 .. Len(s) -> X] : Computes(f, Len(s), base, step, s)
<1> DEFINE K == {m \in Nat : m <= Len(s) =>
                    \E f \in [0 .. m -> X] : Computes(f, m, base, step, s)}
<1>0. Len(s) \in Nat /\ base \in X /\ step \in [X \X E -> X]
  BY DEF Recursion
<1>1. 0 \in K
  <2> DEFINE f == [n \in 0 .. 0 |-> base]
  <2>1. f \in [0 .. 0 -> X] /\ Computes(f, 0, base, step, s)
    BY <1>0 DEF Computes
  <2> HIDE DEF f
  <2> QED
    BY <2>1
<1>2. ASSUME NEW m \in K PROVE m + 1 \in K
  <2> SUFFICES ASSUME m + 1 <= Len(s)
               PROVE  \E f \in [0 .. m + 1 -> X] : Computes(f, m + 1, base, step, s)
    OBVIOUS
  <2>1. m \in Nat /\ m <= Len(s) /\ s[m + 1] \in E
    BY <1>0
  <2>2. PICK f \in [0 .. m -> X] : Computes(f, m, base, step, s)
    BY <2>1
  <2> DEFINE g == [n \in 0 .. m + 1 |-> IF n = m + 1 THEN step[<<f[m], s[m + 1]>>] ELSE f[n]]
  <2>3. f[m] \in X /\ step[<<f[m], s[m + 1]>>] \in X
    BY <1>0, <2>1
  <2>4. g \in [0 .. m + 1 -> X] /\ g[m + 1] = step[<<f[m], s[m + 1]>>]
    BY <2>1, <2>3
  <2>5. \A n \in 0 .. m : g[n] = f[n]
    BY <2>1
  <2> HIDE DEF g
  <2>6. g[0] = base
    BY <2>1, <2>2, <2>5 DEF Computes
  <2>7. ASSUME NEW n \in 1 .. m + 1 PROVE g[n] = step[<<g[n - 1], s[n]>>]
    <3>1. CASE n = m + 1
      <4>1. n - 1 = m /\ m \in 0 .. m
        BY <2>1, <3>1
      <4>2. g[m] = f[m]
        BY <2>5, <4>1
      <4> QED
        BY <2>4, <3>1, <4>1, <4>2
    <3>2. CASE n # m + 1
      <4>1. n \in 1 .. m /\ n \in 0 .. m /\ n - 1 \in 0 .. m
        BY <2>1, <3>2
      <4> QED
        BY <2>2, <2>5, <4>1 DEF Computes
    <3> QED
      BY <3>1, <3>2
  <2> QED
    BY <2>4, <2>6, <2>7 DEF Computes
<1>3. K \in SUBSET Nat
  OBVIOUS
<1> HIDE DEF K
<1>4. Len(s) \in K
  BY <1>0, <1>1, <1>2, <1>3, Induction
<1> QED
  BY <1>4 DEF K

\* The recursion has one solution, and it does not look ahead.
LEMMA ComputesOne ==
  ASSUME NEW X, NEW E, NEW base, NEW step, Recursion(X, E, base, step), NEW N \in Nat,
         NEW s, NEW f, Computes(f, N, base, step, s),
         NEW g, Obeys(g, N, X, E, base, step, s)
  PROVE  Agrees(f, g, N, X)
<1> DEFINE K == {m \in Nat : m <= N => f[m] = g[m] /\ f[m] \in X}
<1>0. base \in X /\ step \in [X \X E -> X]
  BY DEF Recursion
<1>1. 0 \in K
  BY <1>0 DEF Computes, Obeys
<1>2. ASSUME NEW m \in K PROVE m + 1 \in K
  <2> SUFFICES ASSUME m + 1 <= N PROVE f[m + 1] = g[m + 1] /\ f[m + 1] \in X
    OBVIOUS
  <2>1. m \in Nat /\ m + 1 \in 1 .. N /\ (m + 1) - 1 = m /\ m <= N
    OBVIOUS
  <2>2. f[m] = g[m] /\ f[m] \in X /\ s[m + 1] \in E
    BY <2>1 DEF Obeys
  <2>3. f[m + 1] = step[<<f[m], s[m + 1]>>]
    BY <2>1 DEF Computes
  <2>4. g[m + 1] = step[<<g[m], s[m + 1]>>]
    BY <2>1, <2>2 DEF Obeys
  <2> QED
    BY <1>0, <2>2, <2>3, <2>4
<1>3. K \in SUBSET Nat
  OBVIOUS
<1> HIDE DEF K
<1>4. K = Nat
  BY <1>1, <1>2, <1>3, Induction
<1> QED
  BY <1>4 DEF K, Agrees

(* The decoder, byte by byte                                                *)

Decoders == [state : DecoderStates, sync_run : Nat, remaining : 0 .. MAX_DATA_LEN,
             checksum : Byte, buffer : Seq(Byte), out : Seq(Seq(Byte))]

\* What a decoder satisfies before and after a byte.
Sound(d) ==
  /\ d \in Decoders
  /\ d.state = "WaitData" =>
       d.remaining > 0 /\ Len(d.buffer) + d.remaining <= MAX_DATA_LEN
  /\ d.state = "WaitChecksum" =>
       d.remaining = 0 /\ Len(d.buffer) \in 1 .. MAX_DATA_LEN
  /\ Len(d.out) <= 1
  /\ \A i \in DOMAIN d.out : Len(d.out[i]) \in 1 .. MAX_DATA_LEN

Settled(d) == Sound(d) /\ d.state # "WaitAddress"

\* The countdown starts from a byte, and checksums wrap within one.
LEMMA ByteFacts ==
  /\ Byte \subseteq Nat /\ Byte = 0 .. MAX_DATA_LEN /\ ADDR_TO_HOST \in Byte
  /\ \A x, y \in Byte : (x + y) % 256 \in Byte
<1>1. /\ Byte \subseteq Nat /\ Byte = 0 .. MAX_DATA_LEN /\ ADDR_TO_HOST \in Byte
  BY DEF Byte, MAX_DATA_LEN, ADDR_TO_HOST
<1>2. ASSUME NEW x \in Byte, NEW y \in Byte PROVE (x + y) % 256 \in Byte
  <2>1. x \in Nat /\ y \in Nat
    BY <1>1
  <2>2. (x + y) % 256 \in 0 .. 255
    BY <2>1
  <2> QED
    BY <2>2 DEF Byte
<1> QED
  BY <1>1, <1>2

\* Taking one byte off the countdown and adding it to the buffer.
LEMMA OneByteOn ==
  ASSUME NEW n \in Nat, NEW r \in 0 .. MAX_DATA_LEN, r > 0, n + r <= MAX_DATA_LEN
  PROVE  /\ r - 1 \in 0 .. MAX_DATA_LEN /\ n + 1 \in 1 .. MAX_DATA_LEN
         /\ (n + 1) + (r - 1) <= MAX_DATA_LEN
         /\ r = 1 \/ r - 1 > 0
  BY DEF MAX_DATA_LEN

\* Nothing yielded is no frame of a wrong length.
LEMMA NothingYielded ==
  /\ <<>> \in Seq(Byte) /\ <<>> \in Seq(Seq(Byte))
  /\ Len(<<>>) = 0 /\ DOMAIN <<>> = {}
  BY EmptySeq

\* A decoder that waits for none of the three later fields needs only types.
LEMMA QuietIsSettled ==
  ASSUME NEW d \in Decoders, d.out = <<>>, d.state \in {"WaitSync", "WaitLength"}
  PROVE  Settled(d)
  BY NothingYielded DEF Settled, Sound

\* Whatever state the match on the state is entered in, it leaves the decoder
\* settled: no address stays pending.
LEMMA DispatchSettles ==
  ASSUME NEW d, Sound(d), d.out = <<>>, NEW b \in Byte
  PROVE  Settled(Dispatch(d, b))
<1> DEFINE e == Dispatch(d, b)
<1>0. /\ d \in Decoders /\ d.checksum \in Byte /\ d.buffer \in Seq(Byte)
      /\ d.remaining \in 0 .. MAX_DATA_LEN
  BY DEF Sound, Decoders
<1>1. CASE d.state = "WaitAddress"
  <2>1. e = TakeAddress(d, b)
    BY <1>1 DEF Dispatch
  <2>2. /\ e \in Decoders /\ e.out = <<>> /\ e.state \in {"WaitSync", "WaitLength"}
    BY <1>0, <2>1 DEF TakeAddress, Decoders, DecoderStates
  <2> QED
    BY <2>2, QuietIsSettled
<1>2. CASE d.state = "WaitLength"
  <2>1. e = TakeLength(d, b)
    BY <1>2 DEF Dispatch
  <2>2. (d.checksum + b) % 256 \in Byte
    BY ZenonT(40), <1>0, ByteFacts
  <2>3. /\ e \in Decoders /\ e.out = <<>> /\ e.buffer = <<>> /\ e.remaining = b
        /\ \/ e.state = "WaitSync"
           \/ e.state = "WaitData" /\ b # 0 /\ ~(b > MAX_DATA_LEN)
    <3> DEFINE st == IF b = 0 \/ b > MAX_DATA_LEN THEN "WaitSync" ELSE "WaitData"
               sum == (d.checksum + b) % 256
    <3>1. e = [d EXCEPT !.remaining = b, !.checksum = sum, !.buffer = <<>>,
                        !.state = st]
      BY <2>1 DEF TakeLength
    <3>2. b \in 0 .. MAX_DATA_LEN /\ st \in DecoderStates /\ sum \in Byte
      BY <2>2, ByteFacts DEF DecoderStates
    <3> HIDE DEF st, sum, e
    <3>3. /\ e \in Decoders /\ e.out = <<>> /\ e.buffer = <<>> /\ e.remaining = b
          /\ e.state = st
      BY <1>0, <3>1, <3>2, NothingYielded DEF Decoders
    <3> QED
      BY <3>3 DEF st
  <2>4. b \in 0 .. 255 /\ MAX_DATA_LEN = 255
    BY DEF Byte, MAX_DATA_LEN
  <2> HIDE DEF e
  <2>5. ASSUME e.state = "WaitSync" PROVE Settled(e)
    BY <2>3, <2>5, QuietIsSettled
  <2>6. ASSUME e.state = "WaitData", b # 0 PROVE Settled(e)
    <3>1. e.remaining > 0 /\ Len(e.buffer) = 0 /\ e.remaining <= MAX_DATA_LEN
      BY <2>3, <2>4, <2>6, NothingYielded
    <3>2. Len(e.out) = 0 /\ DOMAIN e.out = {}
      BY <2>3, NothingYielded
    <3>3. Len(e.out) <= 1 /\ \A i \in DOMAIN e.out : Len(e.out[i]) \in 1 .. MAX_DATA_LEN
      BY <3>2
    <3>4. e.remaining > 0 /\ Len(e.buffer) + e.remaining <= MAX_DATA_LEN
      <4>1. e.remaining \in Nat
        BY <2>3, <2>4
      <4> QED
        BY <3>1, <4>1
    <3>5. e.state # "WaitChecksum" /\ e.state # "WaitAddress"
      BY <2>6
    <3> QED
      BY <2>3, <3>3, <3>4, <3>5, Zenon DEF Settled, Sound
  <2> QED
    BY <2>3, <2>5, <2>6 DEF e
<1>3. CASE d.state = "WaitData"
  <2>1. e = TakeData(d, b)
    BY <1>3 DEF Dispatch
  <2>2. (d.checksum + b) % 256 \in Byte
    BY ZenonT(40), <1>0, ByteFacts
  <2>3. /\ Append(d.buffer, b) \in Seq(Byte) /\ Len(d.buffer) \in Nat
        /\ Len(Append(d.buffer, b)) = Len(d.buffer) + 1
    BY <1>0
  <2>4. /\ d.remaining - 1 \in 0 .. MAX_DATA_LEN
        /\ Len(d.buffer) + 1 \in 1 .. MAX_DATA_LEN
        /\ (Len(d.buffer) + 1) + (d.remaining - 1) <= MAX_DATA_LEN
        /\ d.remaining = 1 \/ d.remaining - 1 > 0
    <3>1. d.remaining > 0 /\ Len(d.buffer) + d.remaining <= MAX_DATA_LEN
      BY <1>3 DEF Sound
    <3> QED
      BY <1>0, <2>3, <3>1, OneByteOn
  <2>5. /\ e \in Decoders /\ e.out = <<>> /\ e.remaining = d.remaining - 1
        /\ e.buffer = Append(d.buffer, b)
        /\ e.state = IF d.remaining = 1 THEN "WaitChecksum" ELSE "WaitData"
    <3> DEFINE st == IF d.remaining = 1 THEN "WaitChecksum" ELSE "WaitData"
               buf == Append(d.buffer, b)
               sum == (d.checksum + b) % 256
               left == d.remaining - 1
    <3>1. e = [d EXCEPT !.buffer = buf, !.checksum = sum, !.remaining = left,
                        !.state = st]
      BY <1>3, <2>1 DEF TakeData
    <3>2. /\ st \in DecoderStates /\ buf \in Seq(Byte) /\ sum \in Byte
          /\ left \in 0 .. MAX_DATA_LEN
      BY <2>2, <2>3, <2>4 DEF DecoderStates
    <3> HIDE DEF st, buf, sum, left
    <3>3. /\ e \in Decoders /\ e.out = <<>> /\ e.remaining = left
          /\ e.buffer = buf /\ e.state = st
      BY <1>0, <3>1, <3>2 DEF Decoders
    <3> QED
      BY <3>3 DEF st, buf, left
  <2>6. Len(e.buffer) = Len(d.buffer) + 1
    BY <2>3, <2>5
  <2>7. CASE d.remaining = 1
    <3>1. e.state = "WaitChecksum" /\ e.remaining = 0
      BY <2>5, <2>7
    <3> QED
      BY <2>4, <2>5, <2>6, <3>1, NothingYielded DEF Settled, Sound
  <2>8. CASE d.remaining # 1
    <3>1. e.state = "WaitData" /\ e.remaining > 0
      BY <2>4, <2>5, <2>8
    <3>2. Len(e.buffer) + e.remaining <= MAX_DATA_LEN
      BY <2>4, <2>5, <2>6
    <3> QED
      BY <2>5, <3>1, <3>2, NothingYielded DEF Settled, Sound
  <2> QED
    BY <2>7, <2>8
<1>4. CASE d.state = "WaitChecksum"
  <2>1. e = TakeChecksum(d, b)
    BY <1>4 DEF Dispatch
  <2>2. <<d.buffer>> \in Seq(Seq(Byte)) /\ Len(<<d.buffer>>) = 1
    BY <1>0
  <2>3. /\ e \in Decoders /\ e.state = "WaitSync"
        /\ e.out = <<>> \/ e.out = <<d.buffer>>
    BY <1>0, <2>1, <2>2, NothingYielded DEF TakeChecksum, Decoders, DecoderStates
  <2>4. Len(d.buffer) \in 1 .. MAX_DATA_LEN
    BY <1>4 DEF Sound
  <2>5. CASE e.out = <<>>
    BY <2>3, <2>5, QuietIsSettled
  <2>6. CASE e.out = <<d.buffer>>
    <3>1. Len(e.out) <= 1 /\ \A i \in DOMAIN e.out : e.out[i] = d.buffer
      BY <2>2, <2>6
    <3> QED
      BY <2>3, <2>4, <3>1 DEF Settled, Sound
  <2> QED
    BY <2>3, <2>5, <2>6
<1>5. CASE d.state = "WaitSync"
  <2>1. e = d
    BY <1>5 DEF Dispatch
  <2> QED
    BY <1>5, <2>1 DEF Settled
<1> QED
  BY <1>0, <1>1, <1>2, <1>3, <1>4, <1>5 DEF Decoders, DecoderStates

\* push_byte takes a settled decoder to a settled one.
LEMMA PushByteSettles ==
  ASSUME NEW d, Settled(d), NEW b \in Byte
  PROVE  Settled(PushByte(d, b))
<1> DEFINE c == [d EXCEPT !.out = <<>>]
           odd == c.sync_run % 2 = 1
           more == [c EXCEPT !.sync_run = @ + 1]
           none == [c EXCEPT !.sync_run = 0,
                             !.state = IF odd THEN "WaitAddress" ELSE @]
<1>1. d \in Decoders /\ d.sync_run + 1 \in Nat
  BY DEF Settled, Sound, Decoders
<1>2. Sound(more) /\ more.out = <<>> /\ more.state # "WaitAddress"
  <2>1. /\ more \in Decoders /\ more.out = <<>> /\ more.state = d.state
        /\ more.remaining = d.remaining /\ more.buffer = d.buffer
    BY <1>1, NothingYielded DEF Decoders
  <2> QED
    BY <2>1, NothingYielded DEF Settled, Sound
<1>3. Sound(none) /\ none.out = <<>>
  <2>1. /\ none \in Decoders /\ none.out = <<>>
        /\ none.state = d.state \/ none.state = "WaitAddress"
        /\ none.remaining = d.remaining /\ none.buffer = d.buffer
    BY <1>1, NothingYielded DEF Decoders, DecoderStates
  <2> QED
    BY <2>1, NothingYielded DEF Settled, Sound
<1>4. \/ PushByte(d, b) = Dispatch(more, b)
      \/ PushByte(d, b) = more
      \/ PushByte(d, b) = Dispatch(none, b)
  BY DEF PushByte
<1> HIDE DEF more, none
<1> QED
  BY <1>2, <1>3, <1>4, DispatchSettles DEF Settled

DecoderIsSettled == Settled(dec)

LEMMA NewDecoderIsSettled == Settled(NewDecoder)
  BY EmptySeq DEF Settled, Sound, Decoders, DecoderStates, NewDecoder, Byte, MAX_DATA_LEN

\* Between two bytes a decoder holds nothing but a frame under way that it has
\* room and countdown for.
THEOREM DecoderIsSound == DecoderSpec => []DecoderInv
<1>1. DecoderInit => DecoderIsSettled
  BY NewDecoderIsSettled DEF DecoderInit, DecoderIsSettled
<1>2. DecoderIsSettled /\ [DecoderNext]_<<dec, heard>> => DecoderIsSettled'
  <2> SUFFICES ASSUME DecoderIsSettled, [DecoderNext]_<<dec, heard>> PROVE DecoderIsSettled'
    OBVIOUS
  <2>1. ASSUME NEW b \in Alphabet, Hear(b) PROVE DecoderIsSettled'
    BY <2>1, PushByteSettles, AlphabetAssumption DEF Hear, DecoderIsSettled
  <2>2. ASSUME Reset PROVE DecoderIsSettled'
    BY <2>2, NewDecoderIsSettled DEF Reset, ResetDecoder, DecoderIsSettled
  <2>3. ASSUME UNCHANGED <<dec, heard>> PROVE DecoderIsSettled'
    BY <2>3 DEF DecoderIsSettled
  <2> QED
    BY <2>1, <2>2, <2>3 DEF DecoderNext
<1>3. DecoderIsSettled => DecoderInv
  BY DEF DecoderIsSettled, Settled, Sound, Decoders, DecoderInv
<1> QED
  BY <1>1, <1>2, <1>3, PTL DEF DecoderSpec
(* The checksum, stuffing, and feeding a slice                             *)

SumStep == [p \in Byte \X Byte |-> (p[1] + p[2]) % 256]
SumOf(f, s) == Computes(f, Len(s), 0, SumStep, s)

LEMMA SumStepType == Recursion(Byte, Byte, 0, SumStep)
<1>1. ASSUME NEW p \in Byte \X Byte PROVE (p[1] + p[2]) % 256 \in Byte
  <2>1. p[1] \in Byte /\ p[2] \in Byte
    OBVIOUS
  <2> QED
    BY <2>1, ByteFacts, Zenon
<1> QED
  BY <1>1 DEF SumStep, Byte, Recursion

LEMMA SumIs ==
  ASSUME NEW s \in Seq(Byte), NEW f, SumOf(f, s)
  PROVE  ByteSum(s) = f[Len(s)] /\ \A n \in 0 .. Len(s) : f[n] \in Byte
<1> DEFINE N == Len(s)
           One(k, n) == IF n = 0 THEN 0 ELSE (k[n - 1] + s[n]) % 256
           IsSum(k) == k = [n \in 0 .. N |-> One(k, n)]
           sum == CHOOSE k : IsSum(k)
<1>1. N \in Nat /\ \A n \in 1 .. N : s[n] \in Byte
  OBVIOUS
<1>2. ByteSum(s) = sum[N]
  BY DEF ByteSum
<1>3. \A n \in 1 .. N : \A x \in Byte : SumStep[<<x, s[n]>>] = (x + s[n]) % 256
  BY <1>1 DEF SumStep
<1>4. ASSUME NEW g, \A n \in 0 .. N : g[n] = One(g, n)
      PROVE  \A n \in 0 .. N : f[n] = g[n] /\ f[n] \in Byte
  <2>1. Obeys(g, N, Byte, Byte, 0, SumStep, s)
    <3>1. g[0] = 0
      BY <1>1, <1>4
    <3>2. \A n \in 1 .. N : g[n] = (g[n - 1] + s[n]) % 256
      BY <1>1, <1>4
    <3> QED
      BY <1>1, <1>3, <3>1, <3>2 DEF Obeys
  <2>2. Computes(f, N, 0, SumStep, s)
    BY DEF SumOf
  <2> HIDE DEF N, One
  <2> QED
    BY <1>1, <2>1, <2>2, SumStepType, ComputesOne DEF Agrees
<1>5. \E k : IsSum(k)
  <2> DEFINE k == [n \in 0 .. N |-> f[n]]
  <2>1. \A n \in 0 .. N : f[n] \in Byte
    <3>1. Computes(f, N, 0, SumStep, s)
      BY DEF SumOf
    <3>2. Obeys(f, N, Byte, Byte, 0, SumStep, s)
      BY <1>1, <3>1 DEF Computes, Obeys
    <3> HIDE DEF N
    <3> QED
      BY <1>1, <3>1, <3>2, SumStepType, ComputesOne DEF Agrees
  <2>2. ASSUME NEW n \in 0 .. N PROVE k[n] = One(k, n)
    <3>1. CASE n = 0
      BY <1>1, <3>1 DEF SumOf, Computes
    <3>2. CASE n # 0
      <4>1. n \in 1 .. N /\ n - 1 \in 0 .. N
        BY <1>1, <3>2
      <4>2. f[n] = SumStep[<<f[n - 1], s[n]>>]
        BY <4>1 DEF SumOf, Computes
      <4> QED
        BY <1>3, <2>1, <3>2, <4>1, <4>2
    <3> QED
      BY <3>1, <3>2
  <2>3. k = [n \in 0 .. N |-> One(k, n)]
    <3> HIDE DEF One
    <3>1. k = [n \in 0 .. N |-> k[n]]
      OBVIOUS
    <3> HIDE DEF k
    <3> QED
      BY <2>2, <3>1
  <2> HIDE DEF k, One
  <2> QED
    BY <2>3
<1>6. IsSum(sum)
  <2> HIDE DEF IsSum
  <2> QED
    BY <1>5
<1>7. \A n \in 0 .. N : sum[n] = One(sum, n)
  <2> HIDE DEF One, sum
  <2> QED
    BY <1>6
<1> HIDE DEF One, sum, IsSum
<1>8. \A n \in 0 .. N : f[n] = sum[n] /\ f[n] \in Byte
  BY <1>4, <1>7
<1> QED
  BY <1>1, <1>2, <1>8

\* The checksum of no bytes, and of one more.
LEMMA SumAppend ==
  /\ ByteSum(<<>>) = 0
  /\ \A s \in Seq(Byte), b \in Byte :
       ByteSum(s) \in Byte /\ ByteSum(Append(s, b)) = (ByteSum(s) + b) % 256
<1>1. ByteSum(<<>>) = 0
  <2>1. PICK e \in Seq(Byte) : e = <<>> /\ Len(e) = 0
    BY EmptySeq
  <2>2. PICK f \in [0 .. Len(e) -> Byte] : Computes(f, Len(e), 0, SumStep, e)
    BY SumStepType, Computable
  <2>3. SumOf(f, e) /\ f[0] = 0
    BY <2>1, <2>2 DEF SumOf, Computes
  <2> QED
    BY <2>1, <2>3, SumIs
<1>2. ASSUME NEW s \in Seq(Byte), NEW b \in Byte
      PROVE  ByteSum(s) \in Byte /\ ByteSum(Append(s, b)) = (ByteSum(s) + b) % 256
  <2> DEFINE t == Append(s, b)
             N == Len(s)
  <2>1. /\ t \in Seq(Byte) /\ Len(t) = N + 1 /\ N \in Nat /\ t[N + 1] = b
        /\ \A n \in 1 .. N : t[n] = s[n]
    OBVIOUS
  <2> HIDE DEF t
  <2>2. PICK f \in [0 .. Len(t) -> Byte] : Computes(f, Len(t), 0, SumStep, t)
    BY <2>1, SumStepType, Computable
  <2>3. SumOf(f, t)
    BY <2>2 DEF SumOf
  <2>4. SumOf(f, s)
    <3>1. \A n \in 1 .. N : n \in 1 .. Len(t)
      BY <2>1
    <3> QED
      BY <2>1, <2>2, <3>1 DEF SumOf, Computes
  <2>5. ByteSum(s) = f[N] /\ f[N] \in Byte
    BY <2>1, <2>4, SumIs
  <2>6. ByteSum(t) = f[N + 1] /\ f[N + 1] = SumStep[<<f[N], b>>]
    <3>1. N + 1 \in 1 .. Len(t) /\ (N + 1) - 1 = N
      BY <2>1
    <3> QED
      BY <2>1, <2>2, <2>3, <3>1, SumIs DEF Computes
  <2> QED
    BY <2>5, <2>6 DEF SumStep, t
<1> QED
  BY <1>1, <1>2
StuffStep == [p \in Seq(Byte) \X Byte |-> p[1] \o Stuffed(p[2])]
StuffOf(f, s) == Computes(f, Len(s), <<>>, StuffStep, s)

LEMMA StuffedType ==
  ASSUME NEW b \in Byte PROVE Stuffed(b) \in Seq(Byte) /\ Len(Stuffed(b)) \in 1 .. 2
<1>1. <<SYNC, SYNC>> \in Seq(Byte) /\ <<b>> \in Seq(Byte)
  BY DEF Byte, SYNC
<1> QED
  BY <1>1 DEF Stuffed

LEMMA StuffStepType == Recursion(Seq(Byte), Byte, <<>>, StuffStep)
<1>1. ASSUME NEW p \in Seq(Byte) \X Byte PROVE p[1] \o Stuffed(p[2]) \in Seq(Byte)
  <2>1. p[1] \in Seq(Byte) /\ Stuffed(p[2]) \in Seq(Byte)
    BY StuffedType
  <2> QED
    BY <2>1, ConcatProperties
<1> QED
  BY <1>1, EmptySeq DEF StuffStep, Recursion

LEMMA StuffIs ==
  ASSUME NEW s \in Seq(Byte), NEW f, StuffOf(f, s)
  PROVE  Stuff(s) = f[Len(s)] /\ \A n \in 0 .. Len(s) : f[n] \in Seq(Byte)
<1> DEFINE N == Len(s)
           ss == [i \in DOMAIN s |-> Stuffed(s[i])]
           One(k, i) == IF i = 1 THEN ss[i] ELSE k[i - 1] \o ss[i]
           IsFlat(k) == k = [i \in 1 .. N |-> One(k, i)]
           flat == CHOOSE k : IsFlat(k)
<1>1. /\ N \in Nat /\ \A n \in 1 .. N : s[n] \in Byte
      /\ \A n \in 1 .. N : ss[n] = Stuffed(s[n]) /\ ss[n] \in Seq(Byte)
      /\ DOMAIN ss = 1 .. N /\ ss \in Seq(Seq(Byte)) /\ Len(ss) = N
  <2>1. N \in Nat /\ DOMAIN s = 1 .. N /\ \A n \in 1 .. N : s[n] \in Byte
    OBVIOUS
  <2>2. DOMAIN ss = 1 .. N /\ \A n \in 1 .. N : ss[n] = Stuffed(s[n]) /\ ss[n] \in Seq(Byte)
    BY <2>1, StuffedType
  <2>3. ss \in [1 .. N -> Seq(Byte)]
    <3>1. ss = [i \in 1 .. N |-> ss[i]]
      BY <2>1
    <3> HIDE DEF ss, N
    <3> QED
      BY <2>2, <3>1
  <2> HIDE DEF ss, N
  <2>4. ss \in Seq(Seq(Byte)) /\ Len(ss) = N
    BY <2>1, <2>2, <2>3, SeqDef, LenProperties
  <2> QED
    BY <2>1, <2>2, <2>4
<1>2. \A n \in 1 .. N : \A x \in Seq(Byte) : StuffStep[<<x, s[n]>>] = x \o ss[n]
  BY <1>1 DEF StuffStep
<1>3. Computes(f, N, <<>>, StuffStep, s)
  BY DEF StuffOf
<1>4. \A n \in 0 .. N : f[n] \in Seq(Byte)
  <2>1. Obeys(f, N, Seq(Byte), Byte, <<>>, StuffStep, s)
    BY <1>1, <1>3 DEF Computes, Obeys
  <2> HIDE DEF N
  <2> QED
    BY <1>1, <1>3, <2>1, StuffStepType, ComputesOne DEF Agrees
<1>5. f[0] = <<>> /\ \A n \in 1 .. N : f[n] = f[n - 1] \o ss[n]
  <2>1. \A n \in 1 .. N : f[n - 1] \in Seq(Byte)
    BY <1>1, <1>4
  <2> QED
    BY <1>2, <1>3, <2>1 DEF Computes
<1>6. CASE N = 0
  <2>1. ss = <<>>
    BY <1>1, <1>6, EmptySeq
  <2> HIDE DEF ss
  <2>2. Stuff(s) = <<>>
    BY <1>1, <1>6, <2>1 DEF Stuff, FlattenSeq, ss
  <2> QED
    BY <1>4, <1>5, <1>6, <2>2
<1>7. CASE N # 0
  <2>1. Stuff(s) = flat[N]
    BY <1>1, <1>7 DEF Stuff, FlattenSeq
  <2> HIDE DEF ss
  <2>2. f[1] = ss[1]
    <3>1. 1 \in 1 .. N /\ 1 - 1 = 0 /\ ss[1] \in Seq(Byte)
      BY <1>1, <1>7
    <3>2. f[1] = <<>> \o ss[1]
      BY <1>5, <3>1
    <3> QED
      BY <3>1, <3>2, ConcatEmptySeq
  <2>3. \E k : IsFlat(k)
    <3> DEFINE k == [n \in 1 .. N |-> f[n]]
    <3>1. ASSUME NEW n \in 1 .. N PROVE k[n] = One(k, n)
      <4>1. CASE n = 1
        BY <2>2, <4>1
      <4>2. CASE n # 1
        <5>1. n - 1 \in 1 .. N
          BY <1>1, <4>2
        <5> QED
          BY <1>5, <4>2, <5>1
      <4> QED
        BY <4>1, <4>2
    <3>2. k = [n \in 1 .. N |-> k[n]]
      OBVIOUS
    <3> HIDE DEF One, k
    <3>3. k = [n \in 1 .. N |-> One(k, n)]
      BY <3>1, <3>2
    <3> QED
      BY <3>3
  <2>4. IsFlat(flat)
    <3> HIDE DEF IsFlat
    <3> QED
      BY <2>3
  <2>5. \A n \in 1 .. N : flat[n] = One(flat, n)
    <3> HIDE DEF One, flat
    <3> QED
      BY <2>4
  <2> HIDE DEF flat, IsFlat
  <2> DEFINE g == [n \in 0 .. N |-> IF n = 0 THEN <<>> ELSE flat[n]]
  <2>6. Obeys(g, N, Seq(Byte), Byte, <<>>, StuffStep, s)
    <3>1. g[0] = <<>> /\ \A n \in 1 .. N : g[n] = flat[n]
      BY <1>1
    <3> HIDE DEF g
    <3>2. ASSUME NEW n \in 1 .. N, g[n - 1] \in Seq(Byte)
          PROVE  g[n] = StuffStep[<<g[n - 1], s[n]>>]
      <4>1. StuffStep[<<g[n - 1], s[n]>>] = g[n - 1] \o ss[n]
        BY <1>2, <3>2
      <4>2. CASE n = 1
        <5>1. n - 1 = 0 /\ g[n] = ss[n] /\ ss[n] \in Seq(Byte)
          BY <1>1, <2>5, <3>1, <4>2
        <5> QED
          BY <3>1, <4>1, <5>1, ConcatEmptySeq
      <4>3. CASE n # 1
        <5>1. n - 1 \in 1 .. N
          BY <1>1, <4>3
        <5> QED
          BY <2>5, <3>1, <4>1, <4>3, <5>1
      <4> QED
        BY <4>2, <4>3
    <3> QED
      BY <1>1, <3>1, <3>2 DEF Obeys
  <2>7. Agrees(f, g, N, Seq(Byte))
    <3> HIDE DEF g, N
    <3> QED
      BY <1>1, <1>3, <2>6, StuffStepType, ComputesOne
  <2>8. f[N] = flat[N]
    BY <1>1, <1>7, <2>7 DEF Agrees
  <2> QED
    BY <1>4, <2>1, <2>8
<1> QED
  BY <1>6, <1>7

\* Stuffing no bytes, and one more.
LEMMA StuffAppend ==
  /\ Stuff(<<>>) = <<>>
  /\ \A s \in Seq(Byte), b \in Byte :
       Stuff(s) \in Seq(Byte) /\ Stuff(Append(s, b)) = Stuff(s) \o Stuffed(b)
<1>1. Stuff(<<>>) = <<>>
  <2>1. PICK e \in Seq(Byte) : e = <<>> /\ Len(e) = 0
    BY EmptySeq
  <2>2. PICK f \in [0 .. Len(e) -> Seq(Byte)] : Computes(f, Len(e), <<>>, StuffStep, e)
    BY StuffStepType, Computable
  <2>3. StuffOf(f, e) /\ f[0] = <<>>
    BY <2>1, <2>2 DEF StuffOf, Computes
  <2> QED
    BY <2>1, <2>3, StuffIs
<1>2. ASSUME NEW s \in Seq(Byte), NEW b \in Byte
      PROVE  Stuff(s) \in Seq(Byte) /\ Stuff(Append(s, b)) = Stuff(s) \o Stuffed(b)
  <2> DEFINE t == Append(s, b)
             N == Len(s)
  <2>1. /\ t \in Seq(Byte) /\ Len(t) = N + 1 /\ N \in Nat /\ t[N + 1] = b
        /\ \A n \in 1 .. N : t[n] = s[n]
    OBVIOUS
  <2> HIDE DEF t
  <2>2. PICK f \in [0 .. Len(t) -> Seq(Byte)] : Computes(f, Len(t), <<>>, StuffStep, t)
    BY <2>1, StuffStepType, Computable
  <2>3. StuffOf(f, t)
    BY <2>2 DEF StuffOf
  <2>4. StuffOf(f, s)
    <3>1. \A n \in 1 .. N : n \in 1 .. Len(t)
      BY <2>1
    <3> QED
      BY <2>1, <2>2, <3>1 DEF StuffOf, Computes
  <2>5. Stuff(s) = f[N] /\ f[N] \in Seq(Byte)
    BY <2>1, <2>4, StuffIs
  <2>6. Stuff(t) = f[N + 1] /\ f[N + 1] = StuffStep[<<f[N], b>>]
    <3>1. N + 1 \in 1 .. Len(t) /\ (N + 1) - 1 = N
      BY <2>1
    <3> QED
      BY <2>1, <2>2, <2>3, <3>1, StuffIs DEF Computes
  <2> QED
    BY <2>5, <2>6 DEF StuffStep, t
<1> QED
  BY <1>1, <1>2
\* A decoder, and what it yielded so far.
Fed == [dec : {d \in Decoders : Settled(d)}, done : Seq(Seq(Byte))]
Feed(p, b) == [dec |-> PushByte(p.dec, b), done |-> p.done \o PushByte(p.dec, b).out]
FeedStep == [p \in Fed \X Byte |-> Feed(p[1], p[2])]
Unfed(d) == [dec |-> d, done |-> <<>>]

LEMMA FeedType ==
  ASSUME NEW p \in Fed, NEW b \in Byte PROVE Feed(p, b) \in Fed
<1>1. Settled(p.dec) /\ p.done \in Seq(Seq(Byte))
  BY DEF Fed
<1>2. Settled(PushByte(p.dec, b))
  BY <1>1, PushByteSettles
<1> DEFINE q == PushByte(p.dec, b)
<1>3. q \in Decoders /\ q.out \in Seq(Seq(Byte))
  BY <1>2 DEF Settled, Sound, Decoders
<1>4. p.done \o q.out \in Seq(Seq(Byte))
  BY <1>1, <1>3, ConcatProperties
<1> HIDE DEF q
<1> QED
  BY <1>2, <1>3, <1>4 DEF Feed, Fed, q

LEMMA FeedStepType ==
  ASSUME NEW d, Settled(d) PROVE Recursion(Fed, Byte, Unfed(d), FeedStep)
<1>1. Unfed(d) \in Fed
  BY EmptySeq DEF Fed, Unfed, Settled, Sound
<1>2. ASSUME NEW p \in Fed \X Byte PROVE Feed(p[1], p[2]) \in Fed
  BY FeedType
<1> QED
  BY <1>1, <1>2 DEF FeedStep, Recursion

LEMMA PushIs ==
  ASSUME NEW d, Settled(d), NEW s \in Seq(Byte), NEW f,
         Computes(f, Len(s), Unfed(d), FeedStep, s)
  PROVE  Push(d, s) = f[Len(s)] /\ \A n \in 0 .. Len(s) : f[n] \in Fed
<1> DEFINE N == Len(s)
           One(k, n) == IF n = 0 THEN Unfed(d) ELSE Feed(k[n - 1], s[n])
           IsFed(k) == k = [n \in 0 .. N |-> One(k, n)]
           after == CHOOSE k : IsFed(k)
<1>1. N \in Nat /\ \A n \in 1 .. N : s[n] \in Byte
  OBVIOUS
<1>2. Push(d, s) = after[N]
  BY DEF Push, Feed, Unfed
<1>3. \A n \in 1 .. N : \A p \in Fed : FeedStep[<<p, s[n]>>] = Feed(p, s[n])
  BY <1>1 DEF FeedStep
<1>4. Computes(f, N, Unfed(d), FeedStep, s)
  OBVIOUS
<1>5. \A n \in 0 .. N : f[n] \in Fed
  <2>1. Obeys(f, N, Fed, Byte, Unfed(d), FeedStep, s)
    BY <1>1, <1>4 DEF Computes, Obeys
  <2> HIDE DEF N
  <2> QED
    BY <1>1, <1>4, <2>1, FeedStepType, ComputesOne DEF Agrees
<1> HIDE DEF N
<1>6. \E k : IsFed(k)
  <2> DEFINE k == [n \in 0 .. N |-> f[n]]
  <2>1. ASSUME NEW n \in 0 .. N PROVE k[n] = One(k, n)
    <3>1. CASE n = 0
      BY <1>1, <1>4, <3>1 DEF Computes
    <3>2. CASE n # 0
      <4>1. n \in 1 .. N /\ n - 1 \in 0 .. N
        BY <1>1, <3>2
      <4>2. f[n] = Feed(f[n - 1], s[n])
        BY <1>3, <1>4, <1>5, <4>1 DEF Computes
      <4> QED
        BY <3>2, <4>1, <4>2
    <3> QED
      BY <3>1, <3>2
  <2>2. k = [n \in 0 .. N |-> k[n]]
    OBVIOUS
  <2> HIDE DEF One, k
  <2>3. k = [n \in 0 .. N |-> One(k, n)]
    BY <2>1, <2>2
  <2> QED
    BY <2>3
<1>7. IsFed(after)
  <2> HIDE DEF IsFed
  <2> QED
    BY <1>6
<1>8. \A n \in 0 .. N : after[n] = One(after, n)
  <2> HIDE DEF One, after
  <2> QED
    BY <1>7
<1> HIDE DEF after, IsFed
<1>9. Obeys(after, N, Fed, Byte, Unfed(d), FeedStep, s)
  <2>1. after[0] = Unfed(d)
    BY <1>1, <1>8
  <2>2. \A n \in 1 .. N : after[n] = Feed(after[n - 1], s[n])
    BY <1>1, <1>8
  <2> QED
    BY <1>1, <1>3, <2>1, <2>2 DEF Obeys
<1>10. Agrees(f, after, N, Fed)
  BY <1>1, <1>4, <1>9, FeedStepType, ComputesOne
<1>11. f[N] = after[N]
  BY <1>1, <1>10 DEF Agrees
<1> QED
  BY <1>2, <1>5, <1>11 DEF N

\* Pushing no bytes, and one more.
LEMMA PushAppend ==
  ASSUME NEW d, Settled(d)
  PROVE  /\ Push(d, <<>>) = Unfed(d)
         /\ \A s \in Seq(Byte), b \in Byte :
              Push(d, s) \in Fed /\ Push(d, Append(s, b)) = Feed(Push(d, s), b)
<1>1. Push(d, <<>>) = Unfed(d)
  <2>1. PICK e \in Seq(Byte) : e = <<>> /\ Len(e) = 0
    BY EmptySeq
  <2>2. PICK f \in [0 .. Len(e) -> Fed] : Computes(f, Len(e), Unfed(d), FeedStep, e)
    BY FeedStepType, Computable
  <2>3. f[0] = Unfed(d)
    BY <2>2 DEF Computes
  <2>4. Push(d, e) = f[Len(e)]
    BY <2>2, PushIs
  <2> QED
    BY <2>1, <2>3, <2>4
<1>2. ASSUME NEW s \in Seq(Byte), NEW b \in Byte
      PROVE  Push(d, s) \in Fed /\ Push(d, Append(s, b)) = Feed(Push(d, s), b)
  <2> DEFINE t == Append(s, b)
             N == Len(s)
  <2>1. /\ t \in Seq(Byte) /\ Len(t) = N + 1 /\ N \in Nat /\ t[N + 1] = b
        /\ \A n \in 1 .. N : t[n] = s[n]
    OBVIOUS
  <2> HIDE DEF t
  <2>2. PICK f \in [0 .. Len(t) -> Fed] : Computes(f, Len(t), Unfed(d), FeedStep, t)
    BY <2>1, FeedStepType, Computable
  <2>3. Computes(f, N, Unfed(d), FeedStep, s)
    <3>1. \A n \in 1 .. N : n \in 1 .. Len(t)
      BY <2>1
    <3> QED
      BY <2>1, <2>2, <3>1 DEF Computes
  <2>4. Push(d, s) = f[N] /\ f[N] \in Fed
    BY <2>1, <2>3, PushIs
  <2>5. Push(d, t) = f[N + 1] /\ f[N + 1] = FeedStep[<<f[N], b>>]
    <3>1. N + 1 \in 1 .. Len(t) /\ (N + 1) - 1 = N
      BY <2>1
    <3>2. Push(d, t) = f[Len(t)]
      BY <2>1, <2>2, PushIs
    <3> QED
      BY <2>1, <2>2, <3>1, <3>2 DEF Computes
  <2> QED
    BY <2>4, <2>5 DEF FeedStep, t
<1> QED
  BY <1>1, <1>2
(* What the decoder makes of a stream                                      *)

\* The stream ends in n sync bytes in a row; in an odd number of them.
Run(s, n) == SyncRun(s, Len(s), n)
OddRun(s) == Opens(s, Len(s))

LEMMA RunsGrow ==
  /\ Run(<<>>, 0)
  /\ \A s \in Seq(Byte), b \in Byte : \A n :
       Run(s, n) => Run(Append(s, b), IF b = SYNC THEN n + 1 ELSE 0)
<1>1. Run(<<>>, 0)
  BY DEF Run, SyncRun
<1>2. ASSUME NEW s \in Seq(Byte), NEW b \in Byte, NEW n, Run(s, n)
      PROVE  Run(Append(s, b), IF b = SYNC THEN n + 1 ELSE 0)
  <2> DEFINE t == Append(s, b)
             N == Len(s)
  <2>1. /\ N \in Nat /\ Len(t) = N + 1 /\ t[N + 1] = b /\ \A j \in 1 .. N : t[j] = s[j]
        /\ n \in 0 .. N /\ \A j \in N - n + 1 .. N : s[j] = SYNC
        /\ n < N => s[N - n] # SYNC
    BY <1>2 DEF Run, SyncRun
  <2> HIDE DEF t, N
  <2>2. CASE b = SYNC
    <3>1. n + 1 \in 0 .. N + 1 /\ (N + 1) - (n + 1) = N - n /\ n \in Nat
      BY <2>1
    <3>2. ASSUME NEW j \in (N + 1) - (n + 1) + 1 .. N + 1 PROVE t[j] = SYNC
      <4>1. j = N + 1 \/ (j \in N - n + 1 .. N /\ j \in 1 .. N)
        BY <2>1
      <4> QED
        BY <2>1, <2>2, <4>1
    <3>3. ASSUME n + 1 < N + 1 PROVE t[(N + 1) - (n + 1)] # SYNC
      <4>1. n < N /\ N - n \in 1 .. N
        BY <2>1, <3>3
      <4> QED
        BY <2>1, <3>1, <4>1
    <3> QED
      BY <2>1, <2>2, <3>1, <3>2, <3>3 DEF Run, SyncRun, t
  <2>3. CASE b # SYNC
    <3>1. 0 \in 0 .. N + 1 /\ (N + 1) - 0 = N + 1 /\ \A j \in (N + 1) - 0 + 1 .. N + 1 : FALSE
      BY <2>1
    <3> QED
      BY <2>1, <2>3, <3>1 DEF Run, SyncRun, t
  <2> QED
    BY <2>2, <2>3
<1> QED
  BY <1>1, <1>2

LEMMA RunIsOne ==
  ASSUME NEW s \in Seq(Byte), NEW n, NEW m, Run(s, n), Run(s, m) PROVE n = m
<1>1. \A x, y : Run(s, x) /\ Run(s, y) => ~ (x < y)
  <2> SUFFICES ASSUME NEW x, NEW y, Run(s, x), Run(s, y), x < y PROVE FALSE
    OBVIOUS
  <2> DEFINE N == Len(s)
  <2>1. N \in Nat /\ x \in 0 .. N /\ y \in 0 .. N
    BY DEF Run, SyncRun
  <2>2. N - x \in N - y + 1 .. N /\ x < N
    BY <2>1
  <2> QED
    BY <2>2 DEF Run, SyncRun
<1>2. n \in Nat /\ m \in Nat
  BY DEF Run, SyncRun
<1>3. ~ (n < m) /\ ~ (m < n)
  BY <1>1, Zenon
<1> QED
  BY <1>2, <1>3

LEMMA OddRunIs ==
  ASSUME NEW s \in Seq(Byte), NEW n, Run(s, n) PROVE OddRun(s) <=> n % 2 = 1
<1>1. n \in 0 .. Len(s) /\ Len(s) \in Nat
  BY DEF Run, SyncRun
<1>2. ASSUME n % 2 = 1 PROVE OddRun(s)
  <2>1. n \in 1 .. Len(s)
    BY <1>1, <1>2
  <2> QED
    BY <1>2, <2>1 DEF OddRun, Opens, Run
<1>3. ASSUME OddRun(s) PROVE n % 2 = 1
  <2>1. PICK m \in 1 .. Len(s) : m % 2 = 1 /\ Run(s, m)
    BY <1>3 DEF OddRun, Opens, Run
  <2> QED
    BY <2>1, RunIsOne
<1> QED
  BY <1>2, <1>3

\* The stream s ends in a frame begun behind r, of which the bytes e came and
\* perhaps, t, the first half of a stuffed pair.
Parts(s, r, e, t) ==
  /\ r \in Seq(Byte) /\ OddRun(r)
  /\ e \in Seq(Byte) /\ e # <<>> /\ e[1] # SYNC
  /\ t \in {<<>>, <<SYNC>>}
  /\ s = (r \o Stuff(e)) \o t

LEMMA AppendIs ==
  ASSUME NEW s \in Seq(Byte), NEW b \in Byte
  PROVE  /\ Append(s, b) = s \o <<b>> /\ s \o <<>> = s
         /\ Append(s, b) \in Seq(Byte) /\ Append(s, b) # <<>>
         /\ \A r \in Seq(Byte) : /\ r \o Append(s, b) = Append(r \o s, b)
                                 /\ r \o s \in Seq(Byte)
<1>1. Append(s, b) = s \o <<b>> /\ s \o <<>> = s
  BY AppendIsConcat, ConcatEmptySeq
<1>2. Append(s, b) \in Seq(Byte) /\ Append(s, b) # <<>> /\ <<b>> \in Seq(Byte)
  BY AppendProperties
<1>3. ASSUME NEW r \in Seq(Byte)
      PROVE  r \o Append(s, b) = Append(r \o s, b) /\ r \o s \in Seq(Byte)
  <2>1. r \o s \in Seq(Byte)
    BY ConcatProperties
  <2>2. r \o (s \o <<b>>) = (r \o s) \o <<b>>
    BY <1>2, ConcatAssociative
  <2> QED
    BY <1>1, <2>1, <2>2, AppendIsConcat
<1> QED
  BY <1>1, <1>2, <1>3

SameAppended(s, b, t, c) == Append(s, b) = Append(t, c)

LEMMA AppendOneWay ==
  ASSUME NEW s \in Seq(Byte), NEW t \in Seq(Byte), NEW b \in Byte, NEW c \in Byte,
         SameAppended(s, b, t, c)
  PROVE  s = t /\ b = c
BY AppendInjective DEF SameAppended

\* What stuffing one more byte appends.
LEMMA StuffedMore ==
  ASSUME NEW r \in Seq(Byte), NEW e \in Seq(Byte), NEW b \in Byte
  PROVE  /\ r \o Stuff(e) \in Seq(Byte)
         /\ b # SYNC => r \o Stuff(Append(e, b)) = Append(r \o Stuff(e), b)
         /\ b = SYNC => r \o Stuff(Append(e, b)) = Append(Append(r \o Stuff(e), SYNC), SYNC)
<1>1. Stuff(e) \in Seq(Byte) /\ Stuff(Append(e, b)) = Stuff(e) \o Stuffed(b)
  BY StuffAppend
<1>2. r \o Stuff(e) \in Seq(Byte)
  BY <1>1, ConcatProperties
<1>3. CASE b # SYNC
  <2>1. Stuff(Append(e, b)) = Append(Stuff(e), b)
    BY <1>1, <1>3, AppendIs DEF Stuffed
  <2> QED
    BY <1>1, <1>2, <1>3, <2>1, AppendIs
<1>4. CASE b = SYNC
  <2>1. <<SYNC, SYNC>> = Append(<<SYNC>>, SYNC) /\ <<SYNC>> \in Seq(Byte) /\ SYNC \in Byte
    BY <1>4
  <2>2. Stuff(e) \o Append(<<SYNC>>, SYNC) = Append(Stuff(e) \o <<SYNC>>, SYNC)
    BY <1>1, <2>1, AppendIs
  <2>3. Stuff(e) \o <<SYNC>> = Append(Stuff(e), SYNC) /\ Append(Stuff(e), SYNC) \in Seq(Byte)
    BY <1>1, <2>1, AppendIs
  <2>4. Stuff(Append(e, b)) = Append(Append(Stuff(e), SYNC), SYNC)
    BY <1>1, <1>4, <2>1, <2>2, <2>3 DEF Stuffed
  <2>5. r \o Append(Append(Stuff(e), SYNC), SYNC) = Append(r \o Append(Stuff(e), SYNC), SYNC)
    BY <2>1, <2>3, AppendIs
  <2>6. r \o Append(Stuff(e), SYNC) = Append(r \o Stuff(e), SYNC)
    BY <1>1, <2>1, AppendIs
  <2> QED
    BY <1>2, <1>4, <2>4, <2>5, <2>6
<1> QED
  BY <1>2, <1>3, <1>4

\* One more byte on the stream: the second half of a pair, the first half, a
\* byte of its own, or the first byte of a frame.
LEMMA PartsGrow ==
  ASSUME NEW s \in Seq(Byte), NEW b \in Byte
  PROVE  /\ b # SYNC /\ OddRun(s) => Parts(Append(s, b), s, <<b>>, <<>>)
         /\ \A r, e : b = SYNC /\ Parts(s, r, e, <<>>) => Parts(Append(s, b), r, e, <<SYNC>>)
         /\ \A r, e : b # SYNC /\ Parts(s, r, e, <<>>) => Parts(Append(s, b), r, Append(e, b), <<>>)
         /\ \A r, e : b = SYNC /\ Parts(s, r, e, <<SYNC>>)
                        => Parts(Append(s, b), r, Append(e, b), <<>>)
<1>1. ASSUME b # SYNC, OddRun(s) PROVE Parts(Append(s, b), s, <<b>>, <<>>)
  <2>1. /\ <<b>> \in Seq(Byte) /\ <<b>>[1] = b
        /\ \E e \in Seq(Byte) : e = <<>> /\ <<b>> = Append(e, b)
    <3>1. PICK e \in Seq(Byte) : e = <<>> /\ Len(e) = 0
      BY EmptySeq
    <3>2. <<b>> = Append(e, b)
      BY <3>1
    <3>3. <<b>> \in Seq(Byte) /\ <<b>>[1] = b
      OBVIOUS
    <3> QED
      BY <3>1, <3>2, <3>3, Zenon
  <2>2. s \o Stuff(<<b>>) = Append(s \o Stuff(<<>>), b)
    <3>1. PICK e \in Seq(Byte) : e = <<>> /\ <<b>> = Append(e, b)
      BY <2>1
    <3>2. s \o Stuff(Append(e, b)) = Append(s \o Stuff(e), b)
      BY <1>1, StuffedMore
    <3> QED
      BY <3>1, <3>2
  <2>3. s \o Stuff(<<>>) = s
    BY StuffAppend, AppendIs
  <2>4. Append(s, b) \o <<>> = Append(s, b) /\ <<b>> # <<>>
    BY <2>1, AppendIs
  <2> QED
    BY <1>1, <2>1, <2>2, <2>3, <2>4 DEF Parts
<1>2. ASSUME NEW r, NEW e, b = SYNC, Parts(s, r, e, <<>>)
      PROVE  Parts(Append(s, b), r, e, <<SYNC>>)
  <2>1. r \o Stuff(e) \in Seq(Byte)
    BY <1>2, StuffedMore DEF Parts
  <2>2. s = r \o Stuff(e)
    BY <1>2, <2>1, AppendIs DEF Parts
  <2>3. Append(s, b) = (r \o Stuff(e)) \o <<SYNC>>
    BY <1>2, <2>2, AppendIs
  <2> QED
    BY <1>2, <2>3 DEF Parts
<1>3. ASSUME NEW r, NEW e, \/ b # SYNC /\ Parts(s, r, e, <<>>)
                           \/ b = SYNC /\ Parts(s, r, e, <<SYNC>>)
      PROVE  Parts(Append(s, b), r, Append(e, b), <<>>)
  <2>1. /\ r \in Seq(Byte) /\ e \in Seq(Byte) /\ e # <<>> /\ OddRun(r) /\ e[1] # SYNC
        /\ r \o Stuff(e) \in Seq(Byte)
    BY <1>3, StuffedMore DEF Parts
  <2>2. Append(e, b) \in Seq(Byte) /\ Append(e, b) # <<>> /\ Append(e, b)[1] = e[1]
    <3>1. Len(e) \in Nat /\ Len(e) # 0
      BY <2>1, EmptySeq
    <3> QED
      BY <2>1, <3>1, AppendProperties
  <2>3. r \o Stuff(Append(e, b)) = Append(s, b)
    <3>1. CASE b # SYNC
      <4>1. s = r \o Stuff(e)
        BY <1>3, <2>1, <3>1, AppendIs DEF Parts
      <4> QED
        BY <2>1, <3>1, <4>1, StuffedMore
    <3>2. CASE b = SYNC
      <4>1. s = Append(r \o Stuff(e), SYNC)
        BY <1>3, <2>1, <3>2, AppendIs DEF Parts
      <4> QED
        BY <2>1, <3>2, <4>1, StuffedMore
    <3> QED
      BY <3>1, <3>2
  <2>4. Append(s, b) \o <<>> = Append(s, b)
    BY AppendIs
  <2> QED
    BY <2>1, <2>2, <2>3, <2>4 DEF Parts
<1> QED
  BY <1>1, <1>2, <1>3

LEMMA PartsOfMore ==
  ASSUME NEW s \in Seq(Byte), NEW b \in Byte, NEW r, NEW e, NEW t, Parts(Append(s, b), r, e, t)
  PROVE  \/ t = <<SYNC>> /\ b = SYNC /\ Parts(s, r, e, <<>>)
         \/ t = <<>> /\ e = <<b>> /\ b # SYNC /\ r = s /\ OddRun(s)
         \/ t = <<>> /\ b # SYNC /\ \E f : e = Append(f, b) /\ Parts(s, r, f, <<>>)
         \/ t = <<>> /\ b = SYNC /\ \E f : e = Append(f, b) /\ Parts(s, r, f, <<SYNC>>)
<1>1. /\ r \in Seq(Byte) /\ OddRun(r) /\ e \in Seq(Byte) /\ e # <<>> /\ e[1] # SYNC
      /\ Append(s, b) = (r \o Stuff(e)) \o t /\ t \in {<<>>, <<SYNC>>}
      /\ SYNC \in Byte
  BY DEF Parts, Byte, SYNC
<1>2. r \o Stuff(e) \in Seq(Byte)
  BY <1>1, StuffedMore
<1>3. CASE t = <<SYNC>>
  <2>1. Append(s, b) = Append(r \o Stuff(e), SYNC)
    BY <1>1, <1>2, <1>3, AppendIs
  <2>2. s = r \o Stuff(e) /\ b = SYNC
    <3>1. PICK g \in Seq(Byte) : g = r \o Stuff(e)
      BY <1>2
    <3>2. SameAppended(s, b, g, SYNC)
      BY <2>1, <3>1 DEF SameAppended
    <3>3. s = g /\ b = SYNC
      BY <1>1, <3>2, AppendOneWay, Zenon
    <3> QED
      BY <3>1, <3>3
  <2>3. s = (r \o Stuff(e)) \o <<>>
    BY <1>1, <2>2, AppendIs
  <2> QED
    BY <1>1, <1>3, <2>2, <2>3 DEF Parts
<1>4. CASE t = <<>>
  <2>1. Append(s, b) = r \o Stuff(e)
    BY <1>1, <1>2, <1>4, AppendIs
  <2>2. PICK f \in Seq(Byte), x \in Byte : e = Append(f, x)
    BY <1>1, SequenceEmptyOrAppend
  <2>3. r \o Stuff(f) \in Seq(Byte) /\ Append(r \o Stuff(f), SYNC) \in Seq(Byte)
    BY <1>1, StuffedMore, AppendProperties
  <2>4. f # <<>> => f[1] = e[1]
    <3>1. f # <<>> => Len(f) \in Nat /\ Len(f) # 0
      BY EmptySeq
    <3> QED
      BY <2>2, <3>1, AppendProperties
  <2>5. f = <<>> => e = <<x>> /\ e[1] = x /\ Stuff(f) = <<>>
    BY <2>2, StuffAppend
  <2>6. CASE x # SYNC
    <3>1. Append(s, b) = Append(r \o Stuff(f), x)
      BY <1>1, <2>1, <2>2, <2>6, StuffedMore
    <3>2. s = r \o Stuff(f) /\ b = x
      <4>1. PICK g \in Seq(Byte) : g = r \o Stuff(f)
        BY <2>3
      <4>2. SameAppended(s, b, g, x)
        BY <3>1, <4>1 DEF SameAppended
      <4>3. s = g /\ b = x
        BY <4>2, AppendOneWay, Zenon
      <4> QED
        BY <4>1, <4>3
    <3>3. CASE f = <<>>
      <4>1. s = r
        BY <1>1, <2>5, <3>2, <3>3, ConcatEmptySeq
      <4> QED
        BY <1>1, <1>4, <2>5, <2>6, <3>2, <3>3, <4>1
    <3>4. CASE f # <<>>
      <4>1. s = (r \o Stuff(f)) \o <<>>
        BY <3>2, AppendIs
      <4>2. Parts(s, r, f, <<>>)
        BY <1>1, <2>4, <3>4, <4>1 DEF Parts
      <4> QED
        BY <1>4, <2>2, <2>6, <3>2, <4>2
    <3> QED
      BY <3>3, <3>4
  <2>7. CASE x = SYNC
    <3>1. Append(s, b) = Append(Append(r \o Stuff(f), SYNC), SYNC)
      BY <1>1, <2>1, <2>2, <2>7, StuffedMore
    <3>2. s = Append(r \o Stuff(f), SYNC) /\ b = SYNC
      <4>1. PICK g \in Seq(Byte) : g = Append(r \o Stuff(f), SYNC)
        BY <2>3
      <4>2. SameAppended(s, b, g, SYNC)
        BY <3>1, <4>1 DEF SameAppended
      <4>3. s = g /\ b = SYNC
        BY <1>1, <4>2, AppendOneWay, Zenon
      <4> QED
        BY <4>1, <4>3
    <3>3. f # <<>>
      BY <1>1, <2>5, <2>7
    <3>4. s = (r \o Stuff(f)) \o <<SYNC>>
      BY <1>1, <2>3, <3>2, AppendIs
    <3>5. Parts(s, r, f, <<SYNC>>)
      BY <1>1, <2>4, <3>3, <3>4 DEF Parts
    <3> QED
      BY <1>4, <2>2, <2>7, <3>2, <3>5
  <2> QED
    BY <2>6, <2>7
<1> QED
  BY <1>1, <1>3, <1>4
(* What a decoder awaits behind the bytes e of a frame                       *)

Body(e) == SubSeq(e, 3, Len(e))

\* In terms of the address a, the length byte l, and the number n of bytes.
StateAt(a, l, n) ==
  IF a # ADDR_TO_HOST THEN "WaitSync"
  ELSE IF n = 1 THEN "WaitLength"
  ELSE IF l = 0 \/ n > 2 + l THEN "WaitSync"
  ELSE IF n < 2 + l THEN "WaitData" ELSE "WaitChecksum"

StateOf(e) == StateAt(e[1], e[2], Len(e))

Counted(l, n) == n \in Nat \ {0} /\ (n >= 2 => l \in Nat)

\* What each state says of them.
Stated(st, a, l, n) ==
  /\ st = "WaitSync" <=> a # ADDR_TO_HOST \/ (n >= 2 /\ (l = 0 \/ n > 2 + l))
  /\ st = "WaitLength" <=> a = ADDR_TO_HOST /\ n = 1
  /\ st = "WaitData" <=> a = ADDR_TO_HOST /\ n >= 2 /\ l # 0 /\ n < 2 + l
  /\ st = "WaitChecksum" <=> a = ADDR_TO_HOST /\ n >= 2 /\ l # 0 /\ n = 2 + l
  /\ st # "WaitAddress"

LEMMA StateIs ==
  \A a, l, n : Counted(l, n) => Stated(StateAt(a, l, n), a, l, n)
<1> SUFFICES ASSUME NEW a, NEW l, NEW n \in Nat \ {0}, n >= 2 => l \in Nat
             PROVE  Stated(StateAt(a, l, n), a, l, n)
  BY DEF Counted
<1>1. CASE a # ADDR_TO_HOST
  BY <1>1 DEF StateAt, Stated
<1>2. CASE a = ADDR_TO_HOST /\ n = 1
  BY <1>2 DEF StateAt, Stated
<1>3. CASE a = ADDR_TO_HOST /\ n # 1
  <2>1. n >= 2 /\ l \in Nat
    BY <1>3
  <2>2. CASE l = 0 \/ n > 2 + l
    BY <1>3, <2>1, <2>2 DEF StateAt, Stated
  <2>3. CASE ~ (l = 0 \/ n > 2 + l) /\ n < 2 + l
    BY <1>3, <2>1, <2>3 DEF StateAt, Stated
  <2>4. CASE ~ (l = 0 \/ n > 2 + l) /\ ~ (n < 2 + l)
    <3>1. n = 2 + l /\ l # 0
      BY <2>1, <2>4
    <3> QED
      BY <1>3, <2>1, <2>4, <3>1 DEF StateAt, Stated
  <2> QED
    BY <2>2, <2>3, <2>4
<1> QED
  BY <1>1, <1>2, <1>3

Awaits(d, e) ==
  /\ d.state = StateOf(e)
  /\ d.state = "WaitLength" => d.checksum = ADDR_TO_HOST
  /\ d.state \in {"WaitData", "WaitChecksum"} =>
       /\ d.buffer = Body(e)
       /\ d.remaining = (2 + e[2]) - Len(e)
       /\ d.checksum = (ADDR_TO_HOST + e[2] + ByteSum(Body(e))) % 256

\* What the byte b yields behind the bytes e.
Yield(e, b) ==
  IF e # <<>> /\ StateOf(e) = "WaitChecksum" /\ b = Checksum(ADDR_TO_HOST, Body(e))
  THEN <<Body(e)>> ELSE <<>>

\* The bytes of a sequence from m to n.
LEMMA Slice ==
  \A s \in Seq(Byte), m \in Nat \ {0}, n \in Nat :
    n <= Len(s) => /\ SubSeq(s, m, n) \in Seq(Byte)
                   /\ m <= n + 1 => Len(SubSeq(s, m, n)) = (n - m) + 1
                   /\ \A i \in 1 .. (n - m) + 1 : SubSeq(s, m, n)[i] = s[i + m - 1]
<1> TAKE s \in Seq(Byte), m \in Nat \ {0}, n \in Nat
<1> HAVE n <= Len(s)
<1>1. \A i \in m .. n : i \in 1 .. Len(s) /\ s[i] \in Byte
  OBVIOUS
<1>2. /\ SubSeq(s, m, n) \in Seq(Byte)
      /\ Len(SubSeq(s, m, n)) = IF m <= n THEN n - m + 1 ELSE 0
      /\ \A i \in 1 .. n - m + 1 : SubSeq(s, m, n)[i] = s[m + i - 1]
  BY <1>1, SubSeqProperties
<1>3. \A i \in 1 .. n - m + 1 : m + i - 1 = i + m - 1
  OBVIOUS
<1> QED
  BY <1>2, <1>3

\* The first p bytes of a sequence.
LEMMA Prefix ==
  ASSUME NEW s \in Seq(Byte), NEW p \in 0 .. Len(s)
  PROVE  /\ SubSeq(s, 1, p) \in Seq(Byte) /\ Len(SubSeq(s, 1, p)) = p
         /\ \A i \in 1 .. p : SubSeq(s, 1, p)[i] = s[i]
<1>1. 1 \in Nat \ {0} /\ p \in Nat /\ p <= Len(s) /\ 1 <= p + 1
  OBVIOUS
<1>2. /\ SubSeq(s, 1, p) \in Seq(Byte) /\ Len(SubSeq(s, 1, p)) = (p - 1) + 1
      /\ \A i \in 1 .. (p - 1) + 1 : SubSeq(s, 1, p)[i] = s[i + 1 - 1]
  BY <1>1, Slice, Zenon
<1>3. (p - 1) + 1 = p /\ \A i \in 1 .. p : i + 1 - 1 = i
  OBVIOUS
<1> QED
  BY <1>2, <1>3

LEMMA OneMore ==
  ASSUME NEW e \in Seq(Byte), e # <<>>, NEW b \in Byte
  PROVE  LET g == Append(e, b) IN
         /\ Len(e) \in Nat \ {0} /\ Len(g) = Len(e) + 1 /\ g[1] = e[1]
         /\ Len(e) = 1 => g[2] = b /\ Body(g) = <<>>
         /\ Len(e) >= 2 => /\ g[2] = e[2] /\ e[2] \in Byte /\ Body(e) \in Seq(Byte)
                           /\ Len(Body(e)) = Len(e) - 2 /\ Body(g) = Append(Body(e), b)
<1> DEFINE g == Append(e, b)
<1>1. Len(e) \in Nat \ {0} /\ g \in Seq(Byte)
  BY EmptySeq
<1>2. Len(g) = Len(e) + 1 /\ \A i \in 1 .. Len(e) : g[i] = e[i] /\ g[Len(e) + 1] = b
  BY <1>1
<1> HIDE DEF g
<1>3. ASSUME Len(e) = 1 PROVE g[2] = b /\ Body(g) = <<>>
  <2>1. Len(g) = 2
    BY <1>2, <1>3
  <2>2. SubSeq(g, 3, 2) = <<>>
    BY <1>1, SubSeqEmpty
  <2> QED
    BY <1>2, <1>3, <2>1, <2>2 DEF Body
<1>4. ASSUME Len(e) >= 2
      PROVE  /\ g[2] = e[2] /\ e[2] \in Byte /\ Body(e) \in Seq(Byte)
             /\ Len(Body(e)) = Len(e) - 2 /\ Body(g) = Append(Body(e), b)
  <2>1. g[2] = e[2] /\ e[2] \in Byte
    BY <1>1, <1>2, <1>4
  <2>2. /\ Body(e) \in Seq(Byte) /\ Len(Body(e)) = Len(e) - 2
        /\ \A i \in 1 .. Len(e) - 2 : Body(e)[i] = e[i + 2]
    <3> DEFINE u == SubSeq(e, 3, Len(e))
    <3>1. /\ u \in Seq(Byte) /\ Len(u) = (Len(e) - 3) + 1
          /\ \A i \in 1 .. (Len(e) - 3) + 1 : u[i] = e[i + 3 - 1]
      <4>1. 3 \in Nat \ {0} /\ Len(e) \in Nat /\ Len(e) <= Len(e) /\ 3 <= Len(e) + 1
        BY <1>1, <1>4
      <4> QED
        BY <4>1, Slice, Zenon
    <3> HIDE DEF u
    <3>2. (Len(e) - 3) + 1 = Len(e) - 2 /\ \A i \in Nat : i + 3 - 1 = i + 2
      BY <1>1, <1>4
    <3> QED
      BY <3>1, <3>2 DEF Body, u
  <2>3. /\ Body(g) \in Seq(Byte) /\ Len(Body(g)) = Len(e) - 1
        /\ \A i \in 1 .. Len(e) - 1 : Body(g)[i] = g[i + 2]
    BY <1>1, <1>2, <1>4 DEF Body
  <2>4. Body(g) = Append(Body(e), b)
    <3> DEFINE u == Body(g)
               v == Append(Body(e), b)
    <3>1. u \in Seq(Byte) /\ v \in Seq(Byte) /\ Len(u) = Len(v) /\ Len(u) = Len(e) - 1
      BY <1>1, <1>4, <2>2, <2>3
    <3>2. ASSUME NEW i \in 1 .. Len(u) PROVE u[i] = v[i]
      <4>1. i \in 1 .. Len(e) - 1 /\ u[i] = g[i + 2]
        BY <2>3, <3>1
      <4>2. CASE i = Len(e) - 1
        <5>1. i + 2 = Len(e) + 1 /\ i = Len(Body(e)) + 1 /\ 1 \in 1 .. Len(e)
          BY <1>1, <1>4, <2>2, <4>2
        <5>2. v[Len(Body(e)) + 1] = b
          BY <2>2
        <5> QED
          BY <1>1, <1>2, <4>1, <5>1, <5>2
      <4>3. CASE i # Len(e) - 1
        <5>1. i \in 1 .. Len(e) - 2 /\ i + 2 \in 1 .. Len(e)
          BY <1>1, <1>4, <4>1, <4>3
        <5>2. v[i] = Body(e)[i]
          BY <2>2, <5>1
        <5> QED
          BY <1>2, <2>2, <4>1, <5>1, <5>2
      <4> QED
        BY <4>2, <4>3
    <3> HIDE DEF u, v
    <3> QED
      BY <3>1, <3>2, SeqEqual DEF u, v
  <2> QED
    BY <2>1, <2>2, <2>4
<1> QED
  BY <1>1, <1>2, <1>3, <1>4 DEF g

\* Adding up modulo 2^8, byte after byte or at once.
LEMMA SumsAgree ==
  ASSUME NEW x \in Nat, NEW y \in Nat, NEW b \in Nat
  PROVE  (((x + y) % 256) + b) % 256 = (x + ((y + b) % 256)) % 256
  OBVIOUS

\* d awaits, after the byte b, what it has to.
AwaitsNext(x, d, e, b) ==
  Awaits(x, Append(e, b)) /\ x.out = Yield(e, b) /\ x.sync_run = d.sync_run

\* The match on the state takes what is awaited behind e to what is awaited
\* behind one byte more.
LEMMA DispatchAwaits ==
  ASSUME NEW d, d \in Decoders, d.out = <<>>, NEW b \in Byte,
         NEW e \in Seq(Byte), e # <<>>, Awaits(d, e)
  PROVE  AwaitsNext(Dispatch(d, b), d, e, b)
<1> DEFINE g == Append(e, b)
           x == Dispatch(d, b)
           n == Len(e)
<1>0. /\ n \in Nat \ {0} /\ Len(g) = n + 1 /\ g[1] = e[1]
      /\ n = 1 => g[2] = b /\ Body(g) = <<>>
      /\ n >= 2 => /\ g[2] = e[2] /\ e[2] \in Byte /\ Body(e) \in Seq(Byte)
                   /\ Len(Body(e)) = n - 2 /\ Body(g) = Append(Body(e), b)
  BY OneMore
<1>1. /\ d.state = StateOf(e) /\ d \in Decoders
      /\ d.remaining \in Nat /\ d.checksum \in Nat
  <2>1. d.remaining \in 0 .. MAX_DATA_LEN /\ d.checksum \in Byte
    BY DEF Decoders
  <2>2. d.remaining \in Nat /\ d.checksum \in Nat
    BY <2>1, ByteFacts
  <2> QED
    BY <2>2, Zenon DEF Awaits
<1>2. b \in 0 .. 255
  BY DEF Byte
<1> HIDE DEF g, x, n
<1>8. n >= 2 => e[2] \in Nat
  BY <1>0, ByteFacts, Zenon
<1>9. Counted(e[2], n) /\ Stated(d.state, e[1], e[2], n)
  <2>1. d.state = StateAt(e[1], e[2], n)
    BY <1>1 DEF StateOf, n
  <2>2. Counted(e[2], n)
    BY <1>0, <1>8 DEF Counted
  <2> QED
    BY <2>1, <2>2, StateIs, Zenon
<1>10. Stated(StateOf(g), g[1], g[2], Len(g))
  <2>1. n = 1 \/ n >= 2
    BY <1>0
  <2>2. Counted(g[2], Len(g))
    BY <1>0, <1>2, <1>8, <2>1 DEF Counted
  <2> QED
    BY <2>2, StateIs, Zenon DEF StateOf
<1>3. CASE d.state = "WaitSync"
  <2>1. x = d
    BY <1>3 DEF Dispatch, x
  <2>2. StateOf(g) = "WaitSync"
    <3>1. e[1] # ADDR_TO_HOST => g[1] # ADDR_TO_HOST
      BY <1>0
    <3>2. n >= 2 /\ (e[2] = 0 \/ n > 2 + e[2])
            => Len(g) >= 2 /\ (g[2] = 0 \/ Len(g) > 2 + g[2])
      BY <1>0, <1>8
    <3> QED
      BY <1>3, <1>9, <1>10, <3>1, <3>2 DEF Stated
  <2>3. Yield(e, b) = <<>>
    BY <1>1, <1>3 DEF Yield
  <2> QED
    BY <1>3, <2>1, <2>2, <2>3 DEF AwaitsNext, Awaits, g, x
<1>4. CASE d.state = "WaitLength"
  <2>1. x = TakeLength(d, b)
    BY <1>4 DEF Dispatch, x
  <2>2. e[1] = ADDR_TO_HOST /\ n = 1
    BY <1>4, <1>9 DEF Stated
  <2>3. d.checksum = ADDR_TO_HOST
    BY <1>4 DEF Awaits
  <2>4. g[1] = ADDR_TO_HOST /\ Len(g) = 2 /\ g[2] = b /\ Body(g) = <<>>
    BY <1>0, <2>2
  <2>5. /\ x.state = IF b = 0 THEN "WaitSync" ELSE "WaitData"
        /\ x.remaining = b /\ x.checksum = (ADDR_TO_HOST + b) % 256 /\ x.buffer = <<>>
        /\ x.out = <<>> /\ x.sync_run = d.sync_run
    <3>1. ~ (b > MAX_DATA_LEN)
      BY <1>2 DEF MAX_DATA_LEN
    <3> QED
      BY <1>1, <2>1, <2>3, <3>1 DEF TakeLength, Decoders
  <2>6. StateOf(g) = IF b = 0 THEN "WaitSync" ELSE "WaitData"
    <3>1. b # 0 => ~ (2 > 2 + b) /\ 2 < 2 + b
      BY <1>2
    <3> QED
      BY <2>4, <3>1 DEF StateOf, StateAt
  <2>7. (2 + b) - 2 = b /\ ADDR_TO_HOST + b + 0 = ADDR_TO_HOST + b /\ ByteSum(<<>>) = 0
    BY <1>2, SumAppend DEF ADDR_TO_HOST
  <2>8. Yield(e, b) = <<>>
    BY <1>1, <1>4 DEF Yield
  <2>9. Awaits(x, g)
    BY <2>4, <2>5, <2>6, <2>7 DEF Awaits
  <2> QED
    BY <2>5, <2>8, <2>9 DEF AwaitsNext, g, x
<1>5. CASE d.state = "WaitData"
  <2>1. x = TakeData(d, b)
    BY <1>5 DEF Dispatch, x
  <2>2. e[1] = ADDR_TO_HOST /\ n >= 2 /\ e[2] # 0 /\ n < 2 + e[2] /\ e[2] \in Nat
    BY <1>5, <1>8, <1>9 DEF Stated
  <2>3. /\ d.buffer = Body(e) /\ d.remaining = (2 + e[2]) - n
        /\ d.checksum = (ADDR_TO_HOST + e[2] + ByteSum(Body(e))) % 256
    BY <1>5 DEF Awaits, n
  <2>4. /\ g[1] = ADDR_TO_HOST /\ Len(g) = n + 1 /\ g[2] = e[2]
        /\ Body(e) \in Seq(Byte) /\ Body(g) = Append(Body(e), b)
    BY <1>0, <2>2
  <2>5. /\ x.state = IF d.remaining = 1 THEN "WaitChecksum" ELSE "WaitData"
        /\ x.remaining = d.remaining - 1 /\ x.checksum = (d.checksum + b) % 256
        /\ x.buffer = Append(Body(e), b) /\ x.out = <<>> /\ x.sync_run = d.sync_run
    BY <1>1, <1>5, <2>1, <2>3 DEF TakeData, Decoders
  <2>6. d.remaining = 1 <=> ~ (n + 1 < 2 + e[2])
    BY <1>0, <2>2, <2>3
  <2>7. StateOf(g) = IF d.remaining = 1 THEN "WaitChecksum" ELSE "WaitData"
    <3>1. ~ (n + 1 > 2 + e[2]) /\ n + 1 # 1
      BY <1>0, <2>2
    <3> QED
      BY <2>2, <2>4, <2>6, <3>1 DEF StateOf, StateAt
  <2>8. x.remaining = (2 + g[2]) - Len(g)
    BY <1>0, <2>2, <2>3, <2>4, <2>5
  <2>9. x.checksum = (ADDR_TO_HOST + g[2] + ByteSum(Body(g))) % 256
    <3>1. ByteSum(Body(e)) \in Nat /\ ByteSum(Body(g)) = (ByteSum(Body(e)) + b) % 256
      <4>1. ByteSum(Body(e)) \in Byte /\ ByteSum(Body(g)) = (ByteSum(Body(e)) + b) % 256
        <5>1. PICK u \in Seq(Byte) : u = Body(e)
          BY <2>4
        <5>2. ByteSum(u) \in Byte /\ ByteSum(Append(u, b)) = (ByteSum(u) + b) % 256
          BY SumAppend
        <5> QED
          BY <2>4, <5>1, <5>2
      <4> QED
        BY <4>1, ByteFacts, Zenon
    <3>2. ADDR_TO_HOST + e[2] \in Nat /\ b \in Nat
      BY <1>2, <2>2 DEF ADDR_TO_HOST
    <3> QED
      BY <2>3, <2>4, <2>5, <3>1, <3>2, SumsAgree
  <2>10. Yield(e, b) = <<>>
    BY <1>1, <1>5 DEF Yield
  <2>11. Awaits(x, g)
    BY <2>4, <2>5, <2>7, <2>8, <2>9 DEF Awaits
  <2> QED
    BY <2>5, <2>10, <2>11 DEF AwaitsNext, g, x
<1>6. CASE d.state = "WaitChecksum"
  <2>1. x = TakeChecksum(d, b)
    BY <1>6 DEF Dispatch, x
  <2>2. e[1] = ADDR_TO_HOST /\ n >= 2 /\ e[2] # 0 /\ n = 2 + e[2] /\ e[2] \in Nat
    BY <1>6, <1>8, <1>9 DEF Stated
  <2>3. /\ d.buffer = Body(e)
        /\ d.checksum = (ADDR_TO_HOST + e[2] + ByteSum(Body(e))) % 256
    BY <1>6 DEF Awaits
  <2>4. d.checksum = Checksum(ADDR_TO_HOST, Body(e))
    <3>1. Len(Body(e)) = e[2]
      BY <1>0, <2>2
    <3> QED
      BY <2>3, <3>1 DEF Checksum
  <2>5. /\ x.state = "WaitSync" /\ x.sync_run = d.sync_run
        /\ x.out = IF b = d.checksum THEN <<d.buffer>> ELSE <<>>
    BY <1>1, <2>1 DEF TakeChecksum, Decoders
  <2>6. x.out = Yield(e, b)
    BY <1>1, <1>6, <2>3, <2>4, <2>5 DEF Yield
  <2>7. StateOf(g) = "WaitSync"
    <3>1. n \in Nat /\ n + 1 > n
      BY <1>0
    <3>2. g[2] = e[2] /\ Len(g) > 2 + e[2]
      BY <1>0, <2>2, <3>1
    <3>3. Len(g) >= 2
      BY <1>0, <2>2
    <3> QED
      BY <1>10, <3>2, <3>3 DEF Stated
  <2> QED
    BY <2>5, <2>6, <2>7 DEF AwaitsNext, Awaits, g, x
<1>7. d.state # "WaitAddress"
  BY <1>9 DEF Stated
<1> QED
  BY <1>1, <1>3, <1>4, <1>5, <1>6, <1>7 DEF Decoders, DecoderStates, x

\* The byte behind an opening sync byte.
LEMMA DispatchStarts ==
  ASSUME NEW d, d \in Decoders, d.out = <<>>, d.state = "WaitAddress", NEW b \in Byte
  PROVE  LET x == Dispatch(d, b) IN
         Awaits(x, <<b>>) /\ x.out = <<>> /\ x.sync_run = d.sync_run
<1> DEFINE x == Dispatch(d, b)
<1>1. x = TakeAddress(d, b)
  BY DEF Dispatch
<1>2. /\ x.state = IF b = ADDR_TO_HOST THEN "WaitLength" ELSE "WaitSync"
      /\ b = ADDR_TO_HOST => x.checksum = ADDR_TO_HOST
      /\ x.out = <<>> /\ x.sync_run = d.sync_run
  BY <1>1 DEF TakeAddress, Decoders
<1> HIDE DEF x
<1>3. StateOf(<<b>>) = IF b = ADDR_TO_HOST THEN "WaitLength" ELSE "WaitSync"
  <2>1. <<b>>[1] = b /\ Len(<<b>>) = 1
    OBVIOUS
  <2> QED
    BY <2>1 DEF StateOf, StateAt
<1> QED
  BY <1>2, <1>3 DEF Awaits, x
(* The decoder follows the stream                                            *)

\* A decoder that heard s since it was made: it counts the sync bytes s ends
\* in, and wherever s can be read as a frame under way, it awaits what that
\* frame goes on with and has yielded what it came to.
Follows(d, s) ==
  /\ Settled(d) /\ s \in Seq(Byte) /\ Run(s, d.sync_run)
  /\ \A r, e, t : Parts(s, r, e, t) => Awaits(d, e) /\ (t = <<SYNC>> <=> OddRun(s))
  /\ \A r, e, b : Parts(s, r, Append(e, b), <<>>) /\ e \in Seq(Byte) /\ b \in Byte
                    => d.out = Yield(e, b)
  /\ d.state # "WaitSync" \/ d.out # <<>> => \E r, e, t : Parts(s, r, e, t)
  /\ OddRun(s) => d.out = <<>>

LEMMA SyncIsAByte ==
  SYNC \in Byte /\ <<SYNC>> \in Seq(Byte) /\ <<>> # <<SYNC>> /\ <<>> \in Seq(Byte)
<1>1. SYNC \in Byte
  BY DEF SYNC, Byte
<1>2. <<>> # <<SYNC>> /\ <<>> \in Seq(Byte)
  BY EmptySeq
<1> QED
  BY <1>1, <1>2

\* The match on the state does not count sync bytes.
LEMMA DispatchKeepsRun ==
  ASSUME NEW d, d \in Decoders, NEW b PROVE Dispatch(d, b).sync_run = d.sync_run
<1>1. CASE d.state = "WaitAddress"
  BY <1>1 DEF Dispatch, TakeAddress, Decoders
<1>2. CASE d.state = "WaitLength"
  BY <1>2 DEF Dispatch, TakeLength, Decoders
<1>3. CASE d.state = "WaitData"
  BY <1>3 DEF Dispatch, TakeData, Decoders
<1>4. CASE d.state = "WaitChecksum"
  BY <1>4 DEF Dispatch, TakeChecksum, Decoders
<1>5. CASE d.state = "WaitSync"
  BY <1>5 DEF Dispatch
<1> QED
  BY <1>1, <1>2, <1>3, <1>4, <1>5 DEF Decoders, DecoderStates

LEMMA NothingHeard == Follows(NewDecoder, <<>>)
<1>1. ~ OddRun(<<>>)
  BY EmptySeq DEF OddRun, Opens
<1>2. ASSUME NEW r, NEW e, NEW t, Parts(<<>>, r, e, t) PROVE FALSE
  <2>1. r \in Seq(Byte) /\ OddRun(r) /\ e \in Seq(Byte) /\ t \in Seq(Byte)
    BY <1>2, SyncIsAByte DEF Parts
  <2>2. Len((r \o Stuff(e)) \o t) = 0
    BY <1>2, EmptySeq DEF Parts
  <2>3. Stuff(e) \in Seq(Byte) /\ r \o Stuff(e) \in Seq(Byte)
    BY <2>1, StuffAppend, ConcatProperties
  <2>4. Len(r \o Stuff(e)) = Len(r) + Len(Stuff(e))
    BY <2>1, <2>3, ConcatProperties
  <2>5. Len((r \o Stuff(e)) \o t) = Len(r \o Stuff(e)) + Len(t)
    BY <2>1, <2>3, ConcatProperties
  <2>6. Len(r) \in Nat /\ Len(Stuff(e)) \in Nat /\ Len(t) \in Nat
    BY <2>1, <2>3, LenProperties
  <2>7. \E n \in 1 .. Len(r) : TRUE
    BY <2>1 DEF OddRun, Opens
  <2> QED
    BY <2>2, <2>4, <2>5, <2>6, <2>7
<1>3. NewDecoder.state = "WaitSync" /\ NewDecoder.out = <<>> /\ NewDecoder.sync_run = 0
  BY DEF NewDecoder
<1> QED
  BY <1>1, <1>2, <1>3, RunsGrow, EmptySeq, NewDecoderIsSettled DEF Follows

\* push_byte keeps following.
LEMMA PushByteFollows ==
  ASSUME NEW d, NEW s, Follows(d, s), NEW b \in Byte
  PROVE  Follows(PushByte(d, b), Append(s, b))
<1> DEFINE c == [d EXCEPT !.out = <<>>]
           odd == d.sync_run % 2 = 1
           more == [c EXCEPT !.sync_run = @ + 1]
           none == [c EXCEPT !.sync_run = 0,
                             !.state = IF odd THEN "WaitAddress" ELSE @]
           x == PushByte(d, b)
           u == Append(s, b)
<1>1. Settled(d) /\ s \in Seq(Byte) /\ Run(s, d.sync_run) /\ d \in Decoders
  BY DEF Follows, Settled, Sound
<1>2. Settled(x) /\ u \in Seq(Byte)
  BY <1>1, PushByteSettles
<1>3. OddRun(s) <=> odd
  BY <1>1, OddRunIs
<1>4. Run(u, IF b = SYNC THEN d.sync_run + 1 ELSE 0)
  BY <1>1, RunsGrow
<1>5. x = IF b = SYNC
          THEN IF odd THEN Dispatch(more, b) ELSE more
          ELSE Dispatch(none, b)
  BY <1>1 DEF PushByte, Decoders
<1>6. /\ more \in Decoders /\ more.out = <<>> /\ more.state = d.state
      /\ more.sync_run = d.sync_run + 1
      /\ none \in Decoders /\ none.out = <<>> /\ none.sync_run = 0
      /\ none.state = IF odd THEN "WaitAddress" ELSE d.state
  <2> DEFINE st == IF odd THEN "WaitAddress" ELSE d.state
  <2>1. st \in DecoderStates /\ c.state = d.state /\ c \in Decoders /\ c.out = <<>> /\ c.sync_run = d.sync_run
    BY <1>1, NothingYielded DEF Decoders, DecoderStates
  <2> HIDE DEF odd, c
  <2>2. more = [c EXCEPT !.sync_run = d.sync_run + 1] /\ d.sync_run + 1 \in Nat
    BY <1>1, <2>1 DEF Decoders
  <2>3. none = [c EXCEPT !.sync_run = 0, !.state = st]
    BY <2>1
  <2> HIDE DEF more, none, st
  <2>4. none \in Decoders /\ none.out = <<>> /\ none.sync_run = 0 /\ none.state = st
    BY <2>1, <2>3 DEF Decoders
  <2>5. /\ more \in Decoders /\ more.out = <<>> /\ more.state = d.state
        /\ more.sync_run = d.sync_run + 1
    BY <2>1, <2>2 DEF Decoders
  <2> QED
    BY <2>4, <2>5 DEF st
<1>7. \A e : Awaits(d, e) => Awaits(more, e) /\ (~ odd => Awaits(none, e))
  <2>1. /\ more.checksum = d.checksum /\ more.buffer = d.buffer /\ more.remaining = d.remaining
        /\ none.checksum = d.checksum /\ none.buffer = d.buffer /\ none.remaining = d.remaining
    BY <1>1 DEF Decoders
  <2> HIDE DEF more, none
  <2> QED
    BY <1>6, <2>1 DEF Awaits
<1>8. d.sync_run \in Nat
  BY <1>1 DEF Decoders
<1> HIDE DEF more, none, x, u, odd
<1>9. CASE b = SYNC /\ odd
  <2>1. x = Dispatch(more, b) /\ Run(u, d.sync_run + 1)
    BY <1>4, <1>5, <1>9
  <2>2. ~ OddRun(u)
    <3>1. ~ ((d.sync_run + 1) % 2 = 1)
      BY <1>8, <1>9 DEF odd
    <3> QED
      BY <1>2, <2>1, <3>1, OddRunIs
  <2>3. ASSUME NEW r, NEW e, NEW t, Parts(u, r, e, t)
        PROVE  t = <<>> /\ \E f \in Seq(Byte) : e = Append(f, b) /\ AwaitsNext(x, more, f, b)
    <3>1. \A f : ~ Parts(s, r, f, <<>>)
      BY <1>3, <1>9 DEF Follows
    <3>2. t = <<>> /\ \E f : e = Append(f, b) /\ Parts(s, r, f, <<SYNC>>)
      BY <1>1, <1>9, <2>3, <3>1, PartsOfMore DEF u
    <3>3. PICK f : e = Append(f, b) /\ Parts(s, r, f, <<SYNC>>)
      BY <3>2
    <3>4. f \in Seq(Byte) /\ f # <<>> /\ Awaits(more, f)
      BY <1>7, <3>3 DEF Follows, Parts
    <3>5. AwaitsNext(x, more, f, b)
      BY <1>6, <2>1, <3>4, DispatchAwaits
    <3> QED
      BY <3>2, <3>3, <3>4, <3>5
  <2>4. x.state # "WaitSync" \/ x.out # <<>> => \E r, e, t : Parts(u, r, e, t)
    <3> SUFFICES ASSUME x.state # "WaitSync" \/ x.out # <<>> PROVE \E r, e, t : Parts(u, r, e, t)
      OBVIOUS
    <3>1. d.state # "WaitSync"
      <4> SUFFICES ASSUME d.state = "WaitSync" PROVE x = more
        BY <1>6
      <4> QED
        BY <1>6, <2>1 DEF Dispatch
    <3>2. PICK r, e, t : Parts(s, r, e, t)
      BY <3>1 DEF Follows
    <3>3. t = <<SYNC>>
      BY <1>3, <1>9, <3>2 DEF Follows
    <3> QED
      BY <1>1, <1>9, <3>2, <3>3, PartsGrow DEF u
  <2>5. x.sync_run = d.sync_run + 1
    <3>1. Dispatch(more, b).sync_run = more.sync_run
      BY <1>6, DispatchKeepsRun
    <3> QED
      BY <1>6, <2>1, <3>1
  <2>6. \A r, e, t : Parts(u, r, e, t) => Awaits(x, e) /\ (t = <<SYNC>> <=> OddRun(u))
    <3> SUFFICES ASSUME NEW r, NEW e, NEW t, Parts(u, r, e, t)
                 PROVE  Awaits(x, e) /\ (t = <<SYNC>> <=> OddRun(u))
      OBVIOUS
    <3>1. t = <<>> /\ Awaits(x, e)
      <4>1. PICK f \in Seq(Byte) : t = <<>> /\ e = Append(f, b) /\ AwaitsNext(x, more, f, b)
        BY <2>3
      <4>2. Awaits(x, Append(f, b))
        BY <4>1, Zenon DEF AwaitsNext
      <4> QED
        BY <4>1, <4>2
    <3>2. t # <<SYNC>>
      BY <3>1, SyncIsAByte
    <3> QED
      BY <2>2, <3>1, <3>2
  <2>7. \A r, e, c1 : Parts(u, r, Append(e, c1), <<>>) /\ e \in Seq(Byte) /\ c1 \in Byte
                       => x.out = Yield(e, c1)
    <3> SUFFICES ASSUME NEW r, NEW e \in Seq(Byte), NEW c1 \in Byte, Parts(u, r, Append(e, c1), <<>>)
                 PROVE  x.out = Yield(e, c1)
      OBVIOUS
    <3>1. PICK f \in Seq(Byte) : Append(e, c1) = Append(f, b) /\ AwaitsNext(x, more, f, b)
      BY <2>3
    <3>2. e = f /\ c1 = b
      BY <3>1, AppendOneWay DEF SameAppended
    <3> QED
      BY <3>1, <3>2 DEF AwaitsNext
  <2> QED
    BY <1>2, <2>1, <2>2, <2>4, <2>5, <2>6, <2>7 DEF Follows, x, u
<1>10. CASE b = SYNC /\ ~ odd
  <2>1. x = more /\ Run(u, d.sync_run + 1)
    BY <1>4, <1>5, <1>10
  <2>2. OddRun(u)
    <3>1. (d.sync_run + 1) % 2 = 1
      BY <1>8, <1>10 DEF odd
    <3> QED
      BY <1>2, <2>1, <3>1, OddRunIs
  <2>3. ASSUME NEW r, NEW e, NEW t, Parts(u, r, e, t) PROVE t = <<SYNC>> /\ Awaits(x, e)
    <3>1. \A f : ~ Parts(s, r, f, <<SYNC>>)
      BY <1>3, <1>10 DEF Follows
    <3>2. t = <<SYNC>> /\ Parts(s, r, e, <<>>)
      BY <1>1, <1>10, <2>3, <3>1, PartsOfMore DEF u
    <3> QED
      BY <1>7, <2>1, <3>2 DEF Follows
  <2>4. x.state # "WaitSync" \/ x.out # <<>> => \E r, e, t : Parts(u, r, e, t)
    <3> SUFFICES ASSUME x.state # "WaitSync" PROVE \E r, e, t : Parts(u, r, e, t)
      BY <1>6, <2>1
    <3>1. PICK r, e, t : Parts(s, r, e, t)
      BY <1>6, <2>1 DEF Follows
    <3>2. t = <<>>
      BY <1>3, <1>10, <3>1 DEF Follows, Parts
    <3> QED
      BY <1>1, <1>10, <3>1, <3>2, PartsGrow DEF u
  <2>5. \A r, e : ~ Parts(u, r, e, <<>>)
    BY <2>3, SyncIsAByte
  <2>6. x.sync_run = d.sync_run + 1 /\ x.out = <<>>
    BY <1>6, <2>1
  <2>7. \A r, e, t : Parts(u, r, e, t) => Awaits(x, e) /\ (t = <<SYNC>> <=> OddRun(u))
    BY <2>2, <2>3
  <2> QED
    BY <1>2, <2>1, <2>4, <2>5, <2>6, <2>7 DEF Follows, x, u
<1>11. CASE b # SYNC
  <2>1. x = Dispatch(none, b) /\ Run(u, 0)
    BY <1>4, <1>5, <1>11
  <2>2. ~ OddRun(u)
    BY <1>2, <2>1, OddRunIs
  <2>3. ASSUME NEW r, NEW e, NEW t, Parts(u, r, e, t)
        PROVE  t = <<>> /\ \E f \in Seq(Byte) : /\ e = Append(f, b) /\ Awaits(x, e)
                                                /\ x.out = Yield(f, b) /\ x.sync_run = 0
    <3>1. CASE odd
      <4>1. \A f : ~ Parts(s, r, f, <<>>)
        BY <1>3, <3>1 DEF Follows
      <4>2. t = <<>> /\ e = <<b>>
        BY <1>1, <1>11, <2>3, <4>1, PartsOfMore DEF u
      <4>3. PICK f \in Seq(Byte) : f = <<>> /\ Len(f) = 0
        BY EmptySeq
      <4>4. e = Append(f, b) /\ Yield(f, b) = <<>>
        BY <4>2, <4>3 DEF Yield
      <4>5. Awaits(x, <<b>>) /\ x.out = <<>> /\ x.sync_run = 0
        BY <1>6, <2>1, <3>1, DispatchStarts
      <4> QED
        BY <4>2, <4>3, <4>4, <4>5
    <3>2. CASE ~ odd
      <4>1. t = <<>> /\ \E f : e = Append(f, b) /\ Parts(s, r, f, <<>>)
        BY <1>1, <1>3, <1>11, <2>3, <3>2, PartsOfMore DEF u
      <4>2. PICK f : e = Append(f, b) /\ Parts(s, r, f, <<>>)
        BY <4>1
      <4>3. f \in Seq(Byte) /\ f # <<>> /\ Awaits(none, f)
        BY <1>7, <3>2, <4>2 DEF Follows, Parts
      <4>4. AwaitsNext(x, none, f, b)
        BY <1>6, <2>1, <4>3, DispatchAwaits
      <4> QED
        BY <1>6, <4>1, <4>2, <4>3, <4>4 DEF AwaitsNext
    <3> QED
      BY <3>1, <3>2
  <2>4. x.state # "WaitSync" \/ x.out # <<>> => \E r, e, t : Parts(u, r, e, t)
    <3> SUFFICES ASSUME x.state # "WaitSync" \/ x.out # <<>> PROVE \E r, e, t : Parts(u, r, e, t)
      OBVIOUS
    <3>1. CASE odd
      BY <1>1, <1>3, <1>11, <3>1, PartsGrow DEF u
    <3>2. CASE ~ odd
      <4>1. d.state # "WaitSync"
        <5> SUFFICES ASSUME d.state = "WaitSync" PROVE x = none
          BY <1>6, <3>2
        <5> QED
          BY <1>6, <2>1, <3>2 DEF Dispatch
      <4>2. PICK r, e, t : Parts(s, r, e, t)
        BY <4>1 DEF Follows
      <4>3. t = <<>>
        BY <1>3, <3>2, <4>2 DEF Follows, Parts
      <4> QED
        BY <1>1, <1>11, <4>2, <4>3, PartsGrow DEF u
    <3> QED
      BY <3>1, <3>2
  <2>5. x.sync_run = 0
    <3>1. Dispatch(none, b).sync_run = none.sync_run
      BY <1>6, DispatchKeepsRun
    <3> QED
      BY <1>6, <2>1, <3>1
  <2>6. \A r, e, t : Parts(u, r, e, t) => Awaits(x, e) /\ (t = <<SYNC>> <=> OddRun(u))
    <3> SUFFICES ASSUME NEW r, NEW e, NEW t, Parts(u, r, e, t)
                 PROVE  Awaits(x, e) /\ (t = <<SYNC>> <=> OddRun(u))
      OBVIOUS
    <3>1. t = <<>> /\ Awaits(x, e)
      BY <2>3
    <3>2. t # <<SYNC>>
      BY <3>1, SyncIsAByte
    <3> QED
      BY <2>2, <3>1, <3>2
  <2>7. \A r, e, c1 : Parts(u, r, Append(e, c1), <<>>) /\ e \in Seq(Byte) /\ c1 \in Byte
                       => x.out = Yield(e, c1)
    <3> SUFFICES ASSUME NEW r, NEW e \in Seq(Byte), NEW c1 \in Byte, Parts(u, r, Append(e, c1), <<>>)
                 PROVE  x.out = Yield(e, c1)
      OBVIOUS
    <3>1. PICK f \in Seq(Byte) : Append(e, c1) = Append(f, b) /\ x.out = Yield(f, b)
      BY <2>3
    <3>2. e = f /\ c1 = b
      BY <3>1, AppendOneWay DEF SameAppended
    <3> QED
      BY <3>1, <3>2
  <2> QED
    BY <1>2, <2>1, <2>2, <2>4, <2>5, <2>6, <2>7 DEF Follows, x, u
<1> QED
  BY <1>9, <1>10, <1>11
(* Frames                                                                    *)

\* The bytes of a frame before they are stuffed, but for the checksum.
Fields(data) == <<ADDR_TO_HOST, Len(data)>> \o data

SumByte(data) == Checksum(ADDR_TO_HOST, data)

Framed(data) == data \in Seq(Byte) /\ Len(data) \in 1 .. MAX_DATA_LEN

IsPair(h, x, y) == h = <<x, y>> /\ Len(h) = 2 /\ h[1] = x /\ h[2] = y

LEMMA PairOfBytes ==
  ASSUME NEW x \in Byte, NEW y \in Byte PROVE \E h \in Seq(Byte) : IsPair(h, x, y)
<1>1. <<x, y>> \in Seq(Byte) /\ Len(<<x, y>>) = 2 /\ <<x, y>>[1] = x /\ <<x, y>>[2] = y
  OBVIOUS
<1> QED
  BY <1>1 DEF IsPair

LEMMA SumsAreNat ==
  ASSUME NEW x \in Byte, NEW y \in Byte, NEW z \in Byte
  PROVE  x + y + z \in Nat /\ (x + y + z) % 256 \in Byte
BY DEF Byte

LEMMA ChecksumType ==
  ASSUME NEW data, Framed(data) PROVE SumByte(data) \in Byte
<1>1. Len(data) \in Byte /\ ADDR_TO_HOST \in Byte
  BY DEF Framed, MAX_DATA_LEN, ADDR_TO_HOST, Byte
<1>2. ByteSum(data) \in Byte
  BY SumAppend DEF Framed
<1> QED
  BY <1>1, <1>2, SumsAreNat, Zenon DEF SumByte, Checksum

LEMMA FieldsAre ==
  ASSUME NEW data, Framed(data)
  PROVE  LET e == Fields(data) IN
         /\ e \in Seq(Byte) /\ e # <<>> /\ Len(e) = Len(data) + 2
         /\ e[1] = ADDR_TO_HOST /\ e[2] = Len(data)
         /\ \A i \in 1 .. Len(data) : e[i + 2] = data[i]
         /\ Body(e) = data /\ StateOf(e) = "WaitChecksum"
<1>1. data \in Seq(Byte) /\ Len(data) \in 1 .. 255 /\ Len(data) \in Nat
  BY DEF Framed, MAX_DATA_LEN
<1>2. Len(data) \in Byte /\ ADDR_TO_HOST \in Byte
  <2>1. Len(data) \in 0 .. 255
    BY <1>1
  <2> QED
    BY <2>1, ByteFacts, Zenon DEF Byte
<1>3. PICK h \in Seq(Byte) : IsPair(h, ADDR_TO_HOST, Len(data))
  BY <1>2, PairOfBytes, Zenon
<1> DEFINE e == h \o data
<1>4. Fields(data) = e
  BY <1>3 DEF Fields, IsPair
<1>5. /\ e \in Seq(Byte) /\ Len(e) = Len(h) + Len(data)
      /\ \A i \in 1 .. Len(h) + Len(data) :
           e[i] = IF i <= Len(h) THEN h[i] ELSE data[i - Len(h)]
  BY <1>1, ConcatProperties
<1> HIDE DEF e
<1>6. /\ Len(e) = Len(data) + 2 /\ e[1] = ADDR_TO_HOST /\ e[2] = Len(data)
      /\ \A i \in 1 .. Len(data) : e[i + 2] = data[i]
  <2>1. Len(e) = Len(data) + 2 /\ 1 \in 1 .. Len(h) + Len(data) /\ 2 \in 1 .. Len(h) + Len(data)
    BY <1>1, <1>3, <1>5 DEF IsPair
  <2>2. e[1] = ADDR_TO_HOST /\ e[2] = Len(data)
    BY <1>3, <1>5, <2>1 DEF IsPair
  <2>3. ASSUME NEW i \in 1 .. Len(data) PROVE e[i + 2] = data[i]
    <3>1. i + 2 \in 1 .. Len(h) + Len(data) /\ ~ (i + 2 <= Len(h)) /\ (i + 2) - Len(h) = i
      BY <1>1, <1>3 DEF IsPair
    <3> QED
      BY <1>5, <3>1
  <2> QED
    BY <2>1, <2>2, <2>3
<1>7. e # <<>>
  BY <1>1, <1>5, <1>6, EmptySeq
<1>8. Body(e) = data
  <2> DEFINE u == Body(e)
  <2>1. /\ u \in Seq(Byte) /\ Len(u) = (Len(e) - 3) + 1
        /\ \A i \in 1 .. (Len(e) - 3) + 1 : u[i] = e[i + 3 - 1]
    <3>1. 3 \in Nat \ {0} /\ Len(e) \in Nat /\ Len(e) <= Len(e) /\ 3 <= Len(e) + 1
      BY <1>1, <1>6
    <3> QED
      BY <1>5, <3>1, Slice, Zenon DEF Body
  <2> HIDE DEF u
  <2>2. Len(u) = Len(data) /\ \A i \in 1 .. Len(data) : u[i] = data[i]
    <3>1. (Len(e) - 3) + 1 = Len(data) /\ \A i \in 1 .. Len(data) : i + 3 - 1 = i + 2
      BY <1>1, <1>6
    <3> QED
      BY <1>6, <2>1, <3>1
  <2>3. u = data
    BY <1>1, <2>1, <2>2, SeqEqual
  <2> QED
    BY <2>3 DEF u
<1>9. StateOf(e) = "WaitChecksum"
  <2>1. Counted(e[2], Len(e))
    BY <1>1, <1>6 DEF Counted
  <2>2. Stated(StateOf(e), e[1], e[2], Len(e))
    BY <2>1, StateIs, Zenon DEF StateOf
  <2>3. Len(e) >= 2 /\ e[2] # 0 /\ Len(e) = 2 + e[2]
    <3>1. PICK m \in 1 .. 255 : m = Len(data)
      BY <1>1
    <3>2. Len(e) = m + 2 /\ e[2] = m
      BY <1>6, <3>1
    <3>3. m + 2 >= 2 /\ m # 0 /\ m + 2 = 2 + m
      OBVIOUS
    <3> QED
      BY <3>2, <3>3
  <2> QED
    BY <1>6, <2>2, <2>3 DEF Stated
<1> QED
  BY <1>4, <1>5, <1>6, <1>7, <1>8, <1>9

\* A byte yields data exactly behind the fields of its frame, as checksum.
LEMMA YieldsItsFrame ==
  ASSUME NEW data, Framed(data), NEW e \in Seq(Byte), NEW b \in Byte
  PROVE  Yield(e, b) = <<data>> <=> e = Fields(data) /\ b = SumByte(data)
<1>1. ASSUME e = Fields(data), b = SumByte(data) PROVE Yield(e, b) = <<data>>
  BY <1>1, FieldsAre DEF Yield, SumByte
<1>2. ASSUME Yield(e, b) = <<data>> PROVE e = Fields(data) /\ b = SumByte(data)
  <2>1. /\ e # <<>> /\ StateOf(e) = "WaitChecksum" /\ b = Checksum(ADDR_TO_HOST, Body(e))
        /\ <<Body(e)>> = <<data>>
    <3>1. <<data>> # <<>>
      BY EmptySeq
    <3> QED
      BY <1>2, <3>1 DEF Yield
  <2>2. Body(e) = data
    BY <2>1
  <2>3. Len(e) \in Nat \ {0} /\ (Len(e) >= 2 => e[2] \in Byte /\ Len(Body(e)) = Len(e) - 2)
    BY <2>1, OneMore
  <2>4. Counted(e[2], Len(e))
    BY <2>3, ByteFacts DEF Counted
  <2>5. Stated(StateOf(e), e[1], e[2], Len(e))
    BY <2>4, StateIs, Zenon DEF StateOf
  <2>6. e[1] = ADDR_TO_HOST /\ Len(e) >= 2 /\ Len(e) = 2 + e[2]
    BY <2>1, <2>5 DEF Stated
  <2>7. e[2] = Len(data) /\ Len(e) = Len(data) + 2 /\ Len(data) \in Nat
    <3>1. PICK m \in Byte : m = e[2]
      BY <2>3, <2>6
    <3>2. m \in Nat
      BY ByteFacts
    <3>3. Len(e) = 2 + m /\ Len(data) = Len(e) - 2
      BY <2>2, <2>3, <2>6, <3>1
    <3>4. Len(data) = m /\ Len(e) = m + 2
      BY <3>2, <3>3
    <3> QED
      BY <3>1, <3>2, <3>4
  <2> DEFINE g == Fields(data)
  <2>8. /\ g \in Seq(Byte) /\ Len(g) = Len(data) + 2
        /\ g[1] = ADDR_TO_HOST /\ g[2] = Len(data)
        /\ \A i \in 1 .. Len(data) : g[i + 2] = data[i]
    BY FieldsAre
  <2> HIDE DEF g
  <2>9. \A i \in 1 .. Len(data) : data[i] = e[i + 2]
    <3> DEFINE u == Body(e)
    <3>1. /\ u \in Seq(Byte) /\ Len(u) = (Len(e) - 3) + 1
          /\ \A i \in 1 .. (Len(e) - 3) + 1 : u[i] = e[i + 3 - 1]
      <4>1. 3 \in Nat \ {0} /\ Len(e) \in Nat /\ Len(e) <= Len(e) /\ 3 <= Len(e) + 1
        BY <2>3, <2>6
      <4> QED
        BY <4>1, Slice, Zenon DEF Body
    <3> HIDE DEF u
    <3>2. u = data /\ (Len(e) - 3) + 1 = Len(data) /\ \A i \in 1 .. Len(data) : i + 3 - 1 = i + 2
      BY <2>2, <2>7 DEF u
    <3> QED
      BY <3>1, <3>2
  <2>10. \A i \in 1 .. Len(e) : e[i] = g[i]
    <3> TAKE i \in 1 .. Len(e)
    <3>1. i = 1 \/ i = 2 \/ (i - 2 \in 1 .. Len(data) /\ (i - 2) + 2 = i)
      BY <2>7
    <3> QED
      BY <2>6, <2>7, <2>8, <2>9, <3>1
  <2>11. e = g
    BY <2>7, <2>8, <2>10, SeqEqual
  <2> QED
    BY <2>1, <2>2, <2>11 DEF g, SumByte
<1> QED
  BY <1>1, <1>2

\* What encode_to writes: an opening sync byte, and the fields stuffed.
LEMMA EncodeIs ==
  ASSUME NEW data, Framed(data)
  PROVE  LET F == Append(Fields(data), SumByte(data)) IN
         /\ Encode(ADDR_TO_HOST, data) = <<SYNC>> \o Stuff(F)
         /\ F \in Seq(Byte) /\ F # <<>> /\ F[1] # SYNC
<1> DEFINE e == Fields(data)
           F == Append(e, SumByte(data))
<1>1. e \in Seq(Byte) /\ Len(e) = Len(data) + 2 /\ e[1] = ADDR_TO_HOST /\ SumByte(data) \in Byte
  BY FieldsAre, ChecksumType
<1>2. Encode(ADDR_TO_HOST, data) = <<SYNC>> \o Stuff(e \o <<SumByte(data)>>)
  BY DEF Encode, Fields, SumByte
<1> HIDE DEF e
<1>3. F = e \o <<SumByte(data)>> /\ F \in Seq(Byte) /\ F # <<>>
  BY <1>1, AppendIs
<1>4. F[1] = e[1]
  <2>1. 1 \in 1 .. Len(e)
    BY <1>1 DEF Framed
  <2> QED
    BY <1>1, <2>1
<1>5. ADDR_TO_HOST # SYNC
  BY DEF ADDR_TO_HOST, SYNC
<1> QED
  BY <1>1, <1>2, <1>3, <1>4, <1>5 DEF e
LEMMA OddRunEnds ==
  ASSUME NEW r \in Seq(Byte), OddRun(r) PROVE r # <<>> /\ Len(r) \in Nat \ {0} /\ r[Len(r)] = SYNC
<1>1. PICK n \in 1 .. Len(r) : \A j \in Len(r) - n + 1 .. Len(r) : r[j] = SYNC
  BY DEF OddRun, Opens, SyncRun
<1>2. Len(r) \in Nat /\ Len(r) # 0
  BY <1>1
<1>3. Len(r) \in Len(r) - n + 1 .. Len(r)
  BY <1>2
<1> QED
  BY <1>1, <1>2, <1>3, EmptySeq

\* Whether a position opens a frame depends only on the bytes up to it.
LEMMA OpensEarly ==
  ASSUME NEW r \in Seq(Byte), NEW s \in Seq(Byte), NEW p \in Nat, Len(r) = p,
         \A j \in 1 .. p : s[j] = r[j]
  PROVE  Opens(s, p) <=> OddRun(r)
<1>1. ASSUME NEW n \in 1 .. p PROVE SyncRun(s, p, n) <=> SyncRun(r, p, n)
  <2>1. \A j \in p - n + 1 .. p : s[j] = r[j]
    OBVIOUS
  <2>2. n < p => s[p - n] = r[p - n]
    <3>1. n < p => p - n \in 1 .. p
      OBVIOUS
    <3> QED
      BY <3>1
  <2> QED
    BY <2>1, <2>2 DEF SyncRun
<1> QED
  BY <1>1 DEF Opens, OddRun

\* The stream s ends, from position p on, in an opening sync byte and v.
EndsIn(s, v, p) == p \in DOMAIN s /\ SubSeq(s, p, Len(s)) = <<SYNC>> \o v /\ Opens(s, p)

LEMMA EndsInIs ==
  ASSUME NEW s \in Seq(Byte), NEW v \in Seq(Byte), NEW p \in Int, p = Len(s) - Len(<<SYNC>> \o v) + 1
  PROVE  EndsIn(s, v, p) <=> \E r \in Seq(Byte) : OddRun(r) /\ s = r \o v
<1>0. /\ Len(<<SYNC>> \o v) = Len(v) + 1 /\ Len(v) \in Nat /\ Len(s) \in Nat
      /\ <<SYNC>> \o v \in Seq(Byte)
      /\ (<<SYNC>> \o v)[1] = SYNC /\ \A i \in 1 .. Len(v) : (<<SYNC>> \o v)[i + 1] = v[i]
  <2>1. PICK y \in Seq(Byte) : y = <<SYNC>> /\ Len(y) = 1 /\ y[1] = SYNC
    BY SyncIsAByte
  <2> DEFINE w == y \o v
  <2>2. /\ w \in Seq(Byte) /\ Len(w) = Len(y) + Len(v)
        /\ \A i \in 1 .. Len(y) + Len(v) : w[i] = IF i <= Len(y) THEN y[i] ELSE v[i - Len(y)]
    BY ConcatProperties
  <2> HIDE DEF w
  <2>3. Len(v) \in Nat /\ Len(s) \in Nat
    OBVIOUS
  <2>4. w[1] = SYNC
    BY <2>1, <2>2, <2>3
  <2>5. ASSUME NEW i \in 1 .. Len(v) PROVE w[i + 1] = v[i]
    <3>1. i + 1 \in 1 .. Len(y) + Len(v) /\ ~ (i + 1 <= Len(y)) /\ (i + 1) - Len(y) = i
      BY <2>1, <2>3
    <3> QED
      BY <2>2, <3>1
  <2>6. w = <<SYNC>> \o v
    BY <2>1 DEF w
  <2>7. Len(w) = Len(v) + 1
    BY <2>1, <2>2, <2>3
  <2> QED
    BY <2>2, <2>3, <2>4, <2>5, <2>6, <2>7
<1> DEFINE w == <<SYNC>> \o v
<1>1. p = Len(s) - Len(v)
  BY <1>0
<1> HIDE DEF w
<1>2. ASSUME NEW r \in Seq(Byte), OddRun(r), s = r \o v PROVE EndsIn(s, v, p)
  <2>1. /\ Len(s) = Len(r) + Len(v)
        /\ \A i \in 1 .. Len(r) + Len(v) : s[i] = IF i <= Len(r) THEN r[i] ELSE v[i - Len(r)]
    BY <1>2, ConcatProperties
  <2>2. Len(r) \in Nat \ {0} /\ r[Len(r)] = SYNC
    BY <1>2, OddRunEnds
  <2>3. p = Len(r) /\ p \in 1 .. Len(s) /\ p \in Nat \ {0}
    BY <1>0, <1>1, <2>1, <2>2
  <2>4. p \in DOMAIN s
    BY <2>3
  <2>5. \A j \in 1 .. p : s[j] = r[j]
    BY <1>0, <2>1, <2>3
  <2>6. Opens(s, p)
    BY <1>2, <2>3, <2>5, OpensEarly
  <2> DEFINE u == SubSeq(s, p, Len(s))
  <2>7. /\ u \in Seq(Byte) /\ Len(u) = (Len(s) - p) + 1
        /\ \A i \in 1 .. (Len(s) - p) + 1 : u[i] = s[i + p - 1]
    <3>1. p <= Len(s) + 1
      BY <1>0, <2>3
    <3> QED
      BY <1>0, <2>3, <3>1, Slice
  <2> HIDE DEF u
  <2>8. w \in Seq(Byte) /\ Len(w) = Len(u)
    <3>1. (Len(s) - p) + 1 = Len(v) + 1
      BY <1>0, <2>1, <2>3
    <3> QED
      BY <1>0, <2>7, <3>1 DEF w
  <2>9. ASSUME NEW i \in 1 .. Len(u) PROVE u[i] = w[i]
    <3>1. i \in 1 .. Len(v) + 1 /\ i \in 1 .. (Len(s) - p) + 1
      BY <1>0, <2>1, <2>3, <2>7
    <3>2. CASE i = 1
      <4>1. i + p - 1 = p
        BY <2>3, <3>2
      <4>2. s[p] = SYNC
        BY <2>2, <2>3, <2>5
      <4> QED
        BY <1>0, <2>7, <3>1, <3>2, <4>1, <4>2 DEF w
    <3>3. CASE i # 1
      <4>1. PICK k \in 1 .. Len(v) : i = k + 1
        <5>1. i - 1 \in 1 .. Len(v) /\ i = (i - 1) + 1
          BY <1>0, <3>1, <3>3
        <5> QED
          BY <5>1
      <4>2. w[i] = v[k]
        BY <1>0, <4>1 DEF w
      <4>3. i + p - 1 = k + p /\ k + p \in 1 .. Len(r) + Len(v) /\ ~ (k + p <= Len(r)) /\ (k + p) - Len(r) = k
        <5>1. PICK n \in Nat : n = Len(v)
          BY <1>0
        <5>2. PICK m \in Nat \ {0} : m = Len(r) /\ m = p
          BY <2>3
        <5>3. k \in 1 .. n
          BY <5>1
        <5>4. (k + 1) + m - 1 = k + m /\ k + m \in 1 .. m + n /\ ~ (k + m <= m) /\ (k + m) - m = k
          BY <5>3
        <5> QED
          BY <4>1, <5>1, <5>2, <5>4
      <4>4. s[k + p] = v[k]
        BY <2>1, <4>3
      <4> QED
        BY <2>7, <3>1, <4>2, <4>3, <4>4
    <3> QED
      BY <3>2, <3>3
  <2>10. u = w
    BY <2>7, <2>8, <2>9, SeqEqual
  <2> QED
    BY <2>4, <2>6, <2>10 DEF EndsIn, u, w
<1>3. ASSUME EndsIn(s, v, p) PROVE \E r \in Seq(Byte) : OddRun(r) /\ s = r \o v
  <2> DEFINE r == SubSeq(s, 1, p)
             z == SubSeq(s, p + 1, Len(s))
             u == SubSeq(s, p, Len(s))
  <2>1. p \in 1 .. Len(s) /\ u = w /\ Opens(s, p)
    BY <1>3 DEF EndsIn, w
  <2>2. p \in Nat \ {0} /\ p + 1 \in Nat \ {0} /\ 1 \in Nat \ {0}
    BY <1>0, <2>1
  <2>3. r \in Seq(Byte) /\ Len(r) = p /\ \A i \in 1 .. p : r[i] = s[i]
    BY <1>0, <2>1, Prefix
  <2> HIDE DEF r
  <2>4. OddRun(r)
    BY <2>1, <2>2, <2>3, OpensEarly
  <2>5. /\ z \in Seq(Byte) /\ Len(z) = (Len(s) - (p + 1)) + 1
        /\ \A i \in 1 .. (Len(s) - (p + 1)) + 1 : z[i] = s[i + (p + 1) - 1]
    <3>1. p + 1 <= Len(s) + 1 /\ Len(s) <= Len(s)
      BY <1>0, <2>1
    <3> QED
      BY <1>0, <2>2, <3>1, Slice
  <2>6. \A i \in 1 .. (Len(s) - p) + 1 : u[i] = s[i + p - 1]
    <3>1. Len(s) <= Len(s)
      BY <1>0
    <3> QED
      BY <1>0, <2>2, <3>1, Slice
  <2>7. r \o z = s
    <3>1. /\ 1 \in 1 .. Len(s) + 1 /\ p \in 1 - 1 .. Len(s) /\ Len(s) \in p .. Len(s)
      BY <1>0, <2>1
    <3>2. SubSeq(s, 1, p) \o SubSeq(s, p + 1, Len(s)) = SubSeq(s, 1, Len(s))
      BY <3>1, ConcatAdjacentSubSeq
    <3> QED
      BY <3>2, SubSeqFull DEF r
  <2> HIDE DEF z, u
  <2>8. Len(z) = Len(v)
    BY <1>0, <1>1, <2>2, <2>5
  <2>9. ASSUME NEW i \in 1 .. Len(z) PROVE z[i] = v[i]
    <3>1. i \in 1 .. (Len(s) - (p + 1)) + 1 /\ i + 1 \in 1 .. (Len(s) - p) + 1 /\ i \in 1 .. Len(v)
      BY <1>0, <1>1, <2>2, <2>8
    <3>2. i + (p + 1) - 1 = (i + 1) + p - 1
      BY <2>2
    <3>3. z[i] = u[i + 1]
      BY <2>5, <2>6, <3>1, <3>2
    <3> QED
      BY <1>0, <2>1, <3>1, <3>3 DEF w
  <2>10. z = v
    BY <2>5, <2>8, <2>9, SeqEqual
  <2> QED
    BY <2>3, <2>4, <2>7, <2>10
<1> QED
  BY <1>2, <1>3

\* What a decoder that follows a stream has just yielded.
LEMMA YieldsExactly ==
  ASSUME NEW d, NEW s, Follows(d, s), NEW data, Framed(data)
  PROVE  d.out = <<data>> <=>
           \E r \in Seq(Byte) : OddRun(r) /\ s = r \o Stuff(Append(Fields(data), SumByte(data)))
<1> DEFINE e == Fields(data)
           F == Append(e, SumByte(data))
<1>1. F \in Seq(Byte) /\ F # <<>> /\ F[1] # SYNC
  BY EncodeIs
<1>2. e \in Seq(Byte) /\ SumByte(data) \in Byte /\ Stuff(F) \in Seq(Byte)
  BY <1>1, FieldsAre, ChecksumType, StuffAppend
<1> HIDE DEF e
<1>3. ASSUME NEW r \in Seq(Byte), OddRun(r), s = r \o Stuff(F) PROVE d.out = <<data>>
  <2>1. r \o Stuff(F) \in Seq(Byte)
    BY <1>2, ConcatProperties
  <2>2. (r \o Stuff(F)) \o <<>> = r \o Stuff(F)
    BY <2>1, AppendIs, SyncIsAByte
  <2>3. Parts(s, r, F, <<>>)
    BY <1>1, <1>3, <2>2 DEF Parts
  <2>4. d.out = Yield(e, SumByte(data))
    BY <1>2, <2>3 DEF Follows
  <2> QED
    BY <1>2, <2>4, YieldsItsFrame DEF e
<1>4. ASSUME d.out = <<data>> PROVE \E r \in Seq(Byte) : OddRun(r) /\ s = r \o Stuff(F)
  <2>1. d.out # <<>>
    BY <1>4, EmptySeq
  <2>2. PICK r, g, t : Parts(s, r, g, t)
    BY <2>1 DEF Follows
  <2>3. t = <<>>
    BY <2>1, <2>2 DEF Follows, Parts
  <2>4. r \in Seq(Byte) /\ OddRun(r) /\ g \in Seq(Byte) /\ g # <<>> /\ s = (r \o Stuff(g)) \o <<>>
    BY <2>2, <2>3 DEF Parts
  <2>5. PICK f \in Seq(Byte), b \in Byte : g = Append(f, b)
    BY <2>4, SequenceEmptyOrAppend
  <2>6. Yield(f, b) = <<data>>
    BY <1>4, <2>2, <2>3, <2>5 DEF Follows
  <2>7. f = e /\ b = SumByte(data)
    BY <2>6, YieldsItsFrame DEF e
  <2>8. s = r \o Stuff(g)
    <3>1. r \o Stuff(g) \in Seq(Byte)
      BY <2>4, StuffedMore, SyncIsAByte
    <3> QED
      BY <2>4, <3>1, AppendIs, SyncIsAByte
  <2> QED
    BY <2>4, <2>5, <2>7, <2>8
<1> QED
  BY <1>3, <1>4 DEF e

\* Against encode_to: a byte completes a frame exactly when the bytes up to it
\* end in the frame's encoding, opened by a sync byte that is no half of a pair.
THEOREM DecoderDecodesExactly == DecoderSpec => []DecodesExactly
<1> DEFINE I == Follows(dec, heard)
<1>1. DecoderInit => I
  BY NothingHeard DEF DecoderInit
<1>2. I /\ [DecoderNext]_<<dec, heard>> => I'
  <2> SUFFICES ASSUME I, [DecoderNext]_<<dec, heard>> PROVE I'
    OBVIOUS
  <2>1. ASSUME NEW b \in Alphabet, Hear(b) PROVE I'
    BY <2>1, PushByteFollows, AlphabetAssumption DEF Hear
  <2>2. ASSUME Reset PROVE I'
    BY <2>2, NothingHeard DEF Reset, ResetDecoder
  <2>3. ASSUME UNCHANGED <<dec, heard>> PROVE I'
    BY <2>3
  <2> QED
    BY <2>1, <2>2, <2>3 DEF DecoderNext
<1>3. I => DecodesExactly
  <2> SUFFICES ASSUME I, NEW frame \in Encodings
               PROVE  dec.out = <<frame.data>> <=>
                        LET opening == Len(heard) - Len(frame.bytes) + 1 IN
                          /\ opening \in DOMAIN heard
                          /\ SubSeq(heard, opening, Len(heard)) = frame.bytes
                          /\ Opens(heard, opening)
    BY DEF DecodesExactly
  <2>0. PICK n \in DataLengths : \E data \in [1 .. n -> Alphabet] :
          frame = [data |-> data, bytes |-> Encode(ADDR_TO_HOST, data)]
    BY DEF Encodings
  <2>1. PICK data \in [1 .. n -> Alphabet] :
          frame = [data |-> data, bytes |-> Encode(ADDR_TO_HOST, data)]
    BY <2>0
  <2>2. Framed(data)
    <3>1. n \in 1 .. MAX_DATA_LEN /\ n \in Nat
      BY MaxBytesAssumption DEF MAX_DATA_LEN
    <3>2. data \in [1 .. n -> Byte]
      BY AlphabetAssumption
    <3>3. data \in Seq(Byte) /\ Len(data) = n
      BY <3>1, <3>2
    <3> QED
      BY <3>1, <3>3 DEF Framed
  <2> DEFINE v == Stuff(Append(Fields(data), SumByte(data)))
             p == Len(heard) - Len(<<SYNC>> \o v) + 1
  <2>3. frame.bytes = <<SYNC>> \o v /\ frame.data = data /\ v \in Seq(Byte) /\ heard \in Seq(Byte)
    <3>1. frame.bytes = Encode(ADDR_TO_HOST, data) /\ frame.data = data
      BY <2>1
    <3>2. Encode(ADDR_TO_HOST, data) = <<SYNC>> \o v
      BY <2>2, EncodeIs
    <3>3. v \in Seq(Byte)
      <4>1. Append(Fields(data), SumByte(data)) \in Seq(Byte)
        BY <2>2, EncodeIs
      <4> QED
        BY <4>1, StuffAppend, SyncIsAByte
    <3>4. heard \in Seq(Byte)
      BY DEF Follows
    <3> QED
      BY <3>1, <3>2, <3>3, <3>4
  <2>4. p \in Int
    <3>1. <<SYNC>> \o v \in Seq(Byte)
      BY <2>3, SyncIsAByte, ConcatProperties
    <3> QED
      BY <2>3, <3>1
  <2>5. dec.out = <<data>> <=> \E r \in Seq(Byte) : OddRun(r) /\ heard = r \o v
    BY <2>2, YieldsExactly
  <2> HIDE DEF v
  <2>6. EndsIn(heard, v, p) <=> \E r \in Seq(Byte) : OddRun(r) /\ heard = r \o v
    BY <2>3, <2>4, EndsInIs
  <2> QED
    BY <2>3, <2>5, <2>6 DEF EndsIn
<1> QED
  BY <1>1, <1>2, <1>3, PTL DEF DecoderSpec
(* Feeding slices of a stream                                                *)

\* Induction over sequences of bytes, for a set of them.
LEMMA ByteInduction ==
  ASSUME NEW S \in SUBSET Seq(Byte), <<>> \in S, \A x \in S, b \in Byte : Append(x, b) \in S
  PROVE  S = Seq(Byte)
<1> DEFINE K == {n \in Nat : \A x \in Seq(Byte) : Len(x) = n => x \in S}
<1>1. 0 \in K
  BY EmptySeq
<1>2. ASSUME NEW n \in K PROVE n + 1 \in K
  <2> SUFFICES ASSUME NEW x \in Seq(Byte), Len(x) = n + 1 PROVE x \in S
    OBVIOUS
  <2>1. x # <<>> /\ n \in Nat
    BY EmptySeq
  <2>2. PICK y \in Seq(Byte), b \in Byte : x = Append(y, b)
    BY <2>1, SequenceEmptyOrAppend
  <2>3. Len(y) = n
    BY <2>1, <2>2
  <2> QED
    BY <2>2, <2>3
<1>3. K \in SUBSET Nat
  OBVIOUS
<1> HIDE DEF K
<1>4. K = Nat
  BY <1>1, <1>2, <1>3, Induction
<1>5. \A x \in Seq(Byte) : x \in S
  <2> TAKE x \in Seq(Byte)
  <2>1. Len(x) \in K
    BY <1>4
  <2> QED
    BY <2>1 DEF K
<1> QED
  BY <1>5

LEMMA RunExists == \A s \in Seq(Byte) : \E n : Run(s, n)
<1> DEFINE S == {s \in Seq(Byte) : \E n : Run(s, n)}
<1>1. <<>> \in S
  BY EmptySeq, RunsGrow
<1>2. ASSUME NEW s \in S, NEW b \in Byte PROVE Append(s, b) \in S
  BY RunsGrow, AppendIs
<1>3. S \in SUBSET Seq(Byte)
  OBVIOUS
<1> HIDE DEF S
<1>4. S = Seq(Byte)
  BY <1>1, <1>2, <1>3, ByteInduction
<1> QED
  BY <1>4 DEF S

LEMMA OddRunGrows ==
  ASSUME NEW s \in Seq(Byte), NEW b \in Byte
  PROVE  OddRun(Append(s, b)) <=> b = SYNC /\ ~ OddRun(s)
<1>1. PICK n : Run(s, n)
  BY RunExists
<1>2. n \in Nat /\ (OddRun(s) <=> n % 2 = 1)
  <2>1. OddRun(s) <=> n % 2 = 1
    BY <1>1, OddRunIs
  <2>2. n \in Nat
    BY <1>1 DEF Run, SyncRun
  <2> QED
    BY <2>1, <2>2
<1>3. Append(s, b) \in Seq(Byte)
  BY AppendIs
<1>4. CASE b = SYNC
  <2>1. Run(Append(s, b), n + 1)
    BY <1>1, <1>4, RunsGrow
  <2>2. OddRun(Append(s, b)) <=> (n + 1) % 2 = 1
    BY <1>3, <2>1, OddRunIs
  <2>3. (n + 1) % 2 = 1 <=> ~ (n % 2 = 1)
    BY <1>2
  <2> QED
    BY <1>2, <1>4, <2>2, <2>3
<1>5. CASE b # SYNC
  <2>1. Run(Append(s, b), 0)
    BY <1>1, <1>5, RunsGrow
  <2>2. ~ OddRun(Append(s, b))
    <3>1. OddRun(Append(s, b)) <=> 0 % 2 = 1
      BY <1>3, <2>1, OddRunIs, Zenon
    <3> QED
      BY <3>1
  <2> QED
    BY <1>5, <2>2
<1> QED
  BY <1>4, <1>5

\* What was stuffed ends in whole pairs.
LEMMA EvenBehind ==
  ASSUME NEW w \in Seq(Byte), NEW e \in Seq(Byte), e # <<>>, e[1] # SYNC
  PROVE  ~ OddRun(w \o Stuff(e))
<1> DEFINE Whole(f) == f # <<>> /\ f[1] # SYNC => ~ OddRun(w \o Stuff(f))
           S == {f \in Seq(Byte) : Whole(f)}
<1>1. <<>> \in S
  BY EmptySeq
<1>2. ASSUME NEW f \in S, NEW b \in Byte PROVE Append(f, b) \in S
  <2> SUFFICES ASSUME Append(f, b)[1] # SYNC PROVE ~ OddRun(w \o Stuff(Append(f, b)))
    BY AppendIs
  <2> DEFINE z == w \o Stuff(f)
  <2>1. f \in Seq(Byte) /\ z \in Seq(Byte) /\ SYNC \in Byte
    BY StuffedMore, SyncIsAByte
  <2> HIDE DEF z
  <2>2. CASE b # SYNC
    <3>1. w \o Stuff(Append(f, b)) = Append(z, b)
      BY <2>1, <2>2, StuffedMore DEF z
    <3> QED
      BY <2>1, <2>2, <3>1, OddRunGrows
  <2>3. CASE b = SYNC
    <3>1. f # <<>> /\ f[1] # SYNC
      <4>1. f = <<>> => Append(f, b)[1] = b
        BY <2>1
      <4>2. f # <<>>
        BY <2>3, <4>1
      <4>3. Append(f, b)[1] = f[1]
        BY <2>1, <4>2, OneMore
      <4> QED
        BY <4>2, <4>3
    <3>2. ~ OddRun(z)
      BY <3>1 DEF z
    <3>3. w \o Stuff(Append(f, b)) = Append(Append(z, SYNC), SYNC)
      BY <2>1, <2>3, StuffedMore DEF z
    <3>4. OddRun(Append(z, SYNC)) /\ Append(z, SYNC) \in Seq(Byte)
      BY <2>1, <3>2, OddRunGrows, AppendIs
    <3> QED
      BY <2>1, <3>3, <3>4, OddRunGrows
  <2> QED
    BY <2>2, <2>3
<1>3. S \in SUBSET Seq(Byte)
  OBVIOUS
<1> HIDE DEF S
<1>4. e \in S
  BY <1>1, <1>2, <1>3, ByteInduction
<1> QED
  BY <1>4 DEF S

\* A decoder fed a slice follows the stream that goes on with it.
LEMMA PushFollows ==
  ASSUME NEW d, NEW s, Follows(d, s), NEW x \in Seq(Byte)
  PROVE  Follows(Push(d, x).dec, s \o x)
<1> DEFINE S == {y \in Seq(Byte) : Follows(Push(d, y).dec, s \o y)}
<1>0. Settled(d) /\ s \in Seq(Byte)
  BY DEF Follows
<1>1. <<>> \in S
  <2>1. Push(d, <<>>).dec = d /\ s \o <<>> = s
    BY <1>0, PushAppend, AppendIs, SyncIsAByte DEF Unfed
  <2> QED
    BY <2>1, EmptySeq
<1>2. ASSUME NEW y \in S, NEW b \in Byte PROVE Append(y, b) \in S
  <2>1. Push(d, Append(y, b)).dec = PushByte(Push(d, y).dec, b)
    <3>1. Push(d, Append(y, b)) = Feed(Push(d, y), b)
      BY <1>0, PushAppend
    <3> QED
      BY <3>1 DEF Feed
  <2>2. s \o Append(y, b) = Append(s \o y, b) /\ Append(y, b) \in Seq(Byte)
    BY <1>0, AppendIs
  <2>3. Follows(PushByte(Push(d, y).dec, b), Append(s \o y, b))
    BY PushByteFollows
  <2> QED
    BY <2>1, <2>2, <2>3
<1>3. S \in SUBSET Seq(Byte)
  OBVIOUS
<1> HIDE DEF S
<1>4. x \in S
  BY <1>1, <1>2, <1>3, ByteInduction
<1> QED
  BY <1>4 DEF S

LEMMA FramesAssociate ==
  ASSUME NEW u \in Seq(Seq(Byte)), NEW v \in Seq(Seq(Byte)), NEW w \in Seq(Seq(Byte))
  PROVE  (u \o v) \o w = u \o (v \o w)
<1>1. PICK X : X = Seq(Byte)
  OBVIOUS
<1>2. u \in Seq(X) /\ v \in Seq(X) /\ w \in Seq(X)
  BY <1>1
<1> QED
  BY <1>2, ConcatAssociative

\* A stream may be cut anywhere.
LEMMA PushCut ==
  ASSUME NEW d, Settled(d), NEW x \in Seq(Byte), NEW y \in Seq(Byte)
  PROVE  LET p == Push(d, x)
             q == Push(p.dec, y)
         IN p \in Fed /\ q \in Fed /\ Push(d, x \o y) = [dec |-> q.dec, done |-> p.done \o q.done]
<1> DEFINE p == Push(d, x)
           Joined(q) == [dec |-> q.dec, done |-> p.done \o q.done]
           S == {z \in Seq(Byte) : Push(d, x \o z) = Joined(Push(p.dec, z))}
<1>1. p \in Fed /\ Settled(p.dec) /\ p.done \in Seq(Seq(Byte))
  <2>1. p \in Fed
    BY PushAppend, SyncIsAByte
  <2> QED
    BY <2>1 DEF Fed
<1> HIDE DEF p
<1>2. <<>> \in S
  <2>1. Push(p.dec, <<>>) = Unfed(p.dec) /\ x \o <<>> = x
    BY <1>1, PushAppend, AppendIs, SyncIsAByte
  <2>2. p.done \o <<>> = p.done
    BY <1>1, ConcatEmptySeq
  <2>3. p = [dec |-> p.dec, done |-> p.done]
    BY <1>1 DEF Fed
  <2>4. Joined(Unfed(p.dec)) = p
    BY <2>2, <2>3 DEF Unfed
  <2> HIDE DEF Joined
  <2> QED
    BY <2>1, <2>4, EmptySeq DEF p
<1>3. ASSUME NEW z \in S, NEW b \in Byte PROVE Append(z, b) \in S
  <2> DEFINE q == Push(p.dec, z)
             o == PushByte(q.dec, b)
  <2>1. q \in Fed /\ Push(p.dec, Append(z, b)) = Feed(q, b)
    BY <1>1, PushAppend
  <2>2. x \o z \in Seq(Byte) /\ x \o Append(z, b) = Append(x \o z, b)
    BY AppendIs
  <2>3. Push(d, Append(x \o z, b)) = Feed(Push(d, x \o z), b)
    BY <2>2, PushAppend
  <2>4. Push(d, x \o z) = Joined(q)
    OBVIOUS
  <2>5. q.done \in Seq(Seq(Byte)) /\ o.out \in Seq(Seq(Byte))
    <3>1. Settled(q.dec) /\ q.done \in Seq(Seq(Byte))
      BY <2>1 DEF Fed
    <3>2. Settled(o)
      BY <3>1, PushByteSettles
    <3> QED
      BY <3>1, <3>2 DEF Settled, Sound, Decoders
  <2>6. (p.done \o q.done) \o o.out = p.done \o (q.done \o o.out)
    <3>1. PICK u, v, w \in Seq(Seq(Byte)) : u = p.done /\ v = q.done /\ w = o.out
      BY <1>1, <2>5
    <3>2. (u \o v) \o w = u \o (v \o w)
      BY FramesAssociate
    <3> QED
      BY <3>1, <3>2
  <2> HIDE DEF q
  <2>7. Feed(Joined(q), b) = Joined(Feed(q, b))
    BY <2>6 DEF Feed
  <2>8. Append(z, b) \in Seq(Byte)
    BY AppendIs
  <2> HIDE DEF Joined
  <2> QED
    BY <2>1, <2>2, <2>3, <2>4, <2>7, <2>8 DEF q
<1>4. S \in SUBSET Seq(Byte)
  OBVIOUS
<1> HIDE DEF S
<1>5. y \in S
  BY <1>2, <1>3, <1>4, ByteInduction
<1>6. Push(p.dec, y) \in Fed
  BY <1>1, PushAppend, SyncIsAByte
<1> QED
  BY <1>1, <1>5, <1>6 DEF S, p
\* Behind an opening sync byte, each byte of a frame yields what it completes,
\* stuffed or not.
LEMMA StuffedYields ==
  ASSUME NEW d, NEW s, Follows(d, s), OddRun(s), NEW e \in Seq(Byte), NEW b \in Byte,
         Append(e, b)[1] # SYNC
  PROVE  Push(d, Stuff(Append(e, b))).done = Push(d, Stuff(e)).done \o Yield(e, b)
<1> DEFINE p == Push(d, Stuff(e))
           z == s \o Stuff(e)
           g == Append(e, b)
<1>0. Settled(d) /\ s \in Seq(Byte) /\ SYNC \in Byte
  BY SyncIsAByte DEF Follows
<1>1. /\ Stuff(e) \in Seq(Byte) /\ z \in Seq(Byte) /\ g \in Seq(Byte) /\ g # <<>>
      /\ <<>> \in Seq(Byte)
  BY <1>0, StuffAppend, StuffedMore, AppendIs, SyncIsAByte
<1>2. Follows(p.dec, z) /\ p \in Fed /\ p.done \in Seq(Seq(Byte))
  <2>1. Follows(p.dec, z)
    BY <1>1, PushFollows
  <2>2. p \in Fed
    BY <1>0, <1>1, PushAppend
  <2> QED
    BY <2>1, <2>2 DEF Fed
<1>3. Stuff(g) = Stuff(e) \o Stuffed(b)
  BY StuffAppend
<1> HIDE DEF p, z
\* What g has come to, read behind the bytes of g stuffed.
<1>4. ASSUME NEW x, Follows(x, s \o Stuff(g)) PROVE x.out = Yield(e, b)
  <2>1. s \o Stuff(g) \in Seq(Byte)
    BY <1>4 DEF Follows
  <2>2. s \o Stuff(g) = (s \o Stuff(g)) \o <<>>
    BY <1>0, <2>1, AppendIs
  <2>3. Parts(s \o Stuff(g), s, g, <<>>)
    BY <1>0, <1>1, <2>2 DEF Parts
  <2> QED
    BY <1>4, <2>3 DEF Follows
<1>5. CASE b # SYNC
  <2> DEFINE q == Feed(p, b)
  <2>1. s \o Stuff(g) = Append(z, b)
    BY <1>0, <1>5, StuffedMore DEF z
  <2>2. Stuff(g) = Append(Stuff(e), b)
    BY <1>1, <1>3, <1>5, AppendIs DEF Stuffed
  <2>3. Push(d, Stuff(g)) = q
    BY <1>0, <1>1, <2>2, PushAppend DEF p
  <2>4. Follows(PushByte(p.dec, b), s \o Stuff(g))
    BY <1>2, <2>1, PushByteFollows
  <2>5. PushByte(p.dec, b).out = Yield(e, b)
    BY <1>4, <2>4
  <2> QED
    BY <2>3, <2>5 DEF Feed, p
<1>6. CASE b = SYNC
  <2> DEFINE q == Feed(p, SYNC)
  <2>1. s \o Stuff(g) = Append(Append(z, SYNC), SYNC)
    BY <1>0, <1>6, StuffedMore DEF z
  <2>2. Stuff(g) = Append(Append(Stuff(e), SYNC), SYNC) /\ Append(Stuff(e), SYNC) \in Seq(Byte)
    <3>1. PICK r \in Seq(Byte) : r = <<>>
      BY <1>1
    <3>2. r \o Stuff(g) = Append(Append(r \o Stuff(e), SYNC), SYNC)
      BY <1>6, StuffedMore
    <3>3. Stuff(g) \in Seq(Byte)
      BY <1>1, StuffAppend, <1>0
    <3>4. r \o Stuff(g) = Stuff(g) /\ r \o Stuff(e) = Stuff(e)
      BY <1>1, <3>1, <3>3, ConcatEmptySeq
    <3> QED
      BY <1>0, <1>1, <3>2, <3>4, AppendIs
  <2>3. Push(d, Append(Stuff(e), SYNC)) = q
    BY <1>0, <1>1, PushAppend DEF p
  <2>4. Push(d, Stuff(g)) = Feed(q, SYNC)
    <3>1. PICK v \in Seq(Byte) : v = Append(Stuff(e), SYNC)
      BY <2>2
    <3>2. Push(d, Append(v, SYNC)) = Feed(Push(d, v), SYNC)
      BY <1>0, PushAppend
    <3> QED
      BY <2>2, <2>3, <3>1, <3>2
  <2> DEFINE x == PushByte(p.dec, SYNC)
  <2>5. Follows(x, Append(z, SYNC))
    BY <1>0, <1>2, PushByteFollows
  <2>6. x.out = <<>>
    <3>1. e # <<>> /\ e[1] # SYNC
      <4>1. e = <<>> => g[1] = b
        BY <1>1
      <4>2. e # <<>>
        BY <1>6, <4>1
      <4> QED
        BY <4>2, OneMore
    <3>2. ~ OddRun(z)
      BY <1>0, <3>1, EvenBehind DEF z
    <3>3. OddRun(Append(z, SYNC))
      BY <1>0, <1>1, <3>2, OddRunGrows
    <3> QED
      BY <2>5, <3>3 DEF Follows
  <2>7. q.dec = x /\ q.done = p.done
    <3>1. p.done \o <<>> = p.done
      BY <1>2, ConcatEmptySeq
    <3> QED
      BY <2>6, <3>1 DEF Feed
  <2> HIDE DEF q, x
  <2>8. Follows(PushByte(x, SYNC), s \o Stuff(g))
    BY <1>0, <2>1, <2>5, PushByteFollows
  <2>9. PushByte(x, SYNC).out = Yield(e, b)
    BY <1>4, <2>8
  <2> QED
    BY <2>4, <2>7, <2>9 DEF Feed, p
<1> QED
  BY <1>5, <1>6

\* The first bytes of another sequence.
Starts(e, g) == Len(e) <= Len(g) /\ \A i \in 1 .. Len(e) : e[i] = g[i]

\* The fields of a frame yield nothing before its checksum.
LEMMA FieldsYieldNothing ==
  ASSUME NEW d, NEW s, Follows(d, s), OddRun(s), NEW data, Framed(data)
  PROVE  Push(d, Stuff(Fields(data))).done = <<>>
<1> DEFINE g == Fields(data)
           Quiet(e) == Starts(e, g) => Push(d, Stuff(e)).done = <<>>
           S == {e \in Seq(Byte) : Quiet(e)}
<1>1. /\ g \in Seq(Byte) /\ Len(g) = Len(data) + 2 /\ Len(data) \in Nat \ {0}
      /\ g[1] = ADDR_TO_HOST /\ g[2] = Len(data)
  BY FieldsAre DEF Framed
<1> HIDE DEF g
<1>2. <<>> \in S
  <2>1. Settled(d)
    BY DEF Follows
  <2>2. Push(d, Stuff(<<>>)).done = <<>>
    BY <2>1, StuffAppend, PushAppend DEF Unfed
  <2> QED
    BY <2>2, EmptySeq
<1>3. ASSUME NEW e \in S, NEW b \in Byte PROVE Append(e, b) \in S
  <2>1. e \in Seq(Byte) /\ Append(e, b) \in Seq(Byte)
    BY AppendIs
  <2> SUFFICES ASSUME Starts(Append(e, b), g) PROVE Push(d, Stuff(Append(e, b))).done = <<>>
    BY <2>1
  <2>2. /\ Len(Append(e, b)) = Len(e) + 1 /\ Len(e) \in Nat
        /\ \A i \in 1 .. Len(e) : Append(e, b)[i] = e[i]
    BY <2>1
  <2>3. /\ Len(e) + 1 <= Len(data) + 2
        /\ \A i \in 1 .. Len(e) + 1 : Append(e, b)[i] = g[i]
    BY <1>1, <2>2 DEF Starts
  <2>4. Starts(e, g)
    <3>1. Len(e) <= Len(g)
      BY <1>1, <2>2, <2>3
    <3>2. \A i \in 1 .. Len(e) : e[i] = g[i]
      BY <2>2, <2>3
    <3> QED
      BY <3>1, <3>2 DEF Starts
  <2>5. Push(d, Stuff(e)).done = <<>>
    BY <2>4
  <2>6. Append(e, b)[1] # SYNC
    <3>1. 1 \in 1 .. Len(e) + 1
      BY <2>2
    <3> QED
      BY <1>1, <2>3, <3>1 DEF ADDR_TO_HOST, SYNC
  <2>7. Yield(e, b) = <<>>
    <3> SUFFICES ASSUME e # <<>>, StateOf(e) = "WaitChecksum" PROVE FALSE
      BY DEF Yield
    <3>1. Len(e) \in Nat \ {0} /\ (Len(e) >= 2 => e[2] \in Byte)
      BY <2>1, OneMore
    <3>2. Counted(e[2], Len(e))
      BY <3>1, ByteFacts DEF Counted
    <3>3. Stated(StateOf(e), e[1], e[2], Len(e))
      BY <3>2, StateIs, Zenon DEF StateOf
    <3>4. Len(e) >= 2 /\ Len(e) = 2 + e[2]
      BY <3>3 DEF Stated
    <3>5. e[2] = Len(data)
      <4>1. 2 \in 1 .. Len(e) + 1 /\ 2 \in 1 .. Len(e)
        BY <2>2, <3>4
      <4> QED
        BY <1>1, <2>2, <2>3, <4>1
    <3>6. PICK m \in Nat : m = Len(data)
      BY <1>1
    <3>7. Len(e) = 2 + m /\ Len(e) + 1 <= m + 2
      BY <2>3, <3>4, <3>5, <3>6
    <3> QED
      BY <3>6, <3>7
  <2>8. Push(d, Stuff(Append(e, b))).done = <<>> \o <<>>
    BY <2>1, <2>5, <2>6, <2>7, StuffedYields
  <2> QED
    BY <2>8
<1>4. S \in SUBSET Seq(Byte)
  OBVIOUS
<1>5. Starts(g, g)
  BY <1>1 DEF Starts
<1> HIDE DEF S
<1>6. g \in S
  BY <1>1, <1>2, <1>3, <1>4, ByteInduction
<1> QED
  BY <1>5, <1>6 DEF S, g
\* Between frames the decoder has heard s: the encoding of data, cut in two
\* anywhere before its end, yields nothing in the first part and data in the
\* last, and it always ends in whole pairs.
LEMMA EndsEven ==
  ASSUME NEW s \in Seq(Byte), NEW data, Framed(data)
  PROVE  Encode(ADDR_TO_HOST, data) \in Seq(Byte) /\ ~ OddRun(s \o Encode(ADDR_TO_HOST, data))
<1> DEFINE F == Append(Fields(data), SumByte(data))
           w == Append(s, SYNC)
<1>1. Encode(ADDR_TO_HOST, data) = <<SYNC>> \o Stuff(F) /\ F \in Seq(Byte) /\ F # <<>> /\ F[1] # SYNC
  BY EncodeIs
<1> HIDE DEF F
<1>2. Stuff(F) \in Seq(Byte) /\ <<SYNC>> \in Seq(Byte) /\ SYNC \in Byte
  BY <1>1, StuffAppend, SyncIsAByte
<1>3. w = s \o <<SYNC>> /\ w \in Seq(Byte)
  BY <1>2, AppendIs
<1>4. s \o (<<SYNC>> \o Stuff(F)) = w \o Stuff(F)
  <2>1. (s \o <<SYNC>>) \o Stuff(F) = s \o (<<SYNC>> \o Stuff(F))
    BY <1>2, ConcatAssociative
  <2> QED
    BY <1>3, <2>1
<1>5. ~ OddRun(w \o Stuff(F))
  BY <1>1, <1>3, EvenBehind
<1>6. <<SYNC>> \o Stuff(F) \in Seq(Byte)
  BY <1>2, ConcatProperties
<1> QED
  BY <1>1, <1>4, <1>5, <1>6

LEMMA FrameYields ==
  ASSUME NEW d, NEW s, Follows(d, s), ~ OddRun(s), NEW data, Framed(data)
  PROVE  LET p == Push(d, Encode(ADDR_TO_HOST, data)) IN p.done = <<data>> /\ p.dec.out = <<data>>
<1> DEFINE e == Fields(data)
           b == SumByte(data)
           F == Append(e, b)
           x == PushByte(d, SYNC)
           w == Append(s, SYNC)
           enc == Encode(ADDR_TO_HOST, data)
<1>1. enc = <<SYNC>> \o Stuff(F) /\ F \in Seq(Byte) /\ F # <<>> /\ F[1] # SYNC
  BY EncodeIs
<1>2. e \in Seq(Byte) /\ b \in Byte /\ SYNC \in Byte
  BY FieldsAre, ChecksumType, SyncIsAByte
<1>3. Yield(e, b) = <<data>>
  BY <1>2, YieldsItsFrame
<1>4. Settled(d) /\ s \in Seq(Byte) /\ w \in Seq(Byte)
  BY <1>2, AppendIs DEF Follows
<1>5. Follows(x, w) /\ OddRun(w)
  BY <1>2, <1>4, PushByteFollows, OddRunGrows
<1>6. x.out = <<>>
  BY <1>5 DEF Follows
<1> HIDE DEF e, b, x, w, enc
<1>7. Push(x, Stuff(e)).done = <<>>
  BY <1>5, FieldsYieldNothing DEF e
<1>8. Push(x, Stuff(F)).done = <<data>>
  <2>1. Push(x, Stuff(F)).done = <<>> \o Yield(e, b)
    BY <1>1, <1>2, <1>5, <1>7, StuffedYields
  <2> QED
    BY <1>3, <2>1
<1> HIDE DEF F
<1>9. PICK y \in Seq(Byte) : y = <<SYNC>> /\ \E r \in Seq(Byte) : r = <<>> /\ y = Append(r, SYNC)
  <2>1. PICK r \in Seq(Byte) : r = <<>> /\ Len(r) = 0
    BY EmptySeq
  <2>2. <<SYNC>> = Append(r, SYNC) /\ <<SYNC>> \in Seq(Byte)
    BY <2>1, SyncIsAByte
  <2> QED
    BY <2>1, <2>2
<1>10. Push(d, y).dec = x /\ Push(d, y).done = <<>>
  <2>1. PICK r \in Seq(Byte) : r = <<>> /\ y = Append(r, SYNC)
    BY <1>9
  <2>2. Push(d, y) = Feed(Push(d, r), SYNC) /\ Push(d, r) = Unfed(d)
    BY <1>2, <1>4, <2>1, PushAppend
  <2>3. <<>> \o <<>> = <<>>
    OBVIOUS
  <2> QED
    BY <1>6, <2>2, <2>3 DEF Feed, Unfed, x
<1>11. Stuff(F) \in Seq(Byte)
  BY <1>1, <1>2, StuffAppend
<1>12. Push(d, y \o Stuff(F)) = [dec |-> Push(x, Stuff(F)).dec, done |-> <<>> \o Push(x, Stuff(F)).done]
  <2>1. PICK v \in Seq(Byte) : v = Stuff(F)
    BY <1>11
  <2>2. Push(d, y \o v) = [dec |-> Push(Push(d, y).dec, v).dec,
                           done |-> Push(d, y).done \o Push(Push(d, y).dec, v).done]
    BY <1>4, PushCut
  <2> QED
    BY <1>10, <2>1, <2>2
<1>13. Push(d, enc).done = <<data>>
  BY <1>1, <1>8, <1>9, <1>12
<1>14. Push(d, enc).dec = Push(x, Stuff(F)).dec
  BY <1>1, <1>9, <1>12
<1>15. Push(x, Stuff(F)).dec.out = <<data>>
  <2>1. Follows(Push(x, Stuff(F)).dec, w \o Stuff(F))
    BY <1>5, <1>11, PushFollows
  <2> QED
    <3>1. \E r \in Seq(Byte) : OddRun(r) /\ w \o Stuff(F) = r \o Stuff(F)
      BY <1>4, <1>5
    <3>2. \A u, v : Follows(u, v) /\ (\E r \in Seq(Byte) : OddRun(r) /\ v = r \o Stuff(F))
                     => u.out = <<data>>
      BY YieldsExactly DEF F, e, b
    <3> QED
      BY <2>1, <3>1, <3>2, Zenon
<1> QED
  BY <1>13, <1>14, <1>15 DEF enc

LEMMA OnlyTheLast ==
  ASSUME NEW T, NEW a \in Seq(T), NEW b \in Seq(T), NEW c \in T, a \o (b \o <<c>>) = <<c>>
  PROVE  b \o <<c>> = <<c>>
<1>1. <<c>> \in Seq(T) /\ Len(<<c>>) = 1
  OBVIOUS
<1>2. b \o <<c>> \in Seq(T) /\ Len(b \o <<c>>) = Len(b) + 1
  BY <1>1, ConcatProperties
<1>3. Len(a \o (b \o <<c>>)) = Len(a) + Len(b \o <<c>>)
  BY <1>2, ConcatProperties
<1>4. Len(a) = 0 /\ Len(a) \in Nat
  <2>1. PICK m, n \in Nat : m = Len(a) /\ n = Len(b)
    OBVIOUS
  <2>2. m + (n + 1) = 1
    BY <1>1, <1>2, <1>3, <2>1
  <2> QED
    BY <2>1, <2>2
<1>5. a = <<>>
  BY <1>4, EmptySeq
<1>6. a \o (b \o <<c>>) = b \o <<c>>
  BY <1>2, <1>5, ConcatEmptySeq
<1> QED
  BY <1>6

LEMMA LastPartYields ==
  ASSUME NEW d, NEW s, Follows(d, s), ~ OddRun(s), NEW data, Framed(data),
         NEW x \in Seq(Byte), NEW y \in Seq(Byte), y # <<>>, Encode(ADDR_TO_HOST, data) = x \o y
  PROVE  Push(Push(d, x).dec, y).done = <<data>>
<1> DEFINE p == Push(d, x)
           q == Push(p.dec, y)
           all == Push(d, x \o y)
<1>1. Settled(d)
  BY DEF Follows
<1>2. all.done = <<data>> /\ all.dec.out = <<data>>
  BY FrameYields
<1>3. p \in Fed /\ q \in Fed /\ all = [dec |-> q.dec, done |-> p.done \o q.done]
  BY <1>1, PushCut
<1> HIDE DEF p, q, all
<1>4. p.done \in Seq(Seq(Byte)) /\ Settled(p.dec) /\ data \in Seq(Byte)
  BY <1>3 DEF Fed, Framed
<1>5. PICK z \in Seq(Byte), b \in Byte : y = Append(z, b)
  BY SequenceEmptyOrAppend
<1> DEFINE o == Push(p.dec, z)
<1>6. o \in Fed /\ q = Feed(o, b)
  BY <1>4, <1>5, PushAppend DEF q
<1> HIDE DEF o
<1>7. q.dec.out = <<data>> /\ q.done = o.done \o <<data>> /\ o.done \in Seq(Seq(Byte))
  <2>1. q.dec.out = <<data>>
    BY <1>2, <1>3
  <2>2. q.dec = PushByte(o.dec, b) /\ q.done = o.done \o PushByte(o.dec, b).out
    BY <1>6 DEF Feed
  <2> QED
    BY <1>6, <2>1, <2>2 DEF Fed
<1>8. p.done \o (o.done \o <<data>>) = <<data>>
  BY <1>2, <1>3, <1>7
<1>9. o.done \o <<data>> = <<data>>
  BY <1>4, <1>7, <1>8, OnlyTheLast
<1> QED
  BY <1>7, <1>9 DEF p, q
(* Packets                                                                   *)

\* Bytes that one packet can carry, and the packets that carry them.
Loads == {z \in Seq(Byte) : Len(z) \in 1 .. 255}
Packets == {Packet(z) : z \in Loads}

\* A packet yields the bytes it carries; one cut short is ignored.
LEMMA PacketIs ==
  ASSUME NEW z \in Loads, NEW d
  PROVE  /\ PushNotification(d, Packet(z)) = Push(d, z)
         /\ PushNotification(d, Front(Packet(z))) = Unfed(d)
<1> DEFINE n == Len(z)
           raw == Packet(z)
           cut == Front(raw)
<1>1. z \in Seq(Byte) /\ n \in 1 .. 255 /\ n \in Byte /\ n % 256 = n
  <2>1. z \in Seq(Byte) /\ n \in 1 .. 255
    BY DEF Loads
  <2> HIDE DEF n
  <2>2. n \in Byte
    BY <2>1 DEF Byte
  <2>3. n % 256 = n
    BY <2>1
  <2> QED
    BY <2>1, <2>2, <2>3
<1>2. PICK h \in Seq(Byte) : h = <<n>> /\ Len(h) = 1 /\ h[1] = n
  <2> HIDE DEF n
  <2>1. <<n>> \in Seq(Byte) /\ Len(<<n>>) = 1 /\ <<n>>[1] = n
    BY <1>1
  <2> QED
    BY <2>1
<1>3. raw = h \o z
  BY <1>1, <1>2 DEF Packet
<1>4. /\ raw \in Seq(Byte) /\ Len(raw) = 1 + n /\ raw[1] = n
      /\ \A i \in 1 .. n : raw[i + 1] = z[i]
  <2>1. /\ h \o z \in Seq(Byte) /\ Len(h \o z) = Len(h) + n
        /\ \A i \in 1 .. Len(h) + n : (h \o z)[i] = IF i <= Len(h) THEN h[i] ELSE z[i - Len(h)]
    BY <1>1, ConcatProperties
  <2>2. 1 \in 1 .. Len(h) + n
    BY <1>1, <1>2
  <2>3. \A i \in 1 .. n : i + 1 \in 1 .. Len(h) + n /\ ~ (i + 1 <= Len(h)) /\ (i + 1) - Len(h) = i
    BY <1>1, <1>2
  <2> HIDE DEF n, raw
  <2> QED
    BY <1>2, <1>3, <2>1, <2>2, <2>3
<1> HIDE DEF raw, n
<1>5. SubSeq(raw, 2, n + 1) = z
  <2> DEFINE u == SubSeq(raw, 2, n + 1)
  <2>1. 2 \in Nat \ {0} /\ n + 1 \in Nat /\ n + 1 <= Len(raw) /\ 2 <= (n + 1) + 1
    BY <1>1, <1>4
  <2>2. u \in Seq(Byte) /\ Len(u) = ((n + 1) - 2) + 1 /\ \A i \in 1 .. ((n + 1) - 2) + 1 : u[i] = raw[i + 2 - 1]
    BY <1>4, <2>1, Slice, Zenon
  <2>3. ((n + 1) - 2) + 1 = n /\ \A i \in 1 .. n : i + 2 - 1 = i + 1
    BY <1>1
  <2> HIDE DEF u
  <2>4. Len(u) = Len(z) /\ \A i \in 1 .. Len(u) : u[i] = z[i]
    BY <1>4, <2>2, <2>3 DEF n
  <2>5. u = z
    BY <1>1, <2>2, <2>4, SeqEqual
  <2> QED
    BY <2>5 DEF u
<1>6. raw # <<>> /\ Head(raw) = n /\ ~ (n > Len(raw) - 1)
  BY <1>1, <1>4, EmptySeq
<1>7. PushNotification(d, raw) = Push(d, z)
  BY <1>5, <1>6 DEF PushNotification
<1>8. PushNotification(d, cut) = Unfed(d)
  <2>1. cut = SubSeq(raw, 1, n)
    <3>1. Len(raw) - 1 = n
      BY <1>1, <1>4
    <3> QED
      BY <3>1 DEF Front
  <2>2. n \in 0 .. Len(raw) /\ 1 \in 1 .. n
    BY <1>1, <1>4
  <2>3. cut \in Seq(Byte) /\ Len(cut) = n /\ cut[1] = raw[1]
    BY <1>4, <2>1, <2>2, Prefix
  <2> HIDE DEF cut
  <2>4. Head(cut) = n /\ n > Len(cut) - 1
    BY <1>1, <1>4, <2>3
  <2> QED
    BY <2>4 DEF PushNotification, Unfed
<1> QED
  BY <1>7, <1>8 DEF raw

\* The packets q carry what is left of the bytes enc behind the first m.
Cut(cut, q, enc, m) ==
  /\ cut \in [0 .. Len(q) -> Nat] /\ cut[0] = m /\ cut[Len(q)] = Len(enc)
  /\ \A i \in 1 .. Len(q) :
       /\ cut[i - 1] < cut[i] /\ cut[i] <= Len(enc) /\ cut[i] - cut[i - 1] <= 255
       /\ q[i] = Packet(SubSeq(enc, cut[i - 1] + 1, cut[i]))

Packed(q, enc, m) == m \in 0 .. Len(enc) /\ \E cut : Cut(cut, q, enc, m)

\* What lies between two cuts fits a packet.
LEMMA LoadIs ==
  ASSUME NEW enc \in Seq(Byte), NEW m \in Nat, NEW k \in Nat,
         m < k, k <= Len(enc), k - m <= 255
  PROVE  LET z == SubSeq(enc, m + 1, k) IN
         z \in Loads /\ Packet(z) \in Packets /\ SubSeq(enc, 1, k) = SubSeq(enc, 1, m) \o z
<1> DEFINE z == SubSeq(enc, m + 1, k)
<1>1. m + 1 \in Nat \ {0} /\ m + 1 <= k + 1
  OBVIOUS
<1>2. z \in Seq(Byte) /\ Len(z) = (k - (m + 1)) + 1
  BY <1>1, Slice, Zenon
<1> HIDE DEF z
<1>3. Len(z) \in 1 .. 255
  BY <1>2
<1>4. z \in Loads /\ Packet(z) \in Packets
  BY <1>2, <1>3 DEF Loads, Packets
<1>5. 1 \in 1 .. Len(enc) + 1 /\ m \in 1 - 1 .. Len(enc) /\ k \in m .. Len(enc)
  OBVIOUS
<1>6. SubSeq(enc, 1, m) \o z = SubSeq(enc, 1, k)
  BY <1>5, ConcatAdjacentSubSeq DEF z
<1> QED
  BY <1>4, <1>6 DEF z

\* The next packet carries the next bytes.
LEMMA NextPacket ==
  ASSUME NEW enc \in Seq(Byte), NEW m, NEW q \in Seq(Packets), q # <<>>, Packed(q, enc, m)
  PROVE  \E k, z : /\ z \in Loads /\ Head(q) = Packet(z)
                   /\ SubSeq(enc, 1, k) = SubSeq(enc, 1, m) \o z
                   /\ Packed(Tail(q), enc, k) /\ (Tail(q) = <<>> => k = Len(enc))
<1>1. PICK cut : Cut(cut, q, enc, m)
  BY DEF Packed
<1>2. Len(q) \in Nat \ {0} /\ Tail(q) \in Seq(Packets) /\ Len(Tail(q)) = Len(q) - 1
      /\ \A i \in 1 .. Len(q) - 1 : Tail(q)[i] = q[i + 1]
  BY HeadTailProperties, EmptySeq
<1> DEFINE n == Len(q)
           k == cut[1]
           z == SubSeq(enc, m + 1, k)
           rest == [i \in 0 .. n - 1 |-> cut[i + 1]]
<1>3. /\ cut \in [0 .. n -> Nat] /\ cut[0] = m /\ cut[n] = Len(enc)
      /\ \A i \in 1 .. n :
           /\ cut[i - 1] < cut[i] /\ cut[i] <= Len(enc) /\ cut[i] - cut[i - 1] <= 255
           /\ q[i] = Packet(SubSeq(enc, cut[i - 1] + 1, cut[i]))
  BY <1>1 DEF Cut
<1>4. m \in Nat /\ k \in Nat /\ m < k /\ k <= Len(enc) /\ k - m <= 255 /\ q[1] = Packet(z)
  <2>1. 1 \in 1 .. n /\ 1 - 1 = 0 /\ 0 \in 0 .. n /\ 1 \in 0 .. n
    BY <1>2
  <2> QED
    BY <1>3, <2>1
<1>5. z \in Loads /\ SubSeq(enc, 1, k) = SubSeq(enc, 1, m) \o z
  BY <1>4, LoadIs
<1>6. Head(q) = Packet(z)
  BY <1>2, <1>4
<1>7. Cut(rest, Tail(q), enc, k)
  <2>1. \A i \in 0 .. n - 1 : rest[i] = cut[i + 1] /\ i + 1 \in 0 .. n
    BY <1>2
  <2>2. rest \in [0 .. n - 1 -> Nat] /\ rest[0] = k /\ rest[n - 1] = Len(enc)
    BY <1>2, <1>3, <2>1
  <2> HIDE DEF rest
  <2>3. ASSUME NEW i \in 1 .. n - 1
        PROVE  /\ rest[i - 1] < rest[i] /\ rest[i] <= Len(enc) /\ rest[i] - rest[i - 1] <= 255
               /\ Tail(q)[i] = Packet(SubSeq(enc, rest[i - 1] + 1, rest[i]))
    <3>1. i + 1 \in 1 .. n /\ (i + 1) - 1 = i /\ i - 1 \in 0 .. n - 1 /\ (i - 1) + 1 = i /\ i \in 0 .. n - 1
      BY <1>2
    <3>2. rest[i - 1] = cut[i] /\ rest[i] = cut[i + 1] /\ Tail(q)[i] = q[i + 1]
      BY <1>2, <2>1, <3>1
    <3> QED
      BY <1>3, <3>1, <3>2
  <2> QED
    BY <1>2, <2>2, <2>3 DEF Cut
<1>8. k \in 0 .. Len(enc)
  BY <1>4
<1>9. Tail(q) = <<>> => k = Len(enc)
  <2>1. Tail(q) = <<>> => n = 1
    <3>1. Tail(q) = <<>> => Len(Tail(q)) = 0
      BY EmptySeq
    <3> QED
      BY <1>2, <3>1
  <2> QED
    BY <1>3, <2>1
<1> HIDE DEF z, k, rest, n
<1> QED
  BY <1>5, <1>6, <1>7, <1>8, <1>9 DEF Packed

\* How many chunks of b bytes cover n, and where each of them starts.
LEMMA Multiples ==
  ASSUME NEW b \in Nat \ {0}, NEW n \in Nat \ {0}
  PROVE  LET c == (n + b - 1) \div b IN
         /\ c \in Nat \ {0} /\ (c - 1) * b < n /\ n <= c * b
         /\ \A i \in 1 .. c : (i - 1) * b \in Nat /\ i * b = (i - 1) * b + b /\ (i - 1) * b <= (c - 1) * b
<1> DEFINE x == n + b - 1
           c == x \div b
<1>1. x \in Nat
  OBVIOUS
<1> HIDE DEF x
<1>2. c \in Nat /\ c * b <= x /\ x < c * b + b
  BY <1>1
<1> HIDE DEF c
<1>3. n <= c * b
  <2>1. PICK y \in Nat : y = c * b
    BY <1>2
  <2>2. n + b - 1 < y + b
    BY <1>2, <2>1 DEF x
  <2>3. n <= y
    BY <2>2
  <2> QED
    BY <2>1, <2>3
<1>4. c # 0
  BY <1>3
<1>5. \A i \in 1 .. c : (i - 1) * b \in Nat /\ i * b = (i - 1) * b + b
  BY <1>2
<1>6. (c - 1) * b < n
  <2>1. PICK y \in Nat : y = (c - 1) * b
    BY <1>2, <1>4
  <2>2. c * b = y + b
    BY <1>2, <1>4, <1>5, <2>1
  <2>3. y + b <= n + b - 1
    BY <1>2, <2>2 DEF x
  <2>4. y < n
    BY <2>3
  <2> QED
    BY <2>1, <2>4
<1>7. \A i \in 1 .. c : (i - 1) * b <= (c - 1) * b
  <2> TAKE i \in 1 .. c
  <2>1. i - 1 \in Nat /\ c - 1 \in Nat /\ i - 1 <= c - 1
    BY <1>2
  <2>2. \A k, l \in Nat : k <= l => k * b <= l * b
    OBVIOUS
  <2> QED
    BY <2>1, <2>2
<1> QED
  BY <1>2, <1>3, <1>4, <1>5, <1>6, <1>7 DEF c, x

\* A frame cut by chunk, whole or for a narrow channel.
LEMMA ChunksArePacked ==
  ASSUME NEW enc \in Seq(Byte), enc # <<>>, NEW mtu \in Nat, mtu >= 21 => Len(enc) <= 255
  PROVE  LET q == Chunks(enc, mtu) IN q \in Seq(Packets) /\ q # <<>> /\ Packed(q, enc, 0)
<1> DEFINE n == Len(enc)
           b == IF mtu > 1 THEN mtu - 1 ELSE 1
           c == (n + b - 1) \div b
           End(i) == IF i * b < n THEN i * b ELSE n
           q == Chunks(enc, mtu)
<1>0. n \in Nat \ {0} /\ b \in Nat \ {0} /\ 0 \in 0 .. n
  BY EmptySeq
<1>1. CASE mtu >= 21 \/ n <= 16
  <2>1. q = <<Packet(enc)>>
    BY <1>1 DEF Chunks
  <2>2. n <= 255
    BY <1>0, <1>1
  <2> DEFINE cut == [i \in 0 .. 1 |-> IF i = 0 THEN 0 ELSE n]
  <2>3. SubSeq(enc, 1, n) = enc
    BY SubSeqFull
  <2>4. Packet(enc) \in Packets
    <3>1. n \in 1 .. 255
      <4> HIDE DEF n, b, c, q, cut
      <4> QED
        BY <1>0, <2>2
    <3>2. enc \in Loads
      BY <3>1 DEF Loads
    <3> HIDE DEF n, b, c, q
    <3> QED
      BY <3>2, Zenon DEF Packets
  <2>5. q \in Seq(Packets) /\ Len(q) = 1 /\ q[1] = Packet(enc)
    BY <2>1, <2>4
  <2>6. cut \in [0 .. 1 -> Nat] /\ cut[0] = 0 /\ cut[1] = n
    BY <1>0
  <2> HIDE DEF q, cut, n, b, c
  <2>7. \A i \in 1 .. 1 : /\ cut[i - 1] < cut[i] /\ cut[i] <= n /\ cut[i] - cut[i - 1] <= 255
                          /\ q[i] = Packet(SubSeq(enc, cut[i - 1] + 1, cut[i]))
    <3> TAKE i \in 1 .. 1
    <3>1. i = 1 /\ cut[i - 1] = 0 /\ cut[i] = n /\ 0 + 1 = 1
      BY <2>6
    <3>2. q[i] = Packet(SubSeq(enc, 0 + 1, n))
      BY <2>3, <2>5, <3>1
    <3> QED
      BY <1>0, <2>2, <3>1, <3>2
  <2>8. Cut(cut, q, enc, 0)
    BY <2>5, <2>6, <2>7 DEF Cut, n
  <2>9. q # <<>>
    <3>1. Len(<<>>) = 0 /\ 0 # 1
      BY EmptySeq
    <3> QED
      BY <2>5, <3>1
  <2> QED
    BY <1>0, <2>5, <2>8, <2>9 DEF Packed, q, n
<1>2. CASE ~ (mtu >= 21 \/ n <= 16)
  <2> DEFINE f == [i \in 1 .. c |-> Packet(SubSeq(enc, (i - 1) * b + 1, End(i)))]
  <2>1. q = f
    BY <1>2 DEF Chunks
  <2>2. b <= 19
    BY <1>2
  <2>3. /\ c \in Nat \ {0} /\ (c - 1) * b < n /\ n <= c * b
        /\ \A i \in 1 .. c : (i - 1) * b \in Nat /\ i * b = (i - 1) * b + b /\ (i - 1) * b <= (c - 1) * b
    BY <1>0, Multiples
  <2> DEFINE cut == [i \in 0 .. c |-> End(i)]
  <2> HIDE DEF n, b, c, q
  <2>4. \A i \in 1 .. c : End(i - 1) = (i - 1) * b
    <3> TAKE i \in 1 .. c
    <3>1. (i - 1) * b < n
      <4>1. PICK x \in Nat : x = (i - 1) * b
        BY <2>3
      <4>2. c \in 1 .. c /\ (c - 1) * b \in Nat
        BY <2>3
      <4>3. PICK y \in Nat : y = (c - 1) * b
        BY <4>2
      <4>4. x <= y /\ y < n
        BY <2>3, <4>1, <4>3
      <4>5. x < n
        BY <1>0, <4>4
      <4> QED
        BY <4>1, <4>5
    <3> QED
      BY <3>1
  <2>5. ASSUME NEW i \in 1 .. c
        PROVE  /\ End(i - 1) \in Nat /\ End(i) \in Nat /\ End(i - 1) < End(i) /\ End(i) <= n
               /\ End(i) - End(i - 1) <= 255
    <3>1. PICK x \in Nat : x = (i - 1) * b
      BY <2>3
    <3>2. i * b = x + b
      BY <2>3, <3>1
    <3>3. x < n
      <4>1. c \in 1 .. c /\ (c - 1) * b \in Nat
        BY <2>3
      <4>2. PICK y \in Nat : y = (c - 1) * b
        BY <4>1
      <4>3. x <= y /\ y < n
        BY <2>3, <3>1, <4>2
      <4> QED
        BY <1>0, <4>3
    <3>4. End(i - 1) = x /\ End(i) = IF x + b < n THEN x + b ELSE n
      BY <2>4, <3>1, <3>2
    <3> HIDE DEF End
    <3> QED
      BY <1>0, <2>2, <3>3, <3>4
  <2>6. End(0) = 0 /\ End(c) = n
    <3>1. 0 * b = 0
      BY <1>0
    <3>2. PICK y \in Nat : y = c * b
      BY <1>0, <2>3
    <3>3. ~ (y < n)
      BY <1>0, <2>3, <3>2
    <3> QED
      BY <1>0, <3>1, <3>2, <3>3
  <2>7. \A i \in 1 .. c : f[i] = Packet(SubSeq(enc, End(i - 1) + 1, End(i)))
    BY <2>4
  <2>8. \A i \in 0 .. c : cut[i] = End(i) /\ End(i) \in Nat
    <3> TAKE i \in 0 .. c
    <3>1. cut[i] = End(i)
      OBVIOUS
    <3>2. i = 0 \/ i \in 1 .. c
      BY <2>3
    <3> HIDE DEF End, cut
    <3> QED
      BY <2>5, <2>6, <3>1, <3>2
  <2>9. cut \in [0 .. c -> Nat]
    <3> HIDE DEF End
    <3> QED
      BY <2>8
  <2>10. \A i \in 1 .. c : f[i] \in Packets
    <3> TAKE i \in 1 .. c
    <3>1. /\ End(i - 1) \in Nat /\ End(i) \in Nat /\ End(i - 1) < End(i) /\ End(i) <= Len(enc)
          /\ End(i) - End(i - 1) <= 255
      BY <2>5 DEF n
    <3>2. f[i] = Packet(SubSeq(enc, End(i - 1) + 1, End(i)))
      BY <2>7
    <3> HIDE DEF End, f
    <3> QED
      BY <3>1, <3>2, LoadIs
  <2>11. q \in Seq(Packets) /\ Len(q) = c /\ \A i \in 1 .. c : q[i] = f[i]
    <3>1. f \in [1 .. c -> Packets]
      <4>1. f = [i \in 1 .. c |-> f[i]]
        OBVIOUS
      <4> HIDE DEF f
      <4> QED
        BY <2>10, <4>1
    <3> HIDE DEF f
    <3>2. f \in Seq(Packets) /\ Len(f) = c
      BY <2>3, <3>1, SeqDef, LenProperties
    <3> QED
      BY <2>1, <3>2
  <2> HIDE DEF f, cut, End
  <2>12. cut[0] = 0 /\ cut[c] = n
    <3>1. 0 \in 0 .. c /\ c \in 0 .. c
      BY <2>3
    <3> QED
      BY <2>6, <2>8, <3>1
  <2>13. ASSUME NEW i \in 1 .. c
         PROVE  /\ cut[i - 1] < cut[i] /\ cut[i] <= n /\ cut[i] - cut[i - 1] <= 255
                /\ q[i] = Packet(SubSeq(enc, cut[i - 1] + 1, cut[i]))
    <3>1. i \in 0 .. c /\ i - 1 \in 0 .. c
      BY <2>3
    <3>2. cut[i - 1] = End(i - 1) /\ cut[i] = End(i)
      BY <2>8, <3>1
    <3> QED
      BY <2>5, <2>7, <2>11, <3>2
  <2>14. Cut(cut, q, enc, 0)
    BY <2>9, <2>11, <2>12, <2>13 DEF Cut, n
  <2>15. q # <<>>
    BY <2>3, <2>11, EmptySeq
  <2> QED
    BY <1>0, <2>11, <2>14, <2>15 DEF Packed, q, n
<1> QED
  BY <1>1, <1>2
-----------------------------------------------------------------------------
(* Notifications: what the decoder was handed, whatever the air did to it, *)
(* and how far the reply on its way has come.                              *)

Wired == Encode(ADDR_TO_HOST, current)

\* Nothing was ever disturbed, or the reply before the current one was not.
Undisturbed == faults = 0 \/ intact >= 1

\* The reply on its way: the decoder stands where the bytes delivered so far,
\* a beginning of the encoded reply, have taken it, and the queue is the rest.
OnItsWay ==
  \E d, s, m : /\ Follows(d, s) /\ (Undisturbed => ~ OddRun(s))
               /\ Packed(queue, Wired, m)
               /\ decoder = Push(d, SubSeq(Wired, 1, m)).dec

Tallies ==
  /\ queue \in Seq(Packets) /\ sent \in Nat /\ faults \in Nat
  /\ intact \in Int /\ intact >= 0 - 1
  /\ faults = 0 \/ queue = <<>> => intact >= 0
  /\ queue # <<>> => sent > 0
  /\ sent > 0 => current \in Replies

\* The inductive invariant.
Steady ==
  /\ Tallies
  /\ \E s : Follows(decoder, s) /\ (queue = <<>> /\ Undisturbed => ~ OddRun(s))
  /\ queue # <<>> /\ intact >= 0 => OnItsWay
  /\ Arrived /\ (faults = 0 \/ intact >= 2) => got = <<current>>

LEMMA RepliesAreFramed == \A data \in Replies : Framed(data)
  BY RepliesAssumption DEF Framed

LEMMA LoadsAreBytes == \A z \in Loads : z \in Seq(Byte) /\ z # <<>>
<1> TAKE z \in Loads
<1>1. z \in Seq(Byte) /\ Len(z) \in 1 .. 255
  BY DEF Loads
<1>2. ASSUME z = <<>> PROVE FALSE
  <2>1. Len(z) = 0
    BY <1>2, EmptySeq
  <2> QED
    BY <1>1, <2>1
<1> QED
  BY <1>1, <1>2

LEMMA SteadyAtFirst == Init => Steady
<1> SUFFICES ASSUME Init PROVE Steady
  OBVIOUS
<1>1. Follows(decoder, <<>>)
  BY NothingHeard DEF Init
<1>2. ~ OddRun(<<>>)
  BY EvenBehind, EmptySeq DEF OddRun, Opens
<1>3. Tallies
  BY EmptySeq DEF Tallies, Init
<1> QED
  BY <1>1, <1>2, <1>3 DEF Steady, Arrived, Init

\* A reply that enters the empty air.
LEMMA ReplySteady ==
  ASSUME Steady, NEW data \in Replies, Reply(data)
  PROVE  Steady'
<1> DEFINE enc == Encode(ADDR_TO_HOST, data)
<1>1. Framed(data)
  BY RepliesAreFramed
<1>2. PICK s : Follows(decoder, s) /\ (Undisturbed => ~ OddRun(s))
  BY DEF Steady, Reply
<1>3. enc \in Seq(Byte)
  BY <1>1, <1>2, EndsEven DEF Follows
<1>4. enc # <<>>
  BY <1>1, EncodeIs
<1>5. MtuSmall \in Nat /\ (MtuSmall >= 21 => Len(enc) <= 255)
  BY RepliesAssumption, RadioAssumption
<1> HIDE DEF enc
<1>6. LET q == Chunks(enc, MtuSmall) IN q \in Seq(Packets) /\ q # <<>> /\ Packed(q, enc, 0)
  BY <1>3, <1>4, <1>5, ChunksArePacked
<1>7. queue' \in Seq(Packets) /\ queue' # <<>> /\ Packed(queue', enc, 0)
  BY <1>6 DEF Reply, enc
<1>8. Wired' = enc
  BY DEF Wired, enc, Reply
<1>9. Tallies'
  BY <1>7 DEF Reply, Steady, Tallies
<1>10. decoder' = Push(decoder, SubSeq(enc, 1, 0)).dec
  <2>1. SubSeq(enc, 1, 0) = <<>>
    BY <1>3, EmptySeq
  <2>2. Push(decoder, <<>>) = Unfed(decoder)
    BY <1>2, PushAppend DEF Follows
  <2>3. decoder' = decoder
    BY DEF Reply
  <2>4. Unfed(decoder).dec = decoder
    BY DEF Unfed
  <2> QED
    BY <2>1, <2>2, <2>3, <2>4, Zenon
<1>11. Undisturbed' <=> Undisturbed
  BY DEF Undisturbed, Reply
<1>12. OnItsWay'
  BY <1>2, <1>7, <1>8, <1>10, <1>11 DEF OnItsWay, Reply
<1>13. \E t : Follows(decoder', t)
  BY <1>2 DEF Reply
<1> QED
  BY <1>7, <1>9, <1>12, <1>13 DEF Steady, Arrived

\* A notification that arrives whole; the last one completes the reply.
LEMMA DeliverSteady ==
  ASSUME Steady, Deliver
  PROVE  Steady'
<1>1. queue \in Seq(Packets) /\ queue # <<>> /\ current \in Replies
  BY DEF Steady, Tallies, Deliver
<1>2. Framed(current)
  BY <1>1, RepliesAreFramed
<1>3. PICK z \in Loads : Head(queue) = Packet(z)
  <2>1. Head(queue) \in Packets
    BY <1>1
  <2> QED
    BY <2>1 DEF Packets
<1>4. z \in Seq(Byte) /\ z # <<>>
  BY LoadsAreBytes
<1>5. decoder' = Push(decoder, z).dec /\ got' = Push(decoder, z).done
  BY <1>3, PacketIs DEF Deliver, Arrive
<1>6. UNCHANGED <<current, sent, faults, Wired>>
  BY DEF Deliver, Wired
<1>7. queue' = Tail(queue) /\ queue' \in Seq(Packets) /\ (Len(queue) = 1 <=> queue' = <<>>)
  <2>1. PICK q \in Seq(Packets) : q = Tail(queue) /\ Len(q) = Len(queue) - 1
    BY <1>1, HeadTailProperties, Zenon
  <2>2. Len(queue) \in Nat /\ (Len(q) = 0 <=> q = <<>>)
    BY <1>1, EmptySeq
  <2>3. queue' = q
    BY <2>1 DEF Deliver
  <2> QED
    BY <2>1, <2>2, <2>3
<1>8. intact' = IF queue' = <<>> THEN intact + 1 ELSE intact
  BY <1>7 DEF Deliver
<1>9. Tallies'
  BY <1>6, <1>7, <1>8 DEF Steady, Tallies
<1>10. PICK s : Follows(decoder, s)
  BY DEF Steady
<1>11. Follows(decoder', s \o z)
  BY <1>4, <1>5, <1>10, PushFollows
<1>12. CASE intact < 0
  <2>1. faults # 0 /\ intact = 0 - 1
    BY <1>12 DEF Steady, Tallies
  <2>2. IF queue' = <<>> THEN intact' = 0 ELSE intact' = 0 - 1
    BY <1>8, <2>1
  <2>3. faults' # 0 /\ ~ (intact' >= 1) /\ ~ (intact' >= 2) /\ (queue' # <<>> => ~ (intact' >= 0))
    BY <1>6, <2>1, <2>2
  <2> QED
    BY <1>9, <1>11, <2>3 DEF Steady, Undisturbed
<1>13. CASE intact >= 0
  <2>1. OnItsWay
    BY <1>1, <1>13 DEF Steady
  <2>2. PICK d, j, m : /\ Follows(d, j) /\ (Undisturbed => ~ OddRun(j)) /\ Packed(queue, Wired, m)
                       /\ decoder = Push(d, SubSeq(Wired, 1, m)).dec
    BY <2>1 DEF OnItsWay
  <2>3. j \in Seq(Byte) /\ Settled(d)
    BY <2>2 DEF Follows
  <2>4. Wired \in Seq(Byte) /\ ~ OddRun(j \o Wired)
    BY <1>2, <2>3, EndsEven DEF Wired
  <2>5. PICK k, y : /\ y \in Loads /\ Head(queue) = Packet(y)
                    /\ SubSeq(Wired, 1, k) = SubSeq(Wired, 1, m) \o y
                    /\ Packed(queue', Wired, k) /\ (queue' = <<>> => k = Len(Wired))
    BY <1>1, <1>7, <2>2, <2>4, NextPacket
  <2>6. y \in Seq(Byte) /\ y # <<>>
    BY <2>5, LoadsAreBytes
  <2>7. PushNotification(decoder, Head(queue)) = Push(decoder, y)
    BY <2>5, PacketIs
  <2>8. decoder' = Push(decoder, y).dec /\ got' = Push(decoder, y).done
    BY <2>7 DEF Deliver, Arrive
  <2>9. PICK x \in Seq(Byte) : x = SubSeq(Wired, 1, m)
    <3>1. m \in 0 .. Len(Wired)
      BY <2>2 DEF Packed
    <3>2. SubSeq(Wired, 1, m) \in Seq(Byte)
      BY <2>4, <3>1
    <3> QED
      BY <3>2
  <2>10. decoder = Push(d, x).dec
    BY <2>2, <2>9
  <2>11. decoder' = Push(d, x \o y).dec
    <3>1. Push(d, x \o y) = [dec  |-> Push(Push(d, x).dec, y).dec,
                             done |-> Push(d, x).done \o Push(Push(d, x).dec, y).done]
      BY <2>3, <2>6, PushCut
    <3> QED
      BY <2>8, <2>10, <3>1
  <2>12. CASE queue' # <<>>
    <3>1. intact' = intact
      BY <1>8, <2>12
    <3>2. Undisturbed' <=> Undisturbed
      BY <1>6, <3>1 DEF Undisturbed
    <3>3. decoder' = Push(d, SubSeq(Wired', 1, k)).dec /\ Packed(queue', Wired', k)
      BY <1>6, <2>5, <2>9, <2>11
    <3>4. OnItsWay'
      BY <2>2, <3>2, <3>3 DEF OnItsWay
    <3> QED
      BY <1>9, <1>11, <2>12, <3>4 DEF Steady, Arrived
  <2>13. CASE queue' = <<>>
    <3>1. intact' = intact + 1
      BY <1>8, <2>13
    <3>2. Wired = x \o y
      <4>1. SubSeq(Wired, 1, Len(Wired)) = Wired
        BY <2>4, SubSeqFull
      <4> QED
        BY <2>5, <2>9, <2>13, <4>1
    <3>3. Follows(decoder', j \o Wired)
      BY <2>2, <2>4, <2>11, <3>2, PushFollows
    <3>4. ASSUME faults' = 0 \/ intact' >= 2 PROVE got' = <<current'>>
      <4>1. faults = 0 \/ intact >= 1
        <5>1. intact \in Int
          BY DEF Steady, Tallies
        <5> QED
          BY <1>6, <3>1, <3>4, <5>1
      <4>2. ~ OddRun(j)
        BY <2>2, <4>1 DEF Undisturbed
      <4>3. Push(Push(d, x).dec, y).done = <<current>>
        BY <1>2, <2>2, <2>6, <3>2, <4>2, LastPartYields DEF Wired
      <4> QED
        BY <1>6, <2>8, <2>10, <4>3
    <3> QED
      BY <1>9, <2>4, <2>13, <3>3, <3>4 DEF Steady
  <2> QED
    BY <2>12, <2>13
<1>14. intact \in Int
  BY DEF Steady, Tallies
<1> QED
  BY <1>12, <1>13, <1>14

\* What any disturbance leaves: no reply is owed until one has arrived whole.
LEMMA DisturbedSteady ==
  ASSUME Steady, Fault, queue' \in Seq(Packets), queue' # <<>> => queue # <<>>, Hit(queue'),
         UNCHANGED <<current, sent>>, \E s : Follows(decoder', s)
  PROVE  Steady'
<1>1. intact' = IF queue' = <<>> THEN 0 ELSE 0 - 1
  BY DEF Hit
<1>2. faults' \in Nat /\ faults' # 0
  BY DEF Fault, Steady, Tallies
<1>3. ~ (intact' >= 1) /\ ~ (intact' >= 2) /\ (queue' # <<>> => ~ (intact' >= 0))
  BY <1>1
<1>4. Tallies'
  BY <1>1, <1>2 DEF Steady, Tallies
<1> QED
  BY <1>2, <1>3, <1>4 DEF Steady, Undisturbed

LEMMA LoseSteady ==
  ASSUME Steady, Lose
  PROVE  Steady'
<1>1. queue \in Seq(Packets) /\ queue # <<>>
  BY DEF Steady, Tallies, Lose
<1>2. queue' \in Seq(Packets)
  BY <1>1 DEF Lose
<1>3. \E s : Follows(decoder', s)
  BY DEF Steady, Lose
<1> QED
  BY <1>1, <1>2, <1>3, DisturbedSteady DEF Lose

LEMMA CutShortSteady ==
  ASSUME Steady, CutShort
  PROVE  Steady'
<1>1. queue \in Seq(Packets) /\ queue # <<>>
  BY DEF Steady, Tallies, CutShort
<1>2. queue' \in Seq(Packets)
  BY <1>1 DEF CutShort
<1>3. PICK z \in Loads : Head(queue) = Packet(z)
  <2>1. Head(queue) \in Packets
    BY <1>1
  <2> QED
    BY <2>1 DEF Packets
<1>4. decoder' = decoder
  BY <1>3, PacketIs DEF CutShort, Arrive, Unfed
<1>5. \E s : Follows(decoder', s)
  BY <1>4 DEF Steady
<1> QED
  BY <1>1, <1>2, <1>5, DisturbedSteady DEF CutShort

LEMMA StraySteady ==
  ASSUME Steady, NEW b \in Noise, Stray(b)
  PROVE  Steady'
<1>1. queue' \in Seq(Packets) /\ queue' = queue
  BY DEF Steady, Tallies, Stray
<1>2. <<b>> \in Seq(Byte) /\ Len(<<b>>) = 1
  BY RadioAssumption
<1>3. PICK z \in Loads : z = <<b>> /\ z \in Seq(Byte)
  <2>1. PICK z \in Seq(Byte) : z = <<b>> /\ Len(z) = 1
    BY <1>2
  <2>2. z \in Loads
    BY <2>1 DEF Loads
  <2> QED
    BY <2>1, <2>2
<1>4. decoder' = Push(decoder, z).dec
  BY <1>3, PacketIs DEF Stray, Arrive
<1>5. PICK s : Follows(decoder, s)
  BY DEF Steady
<1>6. Follows(decoder', s \o z)
  BY <1>3, <1>4, <1>5, PushFollows
<1>7. Hit(queue')
  BY <1>1 DEF Stray, Hit
<1> QED
  BY <1>1, <1>6, <1>7, DisturbedSteady DEF Stray

LEMMA NotificationsSteady == Steady /\ [Next]_vars => Steady'
<1> SUFFICES ASSUME Steady, [Next]_vars PROVE Steady'
  OBVIOUS
<1>1. CASE \E data \in Replies : Reply(data)
  BY <1>1, ReplySteady
<1>2. CASE Deliver
  BY <1>2, DeliverSteady
<1>3. CASE Lose
  BY <1>3, LoseSteady
<1>4. CASE CutShort
  BY <1>4, CutShortSteady
<1>5. CASE \E b \in Noise : Stray(b)
  BY <1>5, StraySteady
<1>6. CASE UNCHANGED vars
  BY <1>6 DEF vars, Steady, Tallies, OnItsWay, Undisturbed, Wired, Arrived
<1> QED
  BY <1>1, <1>2, <1>3, <1>4, <1>5, <1>6 DEF Next

\* Reassembly, for every set of replies the charger may send, every width of
\* the channel and any number of replies: with no fault, each reply is put back
\* together from its notifications, once, by chunk, push_notification and
\* push_byte.
THEOREM RepliesAreReassembled == Spec => []Reassembled
<1>1. Steady => Reassembled
  BY DEF Steady, Reassembled
<1> QED
  BY <1>1, SteadyAtFirst, NotificationsSteady, PTL DEF Spec

\* Resynchronisation: however many notifications were lost, cut short or let
\* through, the second undisturbed reply in a row is decoded.
THEOREM HostResynchronises == Spec => []Resynchronises
<1>1. Steady => Resynchronises
  BY DEF Steady, Resynchronises
<1> QED
  BY <1>1, SteadyAtFirst, NotificationsSteady, PTL DEF Spec
=============================================================================
