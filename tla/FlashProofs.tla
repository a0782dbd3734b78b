--------------------------- MODULE FlashProofs ---------------------------
(***************************************************************************)
(* Proofs about Flash, for all images, every size of memory, and every     *)
(* number of attempts and connections.                                     *)
(* TellsTheTruth: while no attempt was given up, at most one thing is on   *)
(* its way, and the memory shows what an answer says.                      *)
(* VerifiedMeansSummed: what attempts given up left on the way carries a   *)
(* later one no further than one step for each of them.                    *)
(***************************************************************************)
EXTENDS Flash, TLAPS, SequenceTheorems, FiniteSetTheorems, WellFoundedInduction

\* Nothing on the connection is of another request than the one under way, and
\* what a good answer says is so.
WrittenUpTo(n) ==
  \A i \in 1 .. n : start + i - 1 \in Locations /\ memory[start + i - 1] = image[i]
BlankFrom(n) ==
  /\ start + Len(image) <= FlashSize
  /\ \A i \in n + 1 .. Len(image) : memory[start + i - 1] = Blank

\* The memory is ready for the request of this step.
Ready == step = "WriteApp" => BlankFrom(index)

\* The request of this step has done its work.
Worked ==
  /\ step = "EraseApp" => BlankFrom(0)
  /\ step = "WriteApp" => WrittenUpTo(index + 1) /\ BlankFrom(index + 1)

Reply(good) == [word |-> ReplyWord(step), good |-> good]

Unasked == toCharger = <<>> /\ toHost = <<>>

InStep ==
  /\ phase = "idle" => Unasked
  /\ phase = "send" => Unasked /\ Ready
  /\ phase = "wait" => \/ Unasked
                       \/ toCharger = <<Asks>> /\ toHost = <<>> /\ Ready
                       \/ toCharger = <<>> /\ toHost = <<Reply(FALSE)>>
                       \/ toCharger = <<>> /\ toHost = <<Reply(TRUE)>> /\ Worked

\* How far the image is in memory, by the step.
Progress ==
  /\ phase # "idle" => /\ WrittenUpTo(index)
                       /\ step = "ChecksumApp" => index = Len(image)
  /\ outcome = "ok" => phase = "idle" /\ WrittenUpTo(Len(image))

\* An image is under way only once it was asked for, and is written from its
\* first block.
Asked ==
  phase # "idle" => /\ start \in Starts /\ image # <<>>
                    /\ step \in {"EnterBootloader", "EraseApp"} => index = 0

TypeInv == TypeOK /\ Asked

\* While nothing was given up, the client and the charger agree.
Agree == InStep /\ Progress

FlashInv == TypeInv /\ (givenUp = 0 => Agree)
-----------------------------------------------------------------------------
(* A sum over a sequence                                                   *)

LEMMA NatLessWellFounded ==
  IsWellFoundedOn({p \in Nat \X Nat : p[1] < p[2]}, Nat)
  BY NatLessThanWellFounded, Zenon DEF OpToRel

\* Induction, for a set of numbers.
LEMMA Induction ==
  ASSUME NEW S \in SUBSET Nat, 0 \in S, \A n \in S : n + 1 \in S
  PROVE  S = Nat
<1> SUFFICES ASSUME Nat \ S # {} PROVE FALSE
  OBVIOUS
<1> DEFINE R == {p \in Nat \X Nat : p[1] < p[2]}
           T == Nat \ S
<1>1. \A x, y \in Nat : y < x => <<y, x>> \in R
  OBVIOUS
<1>2. IsWellFoundedOn(R, Nat)
  BY NatLessWellFounded
<1>3. T \subseteq Nat /\ T # {}
  OBVIOUS
<1> HIDE DEF R, T
<1>4. PICK x \in T : \A y \in T : ~ (<<y, x>> \in R)
  BY <1>2, <1>3, WFMin, Zenon
<1>5. \A y \in T : ~ (y < x)
  BY <1>1, <1>3, <1>4
<1> QED
  BY <1>3, <1>4, <1>5 DEF T

\* One element of a finite set taken out of it leaves a smaller one.
LEMMA OneLess ==
  ASSUME NEW S, IsFiniteSet(S), NEW s \in SUBSET S, s # {}, NEW k \in Nat,
         Cardinality(s) <= k + 1, NEW x \in s
  PROVE  s \ {x} \in SUBSET S /\ Cardinality(s \ {x}) <= k
<1>1. IsFiniteSet(s)
  BY FS_Subset
<1>2. Cardinality(s \ {x}) = Cardinality(s) - 1 /\ Cardinality(s) \in Nat
  BY <1>1, FS_RemoveElement, FS_CardinalityType
<1> QED
  BY <1>2

\* The sum of a sequence of numbers is a number: the recursion of a fold over
\* the subsets of its domain has a solution, and every solution is a number.
LEMMA ChecksumType ==
  ASSUME NEW b \in Seq(Nat) PROVE Checksum(b) \in Nat
<1> DEFINE D == DOMAIN b
           c(s) == CHOOSE x \in s : TRUE
           Sum(g, s) == IF s = {} THEN 0 ELSE b[c(s)] + g[s \ {c(s)}]
           Small(k) == {s \in SUBSET D : Cardinality(s) <= k}
           IsSum(g) == g = [s \in SUBSET D |-> Sum(g, s)]
           iter == CHOOSE g : IsSum(g)
<1>1. IsFiniteSet(D) /\ Cardinality(D) \in Nat
  BY FS_Interval, FS_CardinalityType, LenProperties
<1>2. \A s \in SUBSET D : s # {} => c(s) \in s /\ b[c(s)] \in Nat
  OBVIOUS
<1>3. ASSUME NEW k \in Nat, NEW s \in Small(k + 1), s # {}
      PROVE  s \ {c(s)} \in Small(k) /\ b[c(s)] \in Nat
  <2>1. s \in SUBSET D /\ Cardinality(s) <= k + 1 /\ c(s) \in s
    BY <1>2, <1>3
  <2> HIDE DEF c, D
  <2> QED
    BY <1>1, <1>2, <1>3, <2>1, OneLess
<1>4. Small(0) = {{}}
  <2>1. ASSUME NEW s \in SUBSET D, Cardinality(s) <= 0 PROVE s = {}
    <3>1. IsFiniteSet(s) /\ Cardinality(s) \in Nat
      BY <1>1, FS_Subset, FS_CardinalityType
    <3> QED
      BY <2>1, <3>1, FS_EmptySet
  <2>2. Cardinality({}) = 0
    BY FS_EmptySet
  <2> HIDE DEF D
  <2> QED
    BY <2>1, <2>2
<1>5. Small(Cardinality(D)) = SUBSET D
  <2>1. \A s \in SUBSET D : Cardinality(s) <= Cardinality(D)
    BY <1>1, FS_Subset
  <2> HIDE DEF D
  <2> QED
    BY <2>1
<1> HIDE DEF D, c, Small
<1>6. \E g : IsSum(g)
  <2> DEFINE K == {k \in Nat : \E g : g = [s \in Small(k) |-> Sum(g, s)]}
  <2>1. 0 \in K
    <3> DEFINE g == [s \in {{}} |-> 0]
    <3>1. g = [s \in {{}} |-> Sum(g, s)]
      OBVIOUS
    <3> HIDE DEF g, Sum
    <3> QED
      BY <1>4, <3>1
  <2>2. ASSUME NEW k \in K PROVE k + 1 \in K
    <3>1. PICK g : g = [s \in Small(k) |-> Sum(g, s)]
      OBVIOUS
    <3> DEFINE h == [s \in Small(k + 1) |-> Sum(g, s)]
    <3>2. ASSUME NEW s \in Small(k + 1) PROVE Sum(g, s) = Sum(h, s)
      <4>1. CASE s # {}
        <5> DEFINE t == s \ {c(s)}
        <5>1. t \in Small(k)
          BY <1>3, <3>2, <4>1
        <5>2. t \in Small(k + 1)
          BY <5>1, <1>1, FS_Subset, FS_CardinalityType DEF Small
        <5>3. h[t] = Sum(g, t) /\ g[t] = Sum(g, t)
          <6> HIDE DEF Sum
          <6> QED
            BY <3>1, <5>1, <5>2
        <5> HIDE DEF t, h
        <5> QED
          BY <4>1, <5>3 DEF t
      <4>2. CASE s = {}
        BY <4>2
      <4> QED
        BY <4>1, <4>2
    <3>3. h = [s \in Small(k + 1) |-> Sum(h, s)]
      <4> HIDE DEF Sum
      <4> QED
        BY <3>2
    <3> HIDE DEF h, Sum
    <3> QED
      BY <3>3
  <2>3. K \in SUBSET Nat
    OBVIOUS
  <2> HIDE DEF K
  <2>4. Cardinality(D) \in K
    BY <1>1, <2>1, <2>2, <2>3, Induction
  <2> HIDE DEF Sum
  <2> QED
    BY <1>5, <2>4 DEF K
<1>7. IsSum(iter)
  <2> HIDE DEF IsSum
  <2> QED
    BY <1>6
<1>8. iter[D] \in Nat
  <2> DEFINE K == {k \in Nat : \A s \in Small(k) : iter[s] \in Nat}
  <2> HIDE DEF iter
  <2>0. /\ iter[{}] = 0
        /\ \A s \in SUBSET D : s # {} => iter[s] = b[c(s)] + iter[s \ {c(s)}]
    <3>1. \A s \in SUBSET D : iter[s] = Sum(iter, s)
      <4> HIDE DEF Sum
      <4> QED
        BY <1>7
    <3> QED
      BY <3>1
  <2> HIDE DEF Sum
  <2>1. 0 \in K
    <3>1. \A s \in Small(0) : iter[s] \in Nat
      <4>1. 0 \in Nat
        OBVIOUS
      <4> QED
        BY <1>4, <2>0, <4>1, Zenon
    <3> QED
      BY <3>1, Zenon
  <2>2. ASSUME NEW k \in K PROVE k + 1 \in K
    <3>1. ASSUME NEW s \in Small(k + 1) PROVE iter[s] \in Nat
      <4>1. s \in SUBSET D
        BY <3>1 DEF Small
      <4>2. CASE s # {}
        <5>1. s \ {c(s)} \in Small(k) /\ b[c(s)] \in Nat
          BY <1>3, <3>1, <4>2
        <5>2. iter[s \ {c(s)}] \in Nat
          BY <5>1, Zenon
        <5>3. iter[s] = b[c(s)] + iter[s \ {c(s)}]
          BY <2>0, <4>1, <4>2, Zenon
        <5>4. ASSUME NEW m \in Nat, NEW n \in Nat PROVE m + n \in Nat
          OBVIOUS
        <5> QED
          BY <5>1, <5>2, <5>3, <5>4, Zenon
      <4>3. CASE s = {}
        BY <2>0, <4>3
      <4> QED
        BY <4>2, <4>3
    <3> QED
      BY <3>1
  <2>3. K \in SUBSET Nat
    OBVIOUS
  <2> HIDE DEF K
  <2>4. Cardinality(D) \in K
    BY <1>1, <2>1, <2>2, <2>3, Induction
  <2> QED
    BY <1>5, <2>4 DEF K
<1>9. Checksum(b) = iter[D]
  BY Zenon DEF Checksum, FoldSeq, FoldFunction, FoldFunctionOnSet, MapThenFoldSet, D, c
<1> QED
  BY <1>8, <1>9
-----------------------------------------------------------------------------
(* Types                                                                   *)

Asking == [kind : FlashSteps, address : Nat, size : Nat, data : Nat]
Answering == [word : Nat, good : BOOLEAN]

\* The reply words of the four steps are words, and differ.
LEMMA StepWords ==
  /\ ReplyWord("EnterBootloader") = 241 /\ ReplyWord("EraseApp") = 243
  /\ ReplyWord("WriteApp") = 245 /\ ReplyWord("ChecksumApp") = 247
<1>1. /\ CommandWord["EnterBootloader"] = 240 /\ CommandWord["EraseApp"] = 242
      /\ CommandWord["WriteApp"] = 244 /\ CommandWord["ChecksumApp"] = 246
  BY DEF CommandWord
<1> QED
  BY <1>1 DEF ReplyWord, Wildcards

LEMMA StepWordType ==
  ASSUME NEW s \in FlashSteps PROVE ReplyWord(s) \in Nat
  BY StepWords DEF FlashSteps

\* The request of a step is well-formed.
LEMMA AsksType ==
  ASSUME TypeOK, Asked, phase # "idle" PROVE Asks \in Asking
<1>1. image \in Seq(Nat) /\ index \in Nat /\ start \in Nat /\ step \in FlashSteps
  BY DEF TypeOK
<1>2. Addresses \in Nat /\ Addresses > 0
  <2>1. start \in 0 .. Addresses - 1
    BY InputsAssumption DEF Asked
  <2> QED
    BY <1>1, <2>1, MemoryAssumption
<1>3. (start + index) % Addresses \in Nat
  BY <1>1, <1>2
<1>4. step = "WriteApp" => image[index + 1] \in Nat
  BY <1>1 DEF TypeOK
<1>5. Checksum(image) \in Nat
  BY <1>1, ChecksumType
<1>6. Len(image) \in Nat
  BY <1>1
<1> QED
  BY <1>1, <1>3, <1>4, <1>5, <1>6 DEF Asks, Asking

\* What a request leaves in memory is a memory.
LEMMA EffectType ==
  ASSUME TypeOK, NEW q \in Asking, Effect(q)
  PROVE  mode' \in {"app", "boot"} /\ memory' \in [Locations -> Nat]
<1>1. memory \in [Locations -> Nat] /\ mode \in {"app", "boot"}
  BY DEF TypeOK
<1>2. CASE q.kind = "EnterBootloader" /\ mode' = "boot" /\ memory' = memory
  BY <1>1, <1>2
<1>3. CASE /\ memory' = [a \in Locations |->
                           IF a \in q.address .. q.address + q.size - 1 THEN Blank ELSE memory[a]]
           /\ mode' = mode
  BY <1>1, <1>3, MemoryAssumption
<1>4. CASE memory' = Written(q.address, q.data) /\ mode' = mode
  BY <1>1, <1>4, MemoryAssumption DEF Written, Asking
<1>5. CASE UNCHANGED charger
  BY <1>1, <1>5 DEF charger
<1> QED
  BY <1>2, <1>3, <1>4, <1>5 DEF Effect

\* Taking the first of a queue, or adding one behind it.
LEMMA QueueTypes ==
  ASSUME NEW T, NEW s \in Seq(T)
  PROVE  /\ s # <<>> => Head(s) \in T /\ Tail(s) \in Seq(T)
         /\ \A x \in T : Append(s, x) \in Seq(T)
         /\ <<>> \in Seq(T)
  BY EmptySeq, HeadTailProperties, AppendProperties

LEMMA AirTypes ==
  ASSUME TypeOK
  PROVE  /\ toCharger \in Seq(Asking) /\ toHost \in Seq(Answering)
         /\ <<>> \in Seq(Asking) /\ <<>> \in Seq(Answering)
         /\ toCharger # <<>> => Head(toCharger) \in Asking /\ Tail(toCharger) \in Seq(Asking)
         /\ toHost # <<>> => Head(toHost) \in Answering /\ Tail(toHost) \in Seq(Answering)
         /\ \A x \in Asking : Append(toCharger, x) \in Seq(Asking)
         /\ \A x \in Answering : Append(toHost, x) \in Seq(Answering)
<1>1. toCharger \in Seq(Asking) /\ toHost \in Seq(Answering)
  BY DEF TypeOK, Asking, Answering
<1> QED
  BY <1>1, QueueTypes

LEMMA InitType == Init => TypeInv
<1> SUFFICES ASSUME Init PROVE TypeInv
  OBVIOUS
<1>1. /\ image = <<>> /\ toCharger = <<>> /\ toHost = <<>> /\ phase = "idle"
      /\ index = 0 /\ Len(image) = 0
  BY DEF Init
<1>2. /\ image \in Seq(Nat) /\ toCharger \in Seq([kind : FlashSteps, address : Nat, size : Nat, data : Nat])
      /\ toHost \in Seq([word : Nat, good : BOOLEAN])
  BY <1>1, EmptySeq
<1>3. memory \in [Locations -> Nat]
  BY MemoryAssumption DEF Init
<1>4. index \in 0 .. Len(image)
  BY <1>1
<1> QED
  BY <1>1, <1>2, <1>3, <1>4 DEF Init, TypeInv, TypeOK, Asked, FlashSteps, Outcomes

LEMMA StepType == TypeInv /\ [Next]_vars => TypeInv'
<1> SUFFICES ASSUME TypeInv, [Next]_vars PROVE TypeInv'
  OBVIOUS
<1>0. TypeOK /\ Asked
  BY DEF TypeInv
<1> DEFINE
     ClientOK == /\ phase \in {"idle", "send", "wait"} /\ step \in FlashSteps
                 /\ image \in Seq(Nat) /\ start \in Nat /\ index \in 0 .. Len(image)
                 /\ (phase # "idle" /\ step = "WriteApp") => index < Len(image)
                 /\ outcome \in Outcomes /\ attempts \in Nat /\ givenUp \in Nat
     AirOK == toCharger \in Seq(Asking) /\ toHost \in Seq(Answering)
     ChargerOK == mode \in {"app", "boot"} /\ memory \in [Locations -> Nat]
<1>a. ClientOK /\ AirOK /\ ChargerOK
  BY <1>0, AirTypes DEF TypeOK
<1>b. ASSUME ClientOK', AirOK', ChargerOK', Asked' PROVE TypeInv'
  BY <1>b DEF TypeInv, TypeOK, Asking, Answering
<1>c. ASSUME UNCHANGED <<flashing, outcome, history>> PROVE ClientOK' /\ Asked'
  BY <1>0, <1>a, <1>c DEF flashing, history, Asked
<1>d. ASSUME UNCHANGED charger PROVE ChargerOK'
  BY <1>a, <1>d DEF charger
<1>e. ASSUME NEW how \in Outcomes, End(how), UNCHANGED attempts, givenUp' \in Nat
      PROVE  ClientOK' /\ Asked'
  BY <1>a, <1>e DEF End, Asked
<1>1. ASSUME NEW s \in Starts, NEW blocks \in Images, FlashFirmware(s, blocks)
      PROVE  TypeInv'
  <2>1. blocks \in Seq(Nat) /\ s \in Nat
    BY InputsAssumption
  <2>2. ClientOK' /\ Asked'
    BY <1>a, <1>1, <2>1 DEF FlashFirmware, Asked, FlashSteps, Outcomes
  <2>3. AirOK' /\ ChargerOK'
    BY <1>a, <1>1 DEF FlashFirmware, air, charger
  <2> QED
    BY <1>b, <2>2, <2>3
<1>2. ASSUME Send PROVE TypeInv'
  <2>1. ClientOK' /\ Asked' /\ ChargerOK'
    BY <1>0, <1>a, <1>2 DEF Send, Asked, history, charger
  <2>2. AirOK'
    BY <1>0, <1>2, AirTypes, AsksType DEF Send
  <2> QED
    BY <1>b, <2>1, <2>2
<1>3. ASSUME TimesOut PROVE TypeInv'
  <2>1. ClientOK' /\ Asked'
    BY <1>a, <1>3, <1>e DEF TimesOut, GiveUp, Outcomes
  <2>2. AirOK' /\ ChargerOK'
    BY <1>a, <1>3 DEF TimesOut, air, charger
  <2> QED
    BY <1>b, <2>1, <2>2
<1>4. ASSUME SendFails PROVE TypeInv'
  <2>1. ClientOK' /\ Asked'
    BY <1>a, <1>4, <1>e DEF SendFails, GiveUp, Outcomes
  <2>2. AirOK' /\ ChargerOK'
    BY <1>0, <1>a, <1>d, <1>4, AirTypes, AsksType DEF SendFails
  <2> QED
    BY <1>b, <2>1, <2>2
<1>5. ASSUME Accept PROVE TypeInv'
  <2>1. AirOK' /\ ChargerOK'
    BY <1>0, <1>d, <1>5, AirTypes DEF Accept, AcceptIf
  <2>2. ClientOK' /\ Asked'
    <3>1. CASE Head(toHost).good /\ step # "ChecksumApp" /\ phase' = "send"
      <4>1. /\ phase = "wait" /\ index' = (IF step = "WriteApp" THEN index + 1 ELSE index)
            /\ step' = NextStep
            /\ UNCHANGED <<image, start, outcome, attempts, givenUp>>
        BY <1>5, <3>1 DEF Accept, AcceptIf, End, history
      <4>2. index' \in 0 .. Len(image') /\ image' # <<>> /\ start' \in Starts
        BY <1>0, <1>a, <4>1 DEF Asked
      <4>5. step' # "EnterBootloader" /\ (step' = "EraseApp" => index' = 0)
        BY <1>0, <4>1 DEF NextStep, Asked
      <4>3. step' \in FlashSteps
        BY <4>1 DEF NextStep, FlashSteps
      <4>4. step' = "WriteApp" => index' < Len(image')
        <5>1. CASE step = "EraseApp"
          BY <1>0, <1>a, <4>1, <5>1
          DEF Asked
        <5>2. CASE step # "EraseApp"
          BY <4>1, <5>2 DEF NextStep
        <5> QED
          BY <5>1, <5>2
      <4> QED
        BY <1>a, <3>1, <4>1, <4>2, <4>3, <4>4, <4>5 DEF Asked
    <3>2. CASE \E how \in {"ok", "rejected"} : End(how)
      BY <1>a, <1>5, <1>e, <3>2 DEF Accept, AcceptIf, history, Outcomes
    <3> QED
      BY <1>5, <3>1, <3>2 DEF Accept, AcceptIf
  <2> QED
    BY <1>b, <2>1, <2>2
<1>6. ASSUME SetAside PROVE TypeInv'
  BY <1>0, <1>b, <1>c, <1>d, <1>6, AirTypes DEF SetAside
<1>7. ASSUME Reconnect PROVE TypeInv'
  <2>1. ClientOK' /\ Asked'
    BY <1>a, <1>7 DEF Reconnect, Asked, Outcomes
  <2>2. AirOK' /\ ChargerOK'
    BY <1>0, <1>a, <1>7, AirTypes DEF Reconnect
  <2> QED
    BY <1>b, <2>1, <2>2
<1>8. ASSUME NEW good \in BOOLEAN, Handle(good) PROVE TypeInv'
  <2> DEFINE q == Head(toCharger)
  <2>1. q \in Asking
    BY <1>0, <1>8, AirTypes DEF Handle
  <2>2. ReplyWord(q.kind) \in Nat
    BY <2>1, StepWordType DEF Asking
  <2>3. [word |-> ReplyWord(q.kind), good |-> good] \in Answering
    BY <2>2 DEF Answering
  <2>4. AirOK'
    BY <1>0, <1>8, <2>3, AirTypes DEF Handle
  <2>5. ChargerOK'
    BY <1>0, <1>8, <1>d, <2>1, EffectType DEF Handle
  <2> QED
    BY <1>8, <1>b, <1>c, <2>4, <2>5 DEF Handle
<1>9. ASSUME LoseRequest PROVE TypeInv'
  BY <1>0, <1>b, <1>c, <1>d, <1>9, AirTypes DEF LoseRequest
<1>10. ASSUME LoseReply PROVE TypeInv'
  BY <1>0, <1>b, <1>c, <1>d, <1>10, AirTypes DEF LoseReply
<1>11. ASSUME UNCHANGED vars PROVE TypeInv'
  BY <1>a, <1>b, <1>c, <1>d, <1>11 DEF vars, air
<1> QED
  BY <1>1, <1>2, <1>3, <1>4, <1>5, <1>6, <1>7, <1>8, <1>9, <1>10, <1>11
  DEF Next, ClientStep

\* The types of flash_firmware, and that it starts each image at its first block.
THEOREM TypeInvariant == Spec => []TypeInv
<1> QED
  BY InitType, StepType, PTL DEF Spec

\* The variables of the client, the connection and the charger keep their
\* types, and writing never runs past the image.
THEOREM TypeCorrect == Spec => []TypeOK
<1>1. TypeInv => TypeOK
  BY DEF TypeInv
<1> QED
  BY <1>1, TypeInvariant, PTL
-----------------------------------------------------------------------------
(* The connection stays in step with the client until an attempt is given  *)
(* up                                                                      *)

LEMMA OneInQueue ==
  ASSUME NEW x
  PROVE  /\ Head(<<x>>) = x /\ Tail(<<x>>) = <<>> /\ <<x>> # <<>>
         /\ Append(<<>>, x) = <<x>>
  OBVIOUS

\* A block that has room is not written past the last address.
LEMMA AddressOfBlock ==
  ASSUME TypeInv, phase # "idle", step = "WriteApp", Ready
  PROVE  /\ Asks.address = start + index /\ Asks.data = image[index + 1]
         /\ start + index \in Locations /\ memory[start + index] = Blank
<1>1. /\ start \in Nat /\ index \in 0 .. Len(image) /\ index < Len(image) /\ Len(image) \in Nat
  BY DEF TypeInv, TypeOK
<1>2. /\ start + Len(image) <= FlashSize
      /\ memory[start + (index + 1) - 1] = Blank
  BY <1>1 DEF Ready, BlankFrom
<1>3. start + index < Addresses /\ start + index \in Locations
  BY <1>1, <1>2, MemoryAssumption DEF Locations
<1>4. (start + index) % Addresses = start + index
  BY <1>1, <1>3, MemoryAssumption
<1>5. start + (index + 1) - 1 = start + index
  BY <1>1
<1> QED
  BY <1>2, <1>3, <1>4, <1>5 DEF Asks

\* What the request of a step does to the memory, and what it leaves alone.
LEMMA EffectOfStep ==
  ASSUME TypeInv, phase # "idle", Ready, WrittenUpTo(index), Effect(Asks),
         UNCHANGED <<step, index, image, start>>
  PROVE  WrittenUpTo(index)' /\ Worked'
<1>1. /\ start \in Nat /\ index \in 0 .. Len(image) /\ Len(image) \in Nat
      /\ memory \in [Locations -> Nat] /\ step \in FlashSteps
  BY DEF TypeInv, TypeOK
<1>2. Asks.kind = step /\ Asks.size = Len(image)
  BY DEF Asks
<1>3. CASE step = "EnterBootloader"
  BY <1>1, <1>3 DEF TypeInv, Asked, WrittenUpTo, Worked
<1>4. CASE step = "EraseApp"
  <2>1. index = 0 /\ Asks.address = start
    BY <1>4 DEF TypeInv, Asked, Asks
  <2>2. /\ memory' = [a \in Locations |->
                        IF a \in start .. start + Len(image) - 1 THEN Blank ELSE memory[a]]
        /\ start + Len(image) <= FlashSize
    BY <1>2, <1>4, <2>1 DEF Effect, Fits
  <2>3. \A i \in 1 .. Len(image) : memory'[start + i - 1] = Blank
    BY <1>1, <2>2, MemoryAssumption DEF Locations
  <2> QED
    BY <1>1, <1>4, <2>1, <2>2, <2>3 DEF WrittenUpTo, Worked, BlankFrom
<1>5. CASE step = "WriteApp"
  <2>1. /\ Asks.address = start + index /\ Asks.data = image[index + 1]
        /\ start + index \in Locations /\ memory[start + index] = Blank
    BY <1>5, AddressOfBlock
  <2>2. memory' = [memory EXCEPT ![start + index] = image[index + 1]]
    BY <1>2, <1>5, <2>1 DEF Effect, Written
  <2>3. memory'[start + index] = image[index + 1]
    BY <1>1, <2>1, <2>2
  <2>4. \A i \in 1 .. index : start + i - 1 \in Locations /\ memory'[start + i - 1] = image[i]
    <3> SUFFICES ASSUME NEW i \in 1 .. index
                 PROVE  start + i - 1 \in Locations /\ memory'[start + i - 1] = image[i]
      OBVIOUS
    <3>1. start + i - 1 \in Locations
      BY DEF WrittenUpTo
    <3>2. start + i - 1 # start + index
      BY <1>1
    <3> QED
      BY <1>1, <2>2, <3>1, <3>2 DEF WrittenUpTo
  <2>5. BlankFrom(index + 1)'
    <3>1. start + Len(image) <= FlashSize
      BY <1>5 DEF Ready, BlankFrom
    <3>2. ASSUME NEW i \in index + 2 .. Len(image) PROVE memory'[start + i - 1] = Blank
      <4>1. start + i - 1 # start + index /\ start + i - 1 \in Locations
        BY <1>1, <3>1, MemoryAssumption DEF Locations
      <4>2. memory[start + i - 1] = Blank
        BY <1>1, <1>5 DEF Ready, BlankFrom
      <4> QED
        BY <1>1, <2>2, <4>1, <4>2
    <3>3. \A i \in (index + 1) + 1 .. Len(image) : i \in index + 2 .. Len(image)
      BY <1>1
    <3> QED
      BY <3>1, <3>2, <3>3 DEF BlankFrom
  <2>6. WrittenUpTo(index + 1)'
    <3> SUFFICES ASSUME NEW i \in 1 .. index + 1
                 PROVE  start + i - 1 \in Locations /\ memory'[start + i - 1] = image[i]
      BY DEF WrittenUpTo
    <3>1. CASE i \in 1 .. index
      BY <2>4, <3>1
    <3>2. CASE i = index + 1
      <4>1. start + i - 1 = start + index
        BY <1>1, <3>2
      <4> QED
        BY <2>1, <2>3, <3>2, <4>1
    <3> QED
      BY <1>1, <3>1, <3>2
  <2> QED
    BY <1>5, <2>4, <2>5, <2>6 DEF WrittenUpTo, Worked
<1>6. CASE step = "ChecksumApp"
  BY <1>2, <1>6 DEF Effect, charger, WrittenUpTo, Worked
<1> QED
  BY <1>1, <1>3, <1>4, <1>5, <1>6 DEF FlashSteps

\* The step after one that was acknowledged and has done its work.
LEMMA Advance ==
  ASSUME TypeInv, phase = "wait", WrittenUpTo(index), Worked, step # "ChecksumApp",
         index' = (IF step = "WriteApp" THEN index + 1 ELSE index),
         step' = NextStep, phase' = "send",
         UNCHANGED <<image, start, memory>>
  PROVE  WrittenUpTo(index)' /\ Ready' /\ (step' = "ChecksumApp" => index' = Len(image'))
<1>1. /\ start \in Nat /\ index \in 0 .. Len(image) /\ Len(image) \in Nat /\ step \in FlashSteps
      /\ step = "WriteApp" => index < Len(image)
  BY DEF TypeInv, TypeOK
<1>2. CASE step = "EnterBootloader"
  BY <1>2 DEF NextStep, Ready, WrittenUpTo
<1>3. CASE step = "EraseApp"
  <2>1. index' = 0 /\ index = 0 /\ step' = "WriteApp"
    BY <1>3 DEF NextStep, TypeInv, Asked
  <2> QED
    BY <1>1, <1>3, <2>1 DEF Ready, WrittenUpTo, Worked, BlankFrom
<1>4. CASE step = "WriteApp"
  <2>1. WrittenUpTo(index + 1) /\ BlankFrom(index + 1) /\ index' = index + 1
    BY <1>4 DEF Worked
  <2>2. step' = "ChecksumApp" => index' = Len(image')
    BY <1>1, <1>4, <2>1 DEF NextStep
  <2> QED
    BY <2>1, <2>2 DEF WrittenUpTo, BlankFrom, Ready
<1> QED
  BY <1>1, <1>2, <1>3, <1>4 DEF FlashSteps

LEMMA AgreeStep ==
  ASSUME TypeInv, TypeInv', Agree, Next, givenUp = 0, givenUp' = 0
  PROVE  Agree'
<1>0. phase \in {"idle", "send", "wait"} /\ phase' \in {"idle", "send", "wait"}
  BY DEF TypeInv, TypeOK
<1>1. ASSUME NEW s \in Starts, NEW blocks \in Images, FlashFirmware(s, blocks)
      PROVE  Agree'
  BY <1>1 DEF FlashFirmware, Agree, InStep, Progress, Unasked, Ready, WrittenUpTo, air
<1>2. ASSUME Send PROVE Agree'
  <2>1. Asks' = Asks /\ toCharger' = <<Asks>> /\ toHost' = <<>>
    BY <1>2, OneInQueue DEF Send, Asks, Agree, InStep, Unasked
  <2>2. Ready' /\ Progress'
    BY <1>2 DEF Send, charger, Agree, InStep, Ready, BlankFrom, Progress, WrittenUpTo
  <2> QED
    BY <1>2, <2>1, <2>2 DEF Send, Agree, InStep
<1>3. ASSUME TimesOut \/ SendFails PROVE FALSE
  BY <1>3 DEF TimesOut, SendFails, GiveUp
<1>4. ASSUME Accept PROVE Agree'
  <2>1. /\ phase = "wait" /\ toHost # <<>> /\ toHost' = Tail(toHost)
        /\ UNCHANGED <<attempts, givenUp, toCharger, mode, memory>>
    BY <1>4 DEF Accept, AcceptIf, history, charger
  <2>2. /\ toCharger = <<>>
        /\ \/ toHost = <<Reply(FALSE)>>
           \/ toHost = <<Reply(TRUE)>> /\ Worked
    BY <2>1 DEF Agree, InStep, Unasked
  <2>3. Unasked'
    BY <2>1, <2>2, OneInQueue DEF Unasked
  <2>4. Head(toHost).good => Worked
    BY <2>2, OneInQueue DEF Reply
  <2>5. WrittenUpTo(index) /\ (step = "ChecksumApp" => index = Len(image)) /\ outcome # "ok"
    BY <2>1 DEF Agree, Progress
  <2>6. CASE /\ Head(toHost).good /\ step # "ChecksumApp"
             /\ index' = (IF step = "WriteApp" THEN index + 1 ELSE index)
             /\ phase' = "send" /\ step' = NextStep
             /\ UNCHANGED <<image, start, outcome>>
    BY <2>1, <2>3, <2>4, <2>5, <2>6, Advance DEF Agree, InStep, Progress
  <2>7. CASE Head(toHost).good /\ step = "ChecksumApp" /\ End("ok")
    BY <2>1, <2>3, <2>5, <2>7 DEF End, Agree, InStep, Progress, WrittenUpTo
  <2>8. CASE End("rejected")
    BY <2>3, <2>8 DEF End, Agree, InStep, Progress
  <2> QED
    BY <1>4, <2>6, <2>7, <2>8 DEF Accept, AcceptIf
<1>5. ASSUME SetAside PROVE FALSE
  <2>1. toHost = <<Reply(FALSE)>> \/ toHost = <<Reply(TRUE)>>
    BY <1>5 DEF SetAside, Agree, InStep, Unasked
  <2>2. Head(toHost).word = ReplyWord(step)
    BY <2>1, OneInQueue DEF Reply
  <2> QED
    BY <1>5, <2>2 DEF SetAside
<1>6. ASSUME Reconnect PROVE Agree'
  BY <1>6 DEF Reconnect, Agree, InStep, Progress, Unasked
<1>7. ASSUME NEW good \in BOOLEAN, Handle(good) PROVE Agree'
  <2>1. /\ toCharger # <<>> /\ toCharger' = Tail(toCharger)
        /\ UNCHANGED <<phase, step, index, image, start, outcome, attempts, givenUp>>
    BY <1>7 DEF Handle, flashing, history
  <2>2. phase = "wait" /\ toCharger = <<Asks>> /\ toHost = <<>> /\ Ready
    BY <1>0, <2>1 DEF Agree, InStep, Unasked
  <2>3. toCharger' = <<>> /\ toHost' = <<Reply(good)>> /\ Reply(good)' = Reply(good)
    BY <1>7, <2>1, <2>2, OneInQueue DEF Handle, Reply, Asks
  <2>4. Effect(Asks) \/ (~good /\ UNCHANGED charger)
    BY <1>7, <2>2, OneInQueue DEF Handle
  <2>5. WrittenUpTo(index) /\ outcome # "ok" /\ (step = "ChecksumApp" => index = Len(image))
    BY <2>2 DEF Agree, Progress
  <2>6. WrittenUpTo(index)' /\ (good => Worked')
    <3>1. CASE Effect(Asks)
      BY <2>1, <2>2, <2>5, <3>1, EffectOfStep
    <3>2. CASE ~good /\ UNCHANGED charger
      BY <2>1, <2>5, <3>2 DEF charger, WrittenUpTo
    <3> QED
      BY <2>4, <3>1, <3>2
  <2> QED
    BY <2>1, <2>2, <2>3, <2>5, <2>6 DEF Agree, InStep, Progress, Unasked
<1>8. ASSUME LoseRequest PROVE Agree'
  <2>1. /\ phase = "wait" /\ toCharger = <<Asks>> /\ toHost = <<>>
    BY <1>0, <1>8 DEF LoseRequest, Agree, InStep, Unasked
  <2>2. Unasked'
    BY <1>8, <2>1, OneInQueue DEF LoseRequest, Unasked
  <2> QED
    BY <1>8, <2>1, <2>2
    DEF LoseRequest, flashing, history, charger, Agree, InStep, Progress, WrittenUpTo
<1>9. ASSUME LoseReply PROVE Agree'
  <2>1. /\ phase = "wait" /\ toCharger = <<>>
        /\ toHost = <<Reply(FALSE)>> \/ toHost = <<Reply(TRUE)>>
    BY <1>0, <1>9 DEF LoseReply, Agree, InStep, Unasked
  <2>2. Unasked'
    BY <1>9, <2>1, OneInQueue DEF LoseReply, Unasked
  <2> QED
    BY <1>9, <2>1, <2>2
    DEF LoseReply, flashing, history, charger, Agree, InStep, Progress, WrittenUpTo
<1> QED
  BY <1>1, <1>2, <1>3, <1>4, <1>5, <1>6, <1>7, <1>8, <1>9 DEF Next, ClientStep

\* Only a new connection forgets that an attempt was given up.
LEMMA GivenUpStays ==
  ASSUME TypeInv, Next, ~Reconnect, givenUp' = 0 PROVE givenUp = 0
<1>1. givenUp \in Nat
  BY DEF TypeInv, TypeOK
<1>2. ASSUME NEW s \in Starts, NEW blocks \in Images, FlashFirmware(s, blocks)
      PROVE  givenUp' = givenUp
  BY <1>2 DEF FlashFirmware
<1>3. Send \/ Accept \/ SetAside => givenUp' = givenUp
  BY DEF Send, Accept, AcceptIf, SetAside, history
<1>4. TimesOut \/ SendFails => givenUp' = givenUp + 1
  BY DEF TimesOut, SendFails, GiveUp
<1>5. ASSUME NEW good \in BOOLEAN, Handle(good) PROVE givenUp' = givenUp
  BY <1>5 DEF Handle, history
<1>6. LoseRequest \/ LoseReply => givenUp' = givenUp
  BY DEF LoseRequest, LoseReply, history
<1> QED
  BY <1>1, <1>2, <1>3, <1>4, <1>5, <1>6 DEF Next, ClientStep

LEMMA FlashStep == FlashInv /\ [Next]_vars => FlashInv'
<1> SUFFICES ASSUME FlashInv, [Next]_vars, givenUp' = 0 PROVE Agree'
  BY StepType DEF FlashInv
<1>1. TypeInv /\ TypeInv'
  BY StepType DEF FlashInv
<1>2. CASE Reconnect
  BY <1>2 DEF Reconnect, Agree, InStep, Progress, Unasked
<1>3. CASE Next /\ ~Reconnect
  BY <1>1, <1>3, GivenUpStays, AgreeStep DEF FlashInv
<1>4. CASE UNCHANGED vars
  BY <1>4 DEF vars, flashing, history, air, charger, FlashInv, Agree, InStep, Progress,
     Unasked, Ready, Worked, WrittenUpTo, BlankFrom, Reply, Asks
<1> QED
  BY <1>2, <1>3, <1>4

LEMMA InitFlash == Init => FlashInv
<1> SUFFICES ASSUME Init PROVE FlashInv
  OBVIOUS
<1>1. TypeInv
  BY InitType
<1>2. Agree
  BY DEF Init, Agree, InStep, Progress, Unasked
<1> QED
  BY <1>1, <1>2 DEF FlashInv

\* The first blocks of an image, seen as the property sees them.
LEMMA WrittenIsInMemory ==
  ASSUME TypeOK, NEW n \in 0 .. Len(image), WrittenUpTo(n)
  PROVE  InMemory(start, SubSeq(image, 1, n))
<1>1. image \in Seq(Nat) /\ Len(image) \in Nat
  BY DEF TypeOK
<1>2. /\ DOMAIN SubSeq(image, 1, n) = 1 .. n
      /\ \A i \in 1 .. n : SubSeq(image, 1, n)[i] = image[i]
  <2>1. 1 .. n \subseteq DOMAIN image
    BY <1>1
  <2> QED
    BY <1>1, <2>1, SubSeqProperties
<1> QED
  BY <1>2 DEF InMemory, WrittenUpTo

\* While no attempt on the connection was given up, the blocks told to progress
\* are in the charger's memory, and "ok" means that the whole image is.
THEOREM ReportIsTrue == Spec => []TellsTheTruth
<1>1. FlashInv => TellsTheTruth
  <2> SUFFICES ASSUME FlashInv, givenUp = 0
               PROVE  /\ phase # "idle" => InMemory(start, SubSeq(image, 1, index))
                      /\ outcome = "ok" => InMemory(start, image)
    BY DEF TellsTheTruth
  <2>1. TypeOK /\ index \in 0 .. Len(image) /\ Len(image) \in 0 .. Len(image)
    BY DEF FlashInv, TypeInv, TypeOK
  <2>2. phase # "idle" => WrittenUpTo(index)
    BY DEF FlashInv, Agree, Progress
  <2>3. outcome = "ok" => WrittenUpTo(Len(image))
    BY DEF FlashInv, Agree, Progress
  <2>4. SubSeq(image, 1, Len(image)) = image
    BY <2>1, SubSeqFull DEF TypeOK
  <2> QED
    BY <2>1, <2>2, <2>3, <2>4, WrittenIsInMemory
<1> QED
  BY <1>1, InitFlash, FlashStep, PTL DEF Spec
-----------------------------------------------------------------------------
(* What attempts that were given up leave on the way                       *)

Stage == [s \in FlashSteps |-> CASE s = "EnterBootloader" -> 0
                                 [] s = "EraseApp"        -> 1
                                 [] s = "WriteApp"        -> 2
                                 [] s = "ChecksumApp"     -> 3]
StageOf(word) == CASE word = 241 -> 0 [] word = 243 -> 1 [] word = 245 -> 2 [] OTHER -> 3

\* The steps acknowledged, in the order of arrival at the client if nothing is
\* lost: of the answers on their way, then of the requests.
WayOf(as, rs) == [i \in 1 .. Len(as) + Len(rs) |->
                    IF i <= Len(as) THEN StageOf(as[i].word) ELSE Stage[rs[i - Len(as)].kind]]
Way == WayOf(toHost, toCharger)
OnWay == Len(toHost) + Len(toCharger)

\* The first n of the way w would take a client from step a to step b.
Climbs(w, n, a, b) ==
  \E f \in [a .. b - 1 -> 1 .. n] :
    /\ \A i \in a .. b - 1 : w[f[i]] = i
    /\ \A i, j \in a .. b - 1 : i < j => f[i] < f[j]

\* They would take it no further than g.
Low(w, n, a, g) == \A b \in 0 .. 4 : (a <= b /\ Climbs(w, n, a, b)) => b <= g

\* After the first n of m, the way can be that of one attempt, now at step a: it
\* starts once, and asks for the checksum at the end.
OneAttempt(w, m, n, a) ==
  \A i \in n + 1 .. m : w[i] <= a /\ (w[i] = 0 => i = n + 1) /\ (w[i] = 3 => i = m)
NoSum(w, m, n) == \A i \in n + 1 .. m : w[i] # 3

\* After the first n, all on the way is of the attempt under way.
Mine(n) ==
  /\ OneAttempt(Way, OnWay, n, Stage[step])
  /\ phase = "send" => NoSum(Way, OnWay, n)
  /\ \A i \in DOMAIN toHost :
       (i > n /\ Way[i] = 3 /\ toHost[i].good) => Summed(start, image)
  /\ \A i \in DOMAIN toCharger :
       (Len(toHost) + i > n /\ toCharger[i].kind = "ChecksumApp") => toCharger[i] = Asks

\* What was left over brought the attempt to its step, at most one step for
\* each that was given up, or the attempt heard of its own start.
Behind(n) ==
  /\ Low(Way, n, Stage[step], givenUp)
  /\ (phase = "send" /\ Stage[step] = 0) => n = OnWay
Caught(n) == n = 0 /\ Stage[step] # 0 /\ \A i \in 1 .. OnWay : Way[i] # 0

Left ==
  /\ phase = "idle" => Low(Way, OnWay, 0, givenUp)
  /\ phase # "idle" => \E n \in 0 .. OnWay : Mine(n) /\ (Behind(n) \/ Caught(n))
  /\ outcome = "ok" =>
       phase = "idle" /\ (givenUp <= 3 => Unasked /\ Summed(start, image))
-----------------------------------------------------------------------------
(* Ways, and what is left of one                                           *)

LEMMA StageType ==
  /\ \A s \in FlashSteps : Stage[s] \in 0 .. 3 /\ StageOf(ReplyWord(s)) = Stage[s]
  /\ Stage["EnterBootloader"] = 0 /\ Stage["EraseApp"] = 1
  /\ Stage["WriteApp"] = 2 /\ Stage["ChecksumApp"] = 3
  /\ \A s \in FlashSteps : (Stage[s] = 0 => s = "EnterBootloader")
                           /\ (Stage[s] = 3 <=> s = "ChecksumApp")
  /\ \A word : StageOf(word) \in 0 .. 3
  BY StepWords DEF Stage, StageOf, FlashSteps

\* v is the way w of length m without its place k.
Without(v, w, m, k) ==
  /\ m \in Nat /\ k \in 1 .. m
  /\ \A i \in 1 .. k - 1 : v[i] = w[i]
  /\ \A i \in k .. m - 1 : v[i] = w[i + 1]

\* A part of a way climbs no further than the way.
LEMMA PartOfClimb ==
  ASSUME NEW w, NEW n \in Nat, NEW a \in Nat, NEW b \in Nat, NEW c \in a .. b,
         Climbs(w, n, a, b)
  PROVE  Climbs(w, n, c, b)
<1>1. PICK f \in [a .. b - 1 -> 1 .. n] :
        /\ \A i \in a .. b - 1 : w[f[i]] = i
        /\ \A i, j \in a .. b - 1 : i < j => f[i] < f[j]
  BY DEF Climbs
<1> DEFINE e == [i \in c .. b - 1 |-> f[i]]
<1>2. \A i \in c .. b - 1 : i \in a .. b - 1 /\ e[i] = f[i]
  OBVIOUS
<1>3. e \in [c .. b - 1 -> 1 .. n]
  BY <1>2
<1> HIDE DEF e
<1>4. \A i \in c .. b - 1 : w[e[i]] = i
  BY <1>1, <1>2
<1>5. \A i, j \in c .. b - 1 : i < j => e[i] < e[j]
  BY <1>1, <1>2
<1> QED
  BY <1>3, <1>4, <1>5 DEF Climbs

\* Nothing climbs no step.
LEMMA NoClimb ==
  ASSUME NEW w, NEW n \in Nat, NEW a \in Nat PROVE Climbs(w, n, a, a)
<1> DEFINE f == [i \in a .. a - 1 |-> 1]
<1>1. f \in [a .. a - 1 -> 1 .. n] /\ \A i \in a .. a - 1 : FALSE
  OBVIOUS
<1> HIDE DEF f
<1> QED
  BY <1>1 DEF Climbs

LEMMA LowStep ==
  ASSUME NEW w, NEW n \in Nat, NEW a \in 0 .. 4, NEW g \in Nat, Low(w, n, a, g)
  PROVE  a <= g
  BY NoClimb DEF Low

\* The places of v in w, when v is w without its place k.
LEMMA ClimbOfRest ==
  ASSUME NEW v, NEW w, NEW m, NEW k, Without(v, w, m, k), NEW n \in 0 .. m,
         NEW a \in Nat, NEW b \in Nat,
         Climbs(v, IF k <= n THEN n - 1 ELSE n, a, b)
  PROVE  Climbs(w, n, a, b)
<1> DEFINE q == IF k <= n THEN n - 1 ELSE n
           p(i) == IF i < k THEN i ELSE i + 1
<1>0. m \in Nat /\ k \in 1 .. m /\ q \in Nat
  BY DEF Without
<1>1. PICK f \in [a .. b - 1 -> 1 .. q] :
        /\ \A i \in a .. b - 1 : v[f[i]] = i
        /\ \A i, j \in a .. b - 1 : i < j => f[i] < f[j]
  BY DEF Climbs
<1>2. \A x \in 1 .. q : p(x) \in 1 .. n /\ w[p(x)] = v[x]
  BY <1>0 DEF Without
<1>3. \A x, y \in 1 .. q : x < y => p(x) < p(y)
  BY <1>0
<1>4. \A i \in a .. b - 1 : f[i] \in 1 .. q
  OBVIOUS
<1> HIDE DEF q, p
<1> DEFINE e == [i \in a .. b - 1 |-> p(f[i])]
<1>5. e \in [a .. b - 1 -> 1 .. n]
  BY <1>2, <1>4
<1>6. \A i \in a .. b - 1 : w[e[i]] = i
  BY <1>1, <1>2, <1>4
<1>7. \A i, j \in a .. b - 1 : i < j => e[i] < e[j]
  BY <1>1, <1>3, <1>4
<1> HIDE DEF e
<1> QED
  BY <1>5, <1>6, <1>7 DEF Climbs

LEMMA RestIsLow ==
  ASSUME NEW v, NEW w, NEW m, NEW k, Without(v, w, m, k), NEW n \in 0 .. m,
         NEW a \in 0 .. 3, NEW g \in Nat
  PROVE  LET q == IF k <= n THEN n - 1 ELSE n IN
           /\ q \in 0 .. m - 1
           /\ Low(w, n, a, g) => Low(v, q, a, g)
           /\ OneAttempt(w, m, n, a) => OneAttempt(v, m - 1, q, a)
           /\ NoSum(w, m, n) => NoSum(v, m - 1, q)
           /\ (\A i \in 1 .. m : w[i] # 0) => \A i \in 1 .. m - 1 : v[i] # 0
<1> DEFINE q == IF k <= n THEN n - 1 ELSE n
           p(i) == IF i < k THEN i ELSE i + 1
<1>0. m \in Nat /\ k \in 1 .. m /\ q \in 0 .. m - 1
  BY DEF Without
<1>1. Low(w, n, a, g) => Low(v, q, a, g)
  BY ClimbOfRest DEF Low
<1>2. \A i \in 1 .. m - 1 : p(i) \in 1 .. m /\ v[i] = w[p(i)]
  BY <1>0 DEF Without
<1>3. \A i \in q + 1 .. m - 1 : /\ i \in 1 .. m - 1 /\ p(i) \in n + 1 .. m
                                /\ p(i) = n + 1 => i = q + 1
                                /\ p(i) = m => i = m - 1
  BY <1>0
<1> HIDE DEF p, q
<1>4. OneAttempt(w, m, n, a) => OneAttempt(v, m - 1, q, a)
  BY <1>2, <1>3 DEF OneAttempt
<1>5. NoSum(w, m, n) => NoSum(v, m - 1, q)
  BY <1>2, <1>3 DEF NoSum
<1>6. (\A i \in 1 .. m : w[i] # 0) => \A i \in 1 .. m - 1 : v[i] # 0
  BY <1>2
<1> QED
  BY <1>0, <1>1, <1>4, <1>5, <1>6 DEF q

\* What was left over takes the client one step on.
LEMMA FirstIsTaken ==
  ASSUME NEW v, NEW w, NEW m, Without(v, w, m, 1), NEW n \in 1 .. m,
         NEW a \in 0 .. 3, NEW g \in Nat, w[1] = a, Low(w, n, a, g)
  PROVE  a + 1 <= g /\ Low(v, n - 1, a + 1, g)
<1>1. m \in Nat /\ n - 1 \in Nat
  BY DEF Without
<1>2. ASSUME NEW b \in 0 .. 4, a + 1 <= b, Climbs(v, n - 1, a + 1, b)
      PROVE  b <= g
  <2>1. PICK f \in [a + 1 .. b - 1 -> 1 .. n - 1] :
          /\ \A i \in a + 1 .. b - 1 : v[f[i]] = i
          /\ \A i, j \in a + 1 .. b - 1 : i < j => f[i] < f[j]
    BY <1>2 DEF Climbs
  <2> DEFINE e == [i \in a .. b - 1 |-> IF i = a THEN 1 ELSE f[i] + 1]
  <2>2. \A x \in 1 .. n - 1 : w[x + 1] = v[x]
    BY <1>1 DEF Without
  <2>3. \A i \in a .. b - 1 : i = a \/ i \in a + 1 .. b - 1
    OBVIOUS
  <2>4. \A i \in a + 1 .. b - 1 : i # a /\ i \in a .. b - 1 /\ f[i] \in 1 .. n - 1
    OBVIOUS
  <2>5. a \in a .. b - 1
    BY <1>2
  <2>6. e[a] = 1 /\ \A i \in a + 1 .. b - 1 : e[i] = f[i] + 1
    BY <2>4, <2>5
  <2>7. e \in [a .. b - 1 -> 1 .. n]
    BY <2>3, <2>4
  <2> HIDE DEF e
  <2>8. \A i \in a .. b - 1 : w[e[i]] = i
    <3>1. \A i \in a + 1 .. b - 1 : w[f[i] + 1] = i
      BY <2>1, <2>2, <2>4
    <3> QED
      BY <2>3, <2>6, <3>1
  <2>9. \A i, j \in a .. b - 1 : i < j => e[i] < e[j]
    <3> SUFFICES ASSUME NEW i \in a .. b - 1, NEW j \in a .. b - 1, i < j PROVE e[i] < e[j]
      OBVIOUS
    <3>1. j \in a + 1 .. b - 1 /\ e[j] = f[j] + 1 /\ f[j] \in 1 .. n - 1
      BY <2>4, <2>6
    <3>2. CASE i = a
      BY <2>6, <3>1, <3>2
    <3>3. CASE i \in a + 1 .. b - 1
      BY <2>1, <2>4, <2>6, <3>1, <3>3
    <3> QED
      BY <2>3, <3>2, <3>3
  <2>10. Climbs(w, n, a, b)
    BY <2>7, <2>8, <2>9 DEF Climbs
  <2> QED
    BY <1>2, <2>10 DEF Low
<1>3. Low(v, n - 1, a + 1, g)
  BY <1>2 DEF Low
<1>4. a + 1 \in 0 .. 4
  OBVIOUS
<1>5. a + 1 <= g
  BY <1>1, <1>3, <1>4, LowStep
<1> QED
  BY <1>3, <1>5

\* Whatever an attempt adds to the way, it takes the next one to no step that
\* this one did not reach itself.
LEMMA EndIsLow ==
  ASSUME NEW w, NEW m \in Nat, NEW n \in 0 .. m, NEW a \in 0 .. 3, NEW g \in Nat,
         NEW h \in Nat, OneAttempt(w, m, n, a), Low(w, n, a, g), g <= h, a + 1 <= h
  PROVE  Low(w, m, 0, h)
<1> SUFFICES ASSUME NEW b \in 0 .. 4, Climbs(w, m, 0, b), b > a + 1 PROVE b <= h
  BY DEF Low
<1>1. PICK f \in [0 .. b - 1 -> 1 .. m] :
        /\ \A i \in 0 .. b - 1 : w[f[i]] = i
        /\ \A i, j \in 0 .. b - 1 : i < j => f[i] < f[j]
  BY DEF Climbs
<1>2. b - 1 \in 0 .. b - 1 /\ w[f[b - 1]] = b - 1 /\ f[b - 1] \in 1 .. m
  BY <1>1
<1>3. f[b - 1] <= n
  <2> SUFFICES ASSUME f[b - 1] \in n + 1 .. m PROVE FALSE
    BY <1>2
  <2> QED
    BY <1>2 DEF OneAttempt
<1>4. \A i \in 0 .. b - 1 : f[i] \in 1 .. n
  <2> SUFFICES ASSUME NEW i \in 0 .. b - 1 PROVE f[i] \in 1 .. n
    OBVIOUS
  <2>1. f[i] \in 1 .. m /\ (i < b - 1 => f[i] < f[b - 1])
    BY <1>1, <1>2
  <2>2. i = b - 1 \/ i < b - 1
    OBVIOUS
  <2> QED
    BY <1>2, <1>3, <2>1, <2>2
<1>5. f \in [0 .. b - 1 -> 1 .. n]
  BY <1>4
<1>6. Climbs(w, n, 0, b)
  BY <1>1, <1>5 DEF Climbs
<1>7. Climbs(w, n, a, b)
  BY <1>6, PartOfClimb
<1> QED
  BY <1>7 DEF Low

\* Nothing starts on a way without an answer to the first step.
LEMMA NoStart ==
  ASSUME NEW w, NEW m \in Nat, NEW g \in Nat, \A i \in 1 .. m : w[i] # 0
  PROVE  Low(w, m, 0, g)
<1> SUFFICES ASSUME NEW b \in 1 .. 4, Climbs(w, m, 0, b) PROVE FALSE
  BY DEF Low
<1>1. PICK f \in [0 .. b - 1 -> 1 .. m] : \A i \in 0 .. b - 1 : w[f[i]] = i
  BY DEF Climbs
<1> QED
  BY <1>1

\* What does not change the first n of a way.
LEMMA SameIsLow ==
  ASSUME NEW v, NEW w, NEW n \in Nat, \A i \in 1 .. n : v[i] = w[i],
         NEW a \in Nat, NEW g \in Nat, Low(w, n, a, g)
  PROVE  Low(v, n, a, g)
<1> SUFFICES ASSUME NEW b \in 0 .. 4, a <= b, Climbs(v, n, a, b) PROVE Climbs(w, n, a, b)
  BY DEF Low
<1>1. PICK f \in [a .. b - 1 -> 1 .. n] :
        /\ \A i \in a .. b - 1 : v[f[i]] = i
        /\ \A i, j \in a .. b - 1 : i < j => f[i] < f[j]
  BY DEF Climbs
<1>2. \A i \in a .. b - 1 : w[f[i]] = i
  BY <1>1
<1> QED
  BY <1>1, <1>2 DEF Climbs
-----------------------------------------------------------------------------
(* What the steps do to the way                                            *)

LEMMA Queue ==
  ASSUME NEW T, NEW s \in Seq(T)
  PROVE  /\ Len(s) \in Nat /\ DOMAIN s = 1 .. Len(s)
         /\ \A i \in 1 .. Len(s) : s[i] \in T
         /\ s # <<>> => /\ Len(s) > 0 /\ Head(s) = s[1]
                        /\ Tail(s) \in Seq(T) /\ Len(Tail(s)) = Len(s) - 1
                        /\ \A i \in 1 .. Len(s) - 1 : Tail(s)[i] = s[i + 1]
  BY HeadTailProperties

LEMMA LongerQueue ==
  ASSUME NEW T, NEW s \in Seq(T), NEW x \in T
  PROVE  /\ Append(s, x) \in Seq(T) /\ Len(Append(s, x)) = Len(s) + 1
         /\ \A i \in 1 .. Len(s) : Append(s, x)[i] = s[i]
         /\ Append(s, x)[Len(s) + 1] = x
  BY AppendProperties

\* A place on the way is one of an answer or one of a request.
LEMMA Places ==
  ASSUME NEW F \in Nat, NEW R \in Nat, NEW i \in 1 .. F + R
  PROVE  i \in 1 .. F \/ \E k \in 1 .. R : i = F + k
<1>1. CASE i \in 1 .. F
  BY <1>1
<1>2. CASE i \notin 1 .. F
  <2>1. i - F \in 1 .. R /\ i = F + (i - F)
    BY <1>2
  <2> QED
    BY <2>1
<1> QED
  BY <1>1, <1>2

\* The stage of a place on the way is that of an answer's word or of a request.
IsWay(w, as, rs) ==
  /\ \A i \in 1 .. Len(as) : w[i] = StageOf(as[i].word)
  /\ \A i \in 1 .. Len(rs) : w[Len(as) + i] = Stage[rs[i].kind]

LEMMA WayParts ==
  ASSUME NEW as \in Seq(Answering), NEW rs \in Seq(Asking)
  PROVE  /\ IsWay(WayOf(as, rs), as, rs)
         /\ \A i \in 1 .. Len(as) + Len(rs) : WayOf(as, rs)[i] \in 0 .. 3
<1> DEFINE F == Len(as)
           R == Len(rs)
           w == WayOf(as, rs)
<1>1. F \in Nat /\ R \in Nat /\ \A i \in 1 .. R : rs[i] \in Asking
  BY Queue
<1>2. w = [i \in 1 .. F + R |-> IF i <= F THEN StageOf(as[i].word) ELSE Stage[rs[i - F].kind]]
  BY DEF WayOf
<1> HIDE DEF F, R, w
<1>3. ASSUME NEW i \in 1 .. F PROVE w[i] = StageOf(as[i].word)
  <2>1. i \in 1 .. F + R /\ i <= F
    BY <1>1
  <2> QED
    BY <1>2, <2>1
<1>4. ASSUME NEW i \in 1 .. R PROVE w[F + i] = Stage[rs[i].kind]
  <2>1. F + i \in 1 .. F + R /\ ~(F + i <= F) /\ (F + i) - F = i
    BY <1>1
  <2> QED
    BY <1>2, <2>1
<1>5. ASSUME NEW i \in 1 .. F + R PROVE w[i] \in 0 .. 3
  <2>1. CASE i \in 1 .. F
    <3>1. StageOf(as[i].word) \in 0 .. 3
      BY StageType
    <3> QED
      BY <1>3, <2>1, <3>1
  <2>2. ASSUME NEW k \in 1 .. R, i = F + k PROVE w[i] \in 0 .. 3
    <3>1. Stage[rs[k].kind] \in 0 .. 3
      BY <1>1, StageType DEF Asking
    <3> QED
      BY <1>4, <2>2, <3>1
  <2> QED
    BY <1>1, <2>1, <2>2, Places
<1> QED
  BY <1>3, <1>4, <1>5 DEF F, R, w, IsWay

\* An answer arrives, or is lost.
LEMMA AnswerGone ==
  ASSUME NEW as \in Seq(Answering), NEW rs \in Seq(Asking), as # <<>>
  PROVE  /\ Without(WayOf(Tail(as), rs), WayOf(as, rs), Len(as) + Len(rs), 1)
         /\ Len(Tail(as)) + Len(rs) = (Len(as) + Len(rs)) - 1
<1> DEFINE F == Len(as)
           R == Len(rs)
           v == WayOf(Tail(as), rs)
           w == WayOf(as, rs)
<1>1. /\ F \in Nat /\ F > 0 /\ R \in Nat /\ Len(Tail(as)) = F - 1 /\ Tail(as) \in Seq(Answering)
      /\ \A i \in 1 .. F - 1 : Tail(as)[i] = as[i + 1]
  BY Queue
<1>2. /\ \A i \in 1 .. F - 1 : v[i] = StageOf(as[i + 1].word)
      /\ \A i \in 1 .. R : v[(F - 1) + i] = Stage[rs[i].kind]
  <2>1. IsWay(v, Tail(as), rs)
    BY <1>1, WayParts
  <2> HIDE DEF v
  <2> QED
    BY <1>1, <2>1 DEF IsWay
<1>3. /\ \A i \in 1 .. F : w[i] = StageOf(as[i].word)
      /\ \A i \in 1 .. R : w[F + i] = Stage[rs[i].kind]
  <2>1. IsWay(w, as, rs)
    BY WayParts
  <2> HIDE DEF w
  <2> QED
    BY <2>1 DEF IsWay
<1> HIDE DEF F, R, v, w
<1>4. ASSUME NEW i \in 1 .. (F - 1) + R PROVE v[i] = w[i + 1]
  <2>1. CASE i \in 1 .. F - 1
    <3>1. i + 1 \in 1 .. F
      BY <1>1, <2>1
    <3> QED
      BY <1>2, <1>3, <2>1, <3>1
  <2>2. ASSUME NEW k \in 1 .. R, i = (F - 1) + k PROVE v[i] = w[i + 1]
    <3>1. i + 1 = F + k
      BY <1>1, <2>2
    <3> QED
      BY <1>2, <1>3, <2>2, <3>1
  <2>3. F - 1 \in Nat
    BY <1>1
  <2>4. i \in 1 .. F - 1 \/ \E k \in 1 .. R : i = (F - 1) + k
    BY <1>1, <2>3, Places
  <2> QED
    BY <2>1, <2>2, <2>4
<1>5. (F - 1) + R = (F + R) - 1 /\ F + R \in Nat /\ 1 \in 1 .. F + R
  BY <1>1
<1>6. \A i \in 1 .. (F + R) - 1 : v[i] = w[i + 1]
  BY <1>4, <1>5
<1>7. Without(v, w, F + R, 1)
  BY <1>5, <1>6 DEF Without
<1> QED
  BY <1>1, <1>5, <1>7 DEF F, R, v, w

\* A request is lost.
LEMMA RequestGone ==
  ASSUME NEW as \in Seq(Answering), NEW rs \in Seq(Asking), rs # <<>>
  PROVE  /\ Without(WayOf(as, Tail(rs)), WayOf(as, rs), Len(as) + Len(rs), Len(as) + 1)
         /\ Len(as) + Len(Tail(rs)) = (Len(as) + Len(rs)) - 1
<1> DEFINE F == Len(as)
           R == Len(rs)
           v == WayOf(as, Tail(rs))
           w == WayOf(as, rs)
<1>1. /\ F \in Nat /\ R \in Nat /\ R > 0 /\ Len(Tail(rs)) = R - 1 /\ Tail(rs) \in Seq(Asking)
      /\ \A i \in 1 .. R - 1 : Tail(rs)[i] = rs[i + 1]
  BY Queue
<1>2. /\ \A i \in 1 .. F : v[i] = StageOf(as[i].word)
      /\ \A i \in 1 .. R - 1 : v[F + i] = Stage[rs[i + 1].kind]
  <2>1. IsWay(v, as, Tail(rs))
    BY <1>1, WayParts
  <2> HIDE DEF v
  <2> QED
    BY <1>1, <2>1 DEF IsWay
<1>3. /\ \A i \in 1 .. F : w[i] = StageOf(as[i].word)
      /\ \A i \in 1 .. R : w[F + i] = Stage[rs[i].kind]
  <2>1. IsWay(w, as, rs)
    BY WayParts
  <2> HIDE DEF w
  <2> QED
    BY <2>1 DEF IsWay
<1> HIDE DEF F, R, v, w
<1>4. \A i \in 1 .. F : v[i] = w[i]
  BY <1>2, <1>3
<1>5. ASSUME NEW i \in F + 1 .. (F + R) - 1 PROVE v[i] = w[i + 1]
  <2> DEFINE k == i - F
  <2>1. k \in 1 .. R - 1 /\ i = F + k /\ i + 1 = F + (k + 1) /\ k + 1 \in 1 .. R
    BY <1>1
  <2> HIDE DEF k
  <2> QED
    BY <1>2, <1>3, <2>1
<1>6. F + (R - 1) = (F + R) - 1 /\ F + R \in Nat /\ F + 1 \in 1 .. F + R /\ (F + 1) - 1 = F
  BY <1>1
<1> QED
  BY <1>1, <1>4, <1>5, <1>6 DEF Without, F, R, v, w

\* A request is answered: its answer takes its place.
LEMMA RequestServed ==
  ASSUME NEW as \in Seq(Answering), NEW rs \in Seq(Asking), rs # <<>>,
         NEW x \in Answering, x.word = ReplyWord(Head(rs).kind)
  PROVE  /\ \A i \in 1 .. Len(as) + Len(rs) :
              WayOf(Append(as, x), Tail(rs))[i] = WayOf(as, rs)[i]
         /\ Len(Append(as, x)) + Len(Tail(rs)) = Len(as) + Len(rs)
<1> DEFINE F == Len(as)
           R == Len(rs)
           bs == Append(as, x)
           v == WayOf(bs, Tail(rs))
           w == WayOf(as, rs)
<1>1. /\ F \in Nat /\ R \in Nat /\ R > 0 /\ Len(Tail(rs)) = R - 1 /\ Tail(rs) \in Seq(Asking)
      /\ \A i \in 1 .. R - 1 : Tail(rs)[i] = rs[i + 1]
      /\ bs \in Seq(Answering) /\ Len(bs) = F + 1 /\ bs[F + 1] = x
      /\ \A i \in 1 .. F : bs[i] = as[i]
      /\ Head(rs) = rs[1] /\ rs[1] \in Asking
  <2>1. /\ F \in Nat /\ R \in Nat /\ R > 0 /\ Len(Tail(rs)) = R - 1 /\ Tail(rs) \in Seq(Asking)
        /\ \A i \in 1 .. R - 1 : Tail(rs)[i] = rs[i + 1]
        /\ Head(rs) = rs[1]
    BY Queue
  <2>2. rs[1] \in Asking
    <3>1. 1 \in 1 .. R
      BY <2>1
    <3> QED
      BY <3>1, Queue
  <2>3. /\ bs \in Seq(Answering) /\ Len(bs) = F + 1 /\ bs[F + 1] = x
        /\ \A i \in 1 .. F : bs[i] = as[i]
    <3> HIDE DEF v, w, R
    <3> QED
      BY ZenonT(40), LongerQueue
  <2> HIDE DEF bs
  <2> QED
    BY <2>1, <2>2, <2>3
<1>2. StageOf(x.word) = Stage[rs[1].kind]
  BY <1>1, StageType DEF Asking
<1> HIDE DEF bs
<1>3. /\ \A i \in 1 .. F + 1 : v[i] = StageOf(bs[i].word)
      /\ \A i \in 1 .. R - 1 : v[(F + 1) + i] = Stage[rs[i + 1].kind]
  <2>1. IsWay(v, bs, Tail(rs))
    BY <1>1, WayParts
  <2> HIDE DEF v
  <2> QED
    BY <1>1, <2>1 DEF IsWay
<1>4. /\ \A i \in 1 .. F : w[i] = StageOf(as[i].word)
      /\ \A i \in 1 .. R : w[F + i] = Stage[rs[i].kind]
  <2>1. IsWay(w, as, rs)
    BY WayParts
  <2> HIDE DEF w
  <2> QED
    BY <2>1 DEF IsWay
<1> HIDE DEF F, R, v, w
<1>5. ASSUME NEW i \in 1 .. F + R PROVE v[i] = w[i]
  <2>1. CASE i \in 1 .. F
    <3>1. i \in 1 .. F + 1
      BY <1>1, <2>1
    <3> QED
      BY <1>1, <1>3, <1>4, <2>1, <3>1
  <2>2. ASSUME NEW k \in 1 .. R, i = F + k PROVE v[i] = w[i]
    <3>1. CASE k = 1
      <4>1. F + 1 \in 1 .. F + 1 /\ 1 \in 1 .. R
        BY <1>1
      <4> QED
        BY <1>1, <1>2, <1>3, <1>4, <2>2, <3>1, <4>1
    <3>2. CASE k # 1
      <4> DEFINE j == k - 1
      <4>1. j \in 1 .. R - 1 /\ (F + 1) + j = F + k /\ j + 1 = k
        BY <1>1, <3>2
      <4> HIDE DEF j
      <4> QED
        BY <1>3, <1>4, <2>2, <4>1
    <3> QED
      BY <3>1, <3>2
  <2> QED
    BY <1>1, <2>1, <2>2, Places
<1>6. (F + 1) + (R - 1) = F + R
  BY <1>1
<1> QED
  BY <1>1, <1>5, <1>6 DEF F, R, v, w, bs

\* A request is sent.
LEMMA RequestSent ==
  ASSUME NEW as \in Seq(Answering), NEW rs \in Seq(Asking), NEW q \in Asking
  PROVE  /\ \A i \in 1 .. Len(as) + Len(rs) : WayOf(as, Append(rs, q))[i] = WayOf(as, rs)[i]
         /\ WayOf(as, Append(rs, q))[Len(as) + Len(rs) + 1] = Stage[q.kind]
         /\ Len(as) + Len(Append(rs, q)) = Len(as) + Len(rs) + 1
<1> DEFINE F == Len(as)
           R == Len(rs)
           ss == Append(rs, q)
           v == WayOf(as, ss)
           w == WayOf(as, rs)
<1>1. /\ F \in Nat /\ R \in Nat /\ ss \in Seq(Asking) /\ Len(ss) = R + 1 /\ ss[R + 1] = q
      /\ \A i \in 1 .. R : ss[i] = rs[i]
  <2>1. F \in Nat /\ R \in Nat
    BY Queue
  <2>2. /\ ss \in Seq(Asking) /\ Len(ss) = R + 1 /\ ss[R + 1] = q
        /\ \A i \in 1 .. R : ss[i] = rs[i]
    BY LongerQueue
  <2> QED
    BY <2>1, <2>2
<1> HIDE DEF ss
<1>2. /\ \A i \in 1 .. F : v[i] = StageOf(as[i].word)
      /\ \A i \in 1 .. R + 1 : v[F + i] = Stage[ss[i].kind]
  <2>1. IsWay(v, as, ss)
    BY <1>1, WayParts
  <2> HIDE DEF v
  <2> QED
    BY <1>1, <2>1 DEF IsWay
<1>3. /\ \A i \in 1 .. F : w[i] = StageOf(as[i].word)
      /\ \A i \in 1 .. R : w[F + i] = Stage[rs[i].kind]
  <2>1. IsWay(w, as, rs)
    BY WayParts
  <2> HIDE DEF w
  <2> QED
    BY <2>1 DEF IsWay
<1> HIDE DEF F, R, v, w
<1>4. ASSUME NEW i \in 1 .. F + R PROVE v[i] = w[i]
  <2>1. CASE i \in 1 .. F
    BY <1>2, <1>3, <2>1
  <2>2. ASSUME NEW k \in 1 .. R, i = F + k PROVE v[i] = w[i]
    <3>1. k \in 1 .. R + 1
      BY <1>1
    <3> QED
      BY <1>1, <1>2, <1>3, <2>2, <3>1
  <2> QED
    BY <1>1, <2>1, <2>2, Places
<1>5. v[F + R + 1] = Stage[q.kind]
  <2>1. R + 1 \in 1 .. R + 1 /\ F + R + 1 = F + (R + 1)
    BY <1>1
  <2> QED
    BY <1>1, <1>2, <2>1
<1>6. F + (R + 1) = F + R + 1
  BY <1>1
<1> QED
  BY <1>1, <1>4, <1>5, <1>6 DEF F, R, v, w, ss
-----------------------------------------------------------------------------
(* What is left, step by step                                              *)

LEMMA OnTheWay ==
  ASSUME TypeInv
  PROVE  /\ toHost \in Seq(Answering) /\ toCharger \in Seq(Asking)
         /\ OnWay \in Nat /\ Stage[step] \in 0 .. 3 /\ givenUp \in Nat
         /\ Len(toHost) \in Nat /\ Len(toCharger) \in Nat
         /\ DOMAIN toHost = 1 .. Len(toHost) /\ DOMAIN toCharger = 1 .. Len(toCharger)
<1>1. toHost \in Seq(Answering) /\ toCharger \in Seq(Asking)
  BY DEF TypeInv, TypeOK, Answering, Asking
<1>2. Len(toHost) \in Nat /\ Len(toCharger) \in Nat
  BY <1>1, Queue
<1>3. OnWay \in Nat
  BY <1>2 DEF OnWay
<1>4. Stage[step] \in 0 .. 3 /\ givenUp \in Nat
  BY StageType DEF TypeInv, TypeOK
<1>5. DOMAIN toHost = 1 .. Len(toHost) /\ DOMAIN toCharger = 1 .. Len(toCharger)
  BY <1>1, Queue
<1> QED
  BY <1>1, <1>2, <1>3, <1>4, <1>5

\* Where the answers and the requests on the way have their places.
LEMMA PlaceOnWay ==
  ASSUME TypeInv
  PROVE  /\ \A i \in DOMAIN toHost : i \in 1 .. OnWay /\ Way[i] = StageOf(toHost[i].word)
         /\ \A i \in DOMAIN toCharger : /\ Len(toHost) + i \in 1 .. OnWay
                                        /\ Way[Len(toHost) + i] = Stage[toCharger[i].kind]
         /\ \A i \in 1 .. OnWay : Way[i] \in 0 .. 3
<1>1. IsWay(Way, toHost, toCharger) /\ \A i \in 1 .. OnWay : Way[i] \in 0 .. 3
  BY OnTheWay, WayParts DEF Way, OnWay
<1>2. \A i \in 1 .. Len(toHost) : i \in 1 .. OnWay
  BY OnTheWay DEF OnWay
<1>3. \A i \in 1 .. Len(toCharger) : Len(toHost) + i \in 1 .. OnWay
  BY OnTheWay DEF OnWay
<1> QED
  BY <1>1, <1>2, <1>3, OnTheWay DEF IsWay

\* When an attempt ends, what is on the way takes the next no further than the
\* attempts given up, this one counted, or than it came itself.
LEMMA EndsLow ==
  ASSUME NEW w, NEW m \in Nat, NEW n \in 0 .. m, NEW a \in 0 .. 3, NEW g \in Nat,
         NEW h \in Nat, g <= h, OneAttempt(w, m, n, a),
         \/ Low(w, n, a, g) /\ (a + 1 <= h \/ h = g + 1)
         \/ \A i \in 1 .. m : w[i] # 0
  PROVE  Low(w, m, 0, h)
<1>1. CASE Low(w, n, a, g) /\ (a + 1 <= h \/ h = g + 1)
  <2>1. a <= g
    BY <1>1, LowStep
  <2>2. a + 1 <= h
    BY <1>1, <2>1
  <2> QED
    BY <1>1, <2>2, EndIsLow
<1>2. CASE \A i \in 1 .. m : w[i] # 0
  BY <1>2, NoStart
<1> QED
  BY <1>1, <1>2

\* A request of this attempt goes to the end of the way.
LEMMA SentLeft ==
  ASSUME TypeInv, phase = "send", NEW n \in 0 .. OnWay, Mine(n), Behind(n) \/ Caught(n),
         toCharger' = Append(toCharger, Asks),
         UNCHANGED <<toHost, step, index, image, start, memory>>
  PROVE  /\ n \in 0 .. OnWay' /\ OnWay' \in Nat
         /\ OneAttempt(Way', OnWay', n, Stage[step])
         /\ Low(Way, n, Stage[step], givenUp) => Low(Way', n, Stage[step], givenUp)
         /\ Caught(n) => Caught(n)'
         /\ phase' = "wait" => Mine(n)'
<1> DEFINE a == Stage[step]
           m == OnWay
<1>1. Asks \in Asking /\ Asks.kind = step /\ Asks' = Asks
  BY AsksType DEF TypeInv, Asks
<1>2. /\ m \in Nat /\ a \in 0 .. 3 /\ toHost \in Seq(Answering) /\ toCharger \in Seq(Asking)
      /\ givenUp \in Nat /\ n \in Nat
  BY OnTheWay
<1>3. /\ \A i \in 1 .. m : Way'[i] = Way[i]
      /\ Way'[m + 1] = a /\ OnWay' = m + 1
  BY <1>1, <1>2, RequestSent DEF Way, OnWay
<1>4. NoSum(Way, m, n) /\ OneAttempt(Way, m, n, a)
  BY DEF Mine
<1>5. a = 0 => n = m
  BY DEF Behind, Caught
<1> HIDE DEF a, m
<1>6. n \in 0 .. m /\ n \in 0 .. OnWay' /\ OnWay' \in Nat
  BY <1>2, <1>3 DEF m
<1>7. OneAttempt(Way', OnWay', n, a)
  <2> SUFFICES ASSUME NEW i \in n + 1 .. m + 1
               PROVE  Way'[i] <= a /\ (Way'[i] = 0 => i = n + 1) /\ (Way'[i] = 3 => i = m + 1)
    BY <1>3 DEF OneAttempt
  <2>1. CASE i = m + 1
    BY <1>2, <1>3, <1>5, <2>1
  <2>2. CASE i \in n + 1 .. m
    <3>1. i \in 1 .. m
      BY <1>2, <2>2
    <3>2. Way[i] <= a /\ (Way[i] = 0 => i = n + 1) /\ Way[i] # 3
      BY <1>4, <2>2 DEF OneAttempt, NoSum
    <3> QED
      BY <1>3, <3>1, <3>2
  <2> QED
    BY <1>2, <1>6, <2>1, <2>2
<1>8. Low(Way, n, a, givenUp) => Low(Way', n, a, givenUp)
  <2>1. \A i \in 1 .. n : Way'[i] = Way[i]
    BY <1>2, <1>3, <1>6
  <2>2. a \in Nat
    BY <1>2
  <2> DEFINE v == Way'
  <2>3. \A i \in 1 .. n : v[i] = Way[i]
    BY <2>1
  <2> HIDE DEF v
  <2>4. Low(Way, n, a, givenUp) => Low(v, n, a, givenUp)
    BY <1>2, <2>2, <2>3, SameIsLow
  <2> QED
    BY <2>4 DEF v
<1>9. Caught(n) => Caught(n)'
  <2> SUFFICES ASSUME Caught(n) PROVE Caught(n)'
    OBVIOUS
  <2>1. n = 0 /\ a # 0 /\ \A i \in 1 .. m : Way[i] # 0
    BY DEF Caught, a, m
  <2>2. ASSUME NEW i \in 1 .. m + 1 PROVE Way'[i] # 0
    <3>1. i = m + 1 \/ i \in 1 .. m
      BY <1>2
    <3> QED
      BY <1>3, <2>1, <3>1
  <2> QED
    BY <1>3, <2>1, <2>2 DEF Caught, a
<1>10. ASSUME phase' = "wait" PROVE Mine(n)'
  <2>1. ASSUME NEW i \in DOMAIN toHost, i > n PROVE Way'[i] # 3
    <3>1. i \in 1 .. m /\ i \in n + 1 .. m
      BY <1>2, <1>6, <2>1, PlaceOnWay, OnTheWay DEF m
    <3> QED
      BY <1>3, <1>4, <3>1 DEF NoSum
  <2>2. ASSUME NEW i \in DOMAIN toCharger', Len(toHost) + i > n,
               toCharger'[i].kind = "ChecksumApp"
        PROVE  toCharger'[i] = Asks
    <3> DEFINE R == Len(toCharger)
    <3>1. /\ R \in Nat /\ DOMAIN toCharger = 1 .. R
          /\ DOMAIN toCharger' = 1 .. R + 1 /\ toCharger'[R + 1] = Asks
          /\ \A k \in 1 .. R : toCharger'[k] = toCharger[k]
      BY <1>1, <1>2, Queue, LongerQueue
    <3> HIDE DEF R
    <3>2. CASE i = R + 1
      BY <3>1, <3>2
    <3>3. CASE i \in 1 .. R
      <4>1. toCharger'[i] = toCharger[i] /\ i \in DOMAIN toCharger
        BY <3>1, <3>3
      <4> QED
        BY <2>2, <4>1 DEF Mine
    <3> QED
      BY <3>1, <3>2, <3>3
  <2> QED
    BY <1>1, <1>7, <1>10, <2>1, <2>2 DEF Mine, a
<1> QED
  BY <1>6, <1>7, <1>8, <1>9, <1>10 DEF a

\* The first answer on its way is gone.
LEMMA AnswerLeft ==
  ASSUME TypeInv, toHost # <<>>, NEW n \in 0 .. OnWay, Mine(n),
         toHost' = Tail(toHost), UNCHANGED toCharger
  PROVE  LET q == IF 1 <= n THEN n - 1 ELSE n IN
           /\ OnWay' = OnWay - 1 /\ Without(Way', Way, OnWay, 1) /\ q \in 0 .. OnWay'
           /\ OnWay' \in Nat
           /\ OneAttempt(Way', OnWay', q, Stage[step])
           /\ NoSum(Way, OnWay, n) => NoSum(Way', OnWay', q)
           /\ Low(Way, n, Stage[step], givenUp) => Low(Way', q, Stage[step], givenUp)
           /\ (UNCHANGED <<phase, step, index, image, start, memory>>) => Mine(q)'
<1> DEFINE q == IF 1 <= n THEN n - 1 ELSE n
           F == Len(toHost)
<1>1. /\ toHost \in Seq(Answering) /\ toCharger \in Seq(Asking) /\ OnWay \in Nat
      /\ Stage[step] \in 0 .. 3 /\ givenUp \in Nat /\ F \in Nat
  BY OnTheWay
<1>2. Without(Way', Way, OnWay, 1) /\ OnWay' = OnWay - 1
  BY <1>1, AnswerGone DEF Way, OnWay
<1>3. /\ q \in 0 .. OnWay - 1
      /\ Low(Way, n, Stage[step], givenUp) => Low(Way', q, Stage[step], givenUp)
      /\ OneAttempt(Way, OnWay, n, Stage[step]) => OneAttempt(Way', OnWay - 1, q, Stage[step])
      /\ NoSum(Way, OnWay, n) => NoSum(Way', OnWay - 1, q)
  BY <1>1, <1>2, RestIsLow
<1>4. OnWay - 1 \in Nat
  BY <1>1, <1>3
<1>5. /\ DOMAIN toHost = 1 .. F /\ DOMAIN toHost' = 1 .. F - 1 /\ Len(toHost') = F - 1
      /\ \A i \in 1 .. F - 1 : toHost'[i] = toHost[i + 1]
  BY <1>1, Queue
<1>6. ASSUME UNCHANGED <<phase, step, index, image, start, memory>> PROVE Mine(q)'
  <2>1. Asks' = Asks /\ (Summed(start, image)' <=> Summed(start, image))
    BY <1>6 DEF Asks, Summed
  <2>2. ASSUME NEW i \in DOMAIN toHost', i > q, Way'[i] = 3, toHost'[i].good
        PROVE  Summed(start, image)
    <3>1. i + 1 \in DOMAIN toHost /\ i + 1 > n /\ toHost'[i] = toHost[i + 1] /\ i \in 1 .. F - 1
      BY <1>1, <1>5, <2>2
    <3>2. i \in 1 .. OnWay - 1
      BY <1>1, <3>1, PlaceOnWay
    <3>3. Way'[i] = Way[i + 1]
      BY <1>2, <3>2 DEF Without
    <3> QED
      BY <2>2, <3>1, <3>3 DEF Mine
  <2>3. ASSUME NEW i \in DOMAIN toCharger, Len(toHost') + i > q, toCharger[i].kind = "ChecksumApp"
        PROVE  toCharger[i] = Asks
    <3>1. F + i > n
      BY <1>1, <1>5, <2>3, OnTheWay
    <3> QED
      BY <2>3, <3>1 DEF Mine
  <2> HIDE DEF q, F
  <2>4. phase' = "send" => NoSum(Way', OnWay', q)
    BY <1>2, <1>3, <1>6 DEF Mine
  <2>5. OneAttempt(Way', OnWay', q, Stage[step'])
    BY <1>2, <1>3, <1>6 DEF Mine
  <2> QED
    BY <2>1, <2>2, <2>3, <2>4, <2>5 DEF Mine
<1> HIDE DEF q
<1> QED
  BY <1>2, <1>3, <1>4, <1>6 DEF Mine, q

\* The first request on its way is lost.
LEMMA RequestLeft ==
  ASSUME TypeInv, toCharger # <<>>, NEW n \in 0 .. OnWay, Mine(n),
         toCharger' = Tail(toCharger),
         UNCHANGED <<toHost, phase, step, index, image, start, memory>>
  PROVE  /\ OnWay' = OnWay - 1 /\ Without(Way', Way, OnWay, Len(toHost) + 1)
         /\ \E q \in 0 .. OnWay' :
              /\ Mine(q)' /\ (n = OnWay => q = OnWay') /\ (n = 0 => q = 0)
              /\ Low(Way, n, Stage[step], givenUp) => Low(Way', q, Stage[step], givenUp)
<1> DEFINE F == Len(toHost)
           R == Len(toCharger)
<1>1. /\ toHost \in Seq(Answering) /\ toCharger \in Seq(Asking) /\ OnWay \in Nat
      /\ Stage[step] \in 0 .. 3 /\ givenUp \in Nat /\ F \in Nat /\ R \in Nat
      /\ DOMAIN toHost = 1 .. F
  BY OnTheWay
<1>2. Without(Way', Way, OnWay, F + 1) /\ OnWay' = OnWay - 1
  BY <1>1, RequestGone DEF Way, OnWay
<1>0. PICK q \in Int : q = IF F + 1 <= n THEN n - 1 ELSE n
  OBVIOUS
<1>3. /\ q \in 0 .. OnWay - 1
      /\ Low(Way, n, Stage[step], givenUp) => Low(Way', q, Stage[step], givenUp)
      /\ OneAttempt(Way, OnWay, n, Stage[step]) => OneAttempt(Way', OnWay - 1, q, Stage[step])
      /\ NoSum(Way, OnWay, n) => NoSum(Way', OnWay - 1, q)
  BY <1>0, <1>1, <1>2, RestIsLow
<1>4. /\ DOMAIN toCharger = 1 .. R /\ DOMAIN toCharger' = 1 .. R - 1
      /\ \A i \in 1 .. R - 1 : toCharger'[i] = toCharger[i + 1]
  BY <1>1, Queue
<1>5. Asks' = Asks /\ (Summed(start, image)' <=> Summed(start, image))
  BY DEF Asks, Summed
<1>6. ASSUME NEW i \in DOMAIN toHost, i > q, Way'[i] = 3, toHost[i].good
      PROVE  Summed(start, image)
  <2>1. i \in 1 .. F /\ i > n
    BY <1>0, <1>1, <1>6
  <2>2. i \in 1 .. (F + 1) - 1
    BY <1>1, <2>1
  <2>3. Way'[i] = Way[i]
    BY <1>2, <2>2 DEF Without
  <2> QED
    BY <1>6, <2>1, <2>3 DEF Mine
<1>7. ASSUME NEW i \in DOMAIN toCharger', F + i > q, toCharger'[i].kind = "ChecksumApp"
      PROVE  toCharger'[i] = Asks
  <2>1. i + 1 \in DOMAIN toCharger /\ F + (i + 1) > n /\ toCharger'[i] = toCharger[i + 1]
    BY <1>0, <1>1, <1>4, <1>7
  <2> QED
    BY <1>7, <2>1 DEF Mine
<1>8. /\ OneAttempt(Way', OnWay', q, Stage[step'])
      /\ phase' = "send" => NoSum(Way', OnWay', q)
  BY <1>2, <1>3 DEF Mine
<1>9. Mine(q)'
  <2>1. \A i \in DOMAIN toHost' :
          (i > q /\ Way'[i] = 3 /\ toHost'[i].good) => Summed(start, image)'
    BY <1>5, <1>6
  <2>2. \A i \in DOMAIN toCharger' :
          (Len(toHost') + i > q /\ toCharger'[i].kind = "ChecksumApp") => toCharger'[i] = Asks'
    BY <1>5, <1>7
  <2> QED
    BY <1>8, <2>1, <2>2 DEF Mine
<1>10. (n = OnWay => q = OnWay') /\ (n = 0 => q = 0)
  <2>1. F + 1 <= OnWay
    BY <1>2 DEF Without
  <2> QED
    BY <1>0, <1>1, <1>2, <2>1
<1> HIDE DEF F
<1> QED
  BY <1>2, <1>3, <1>9, <1>10 DEF F

\* The charger answers: only the last of the requests can be for the checksum
\* of this attempt, and nothing is on the way before it then.
LEMMA ServedLeft ==
  ASSUME TypeInv, NEW good \in BOOLEAN, Handle(good), phase # "idle",
         NEW n \in 0 .. OnWay, Mine(n)
  PROVE  /\ OnWay' = OnWay /\ (\A i \in 1 .. OnWay : Way'[i] = Way[i]) /\ Mine(n)'
<1> DEFINE q == Head(toCharger)
           x == [word |-> ReplyWord(q.kind), good |-> good]
           F == Len(toHost)
           R == Len(toCharger)
<1>1. /\ toHost \in Seq(Answering) /\ toCharger \in Seq(Asking) /\ OnWay \in Nat
      /\ F \in Nat /\ R \in Nat /\ DOMAIN toHost = 1 .. F /\ DOMAIN toCharger = 1 .. R
      /\ OnWay = F + R
  BY OnTheWay DEF OnWay
<1>2. /\ toCharger # <<>> /\ toCharger' = Tail(toCharger) /\ toHost' = Append(toHost, x)
      /\ UNCHANGED <<phase, step, index, image, start>>
      /\ Effect(q) \/ (~good /\ UNCHANGED charger)
  BY DEF Handle, flashing
<1>3. /\ q \in Asking /\ q = toCharger[1] /\ R > 0
      /\ DOMAIN toCharger' = 1 .. R - 1
      /\ \A i \in 1 .. R - 1 : toCharger'[i] = toCharger[i + 1]
  BY <1>1, <1>2, Queue
<1>4. x \in Answering /\ x.word = ReplyWord(Head(toCharger).kind) /\ x.good = good
  BY <1>3, StepWordType DEF Asking, Answering
<1>5. /\ DOMAIN toHost' = 1 .. F + 1 /\ Len(toHost') = F + 1 /\ toHost'[F + 1] = x
      /\ \A i \in 1 .. F : toHost'[i] = toHost[i]
  <2>1. /\ toHost' \in Seq(Answering) /\ Len(toHost') = F + 1 /\ toHost'[F + 1] = x
        /\ \A i \in 1 .. F : toHost'[i] = toHost[i]
    BY <1>1, <1>2, <1>4, LongerQueue
  <2> QED
    BY <2>1
<1>6. OnWay' = OnWay /\ \A i \in 1 .. OnWay : Way'[i] = Way[i]
  BY <1>1, <1>2, <1>4, RequestServed DEF Way, OnWay
<1>7. Asks' = Asks
  BY <1>2 DEF Asks
<1>8. F + 1 \in 1 .. OnWay /\ Way[F + 1] = Stage[q.kind]
  BY <1>1, <1>3, PlaceOnWay
<1> HIDE DEF q, x, F, R
<1>9. ASSUME NEW i \in DOMAIN toHost', i > n, Way'[i] = 3, toHost'[i].good
      PROVE  Summed(start, image)'
  <2>1. i \in 1 .. F + 1 /\ i \in 1 .. OnWay /\ i \in n + 1 .. OnWay
    BY <1>1, <1>3, <1>5, <1>9
  <2>2. Way[i] = 3 /\ i = OnWay
    BY <1>6, <1>9, <2>1 DEF Mine, OneAttempt
  <2>3. i = F + 1
    BY <1>1, <1>3, <2>1, <2>2
  <2>4. q.kind = "ChecksumApp" /\ good
    BY <1>3, <1>4, <1>5, <1>8, <1>9, <2>2, <2>3, StageType DEF Asking
  <2>5. q = Asks
    <3>1. 1 \in DOMAIN toCharger /\ Len(toHost) + 1 > n /\ toCharger[1].kind = "ChecksumApp"
      BY <1>1, <1>3, <1>9, <2>3, <2>4 DEF F
    <3> QED
      BY <1>3, <3>1 DEF Mine
  <2>6. Effect(Asks) /\ Asks.kind = "ChecksumApp"
    BY <1>2, <2>4, <2>5
  <2>7. /\ Asks.address = start /\ Asks.size = Len(image) /\ Asks.data = Checksum(image)
    BY <2>6 DEF Asks
  <2>8. /\ UNCHANGED charger /\ Fits(Asks)
        /\ Checksum([k \in 1 .. Asks.size |-> memory[Asks.address + k - 1]]) = Asks.data
    BY <2>6 DEF Effect
  <2> QED
    BY <1>2, <2>7, <2>8 DEF Summed, Fits, charger
<1>10. ASSUME NEW i \in DOMAIN toCharger', Len(toHost') + i > n,
              toCharger'[i].kind = "ChecksumApp"
       PROVE  toCharger'[i] = Asks
  <2>1. i + 1 \in DOMAIN toCharger /\ Len(toHost) + (i + 1) > n /\ toCharger'[i] = toCharger[i + 1]
    BY <1>1, <1>3, <1>5, <1>10 DEF F
  <2> QED
    BY <1>10, <2>1 DEF Mine
<1>11. /\ OneAttempt(Way', OnWay', n, Stage[step'])
       /\ phase' = "send" => NoSum(Way', OnWay', n)
  <2>1. \A i \in n + 1 .. OnWay : i \in 1 .. OnWay
    BY <1>1
  <2> QED
    BY <1>2, <1>6, <2>1 DEF Mine, OneAttempt, NoSum
<1> QED
  BY <1>6, <1>7, <1>9, <1>10, <1>11 DEF Mine

\* No request for a checksum is on the way after the first n.
LEMMA NothingToSum ==
  ASSUME NEW as \in Seq(Answering), NEW rs \in Seq(Asking), NEW n \in Nat,
         NoSum(WayOf(as, rs), Len(as) + Len(rs), n)
  PROVE  /\ \A i \in DOMAIN as : i > n => WayOf(as, rs)[i] # 3
         /\ \A i \in DOMAIN rs : Len(as) + i > n => rs[i].kind # "ChecksumApp"
<1> DEFINE F == Len(as)
           R == Len(rs)
           w == WayOf(as, rs)
<1>1. F \in Nat /\ R \in Nat /\ DOMAIN as = 1 .. F /\ DOMAIN rs = 1 .. R
  BY Queue
<1>2. IsWay(w, as, rs)
  BY WayParts
<1>3. \A i \in n + 1 .. F + R : w[i] # 3
  BY DEF NoSum
<1> HIDE DEF F, R, w
<1>4. ASSUME NEW i \in 1 .. F, i > n PROVE w[i] # 3
  <2>1. i \in n + 1 .. F + R
    BY <1>1, <1>4
  <2> QED
    BY <1>3, <2>1
<1>5. ASSUME NEW i \in 1 .. R, F + i > n PROVE rs[i].kind # "ChecksumApp"
  <2>1. F + i \in n + 1 .. F + R
    BY <1>1, <1>5
  <2>2. w[F + i] = Stage[rs[i].kind]
    BY <1>2 DEF IsWay, F, R
  <2> QED
    BY <1>3, <2>1, <2>2, StageType
<1> QED
  BY <1>1, <1>4, <1>5 DEF F, R, w

LEMMA RestOfAllIsLow ==
  ASSUME NEW v, NEW w, NEW m, NEW k, Without(v, w, m, k), NEW g \in Nat, Low(w, m, 0, g)
  PROVE  Low(v, m - 1, 0, g)
<1>1. m \in 0 .. m /\ k <= m
  BY DEF Without
<1> QED
  BY <1>1, RestIsLow

LEMMA SameWay ==
  ASSUME TypeInv, NEW good \in BOOLEAN, Handle(good)
  PROVE  OnWay' = OnWay /\ \A i \in 1 .. OnWay : Way'[i] = Way[i]
<1> DEFINE x == [word |-> ReplyWord(Head(toCharger).kind), good |-> good]
<1>1. toHost \in Seq(Answering) /\ toCharger \in Seq(Asking)
  BY OnTheWay
<1>2. toCharger # <<>> /\ toCharger' = Tail(toCharger) /\ toHost' = Append(toHost, x)
  BY DEF Handle
<1>3. Head(toCharger) \in Asking
  BY <1>1, <1>2, AirTypes DEF TypeInv
<1>4. x \in Answering /\ x.word = ReplyWord(Head(toCharger).kind)
  BY <1>3, StepWordType DEF Asking, Answering
<1> HIDE DEF x
<1> QED
  BY <1>1, <1>2, <1>4, RequestServed DEF Way, OnWay

\* An acknowledgement is accepted: one that was left over is a step of those
\* that attempts given up can account for, and of its own there is one a step.
LEMMA AcceptLeft ==
  ASSUME TypeInv, TypeInv', Left, Accept
  PROVE  Left'
<1> DEFINE a == Stage[step]
<1>1. /\ phase = "wait" /\ toHost # <<>> /\ Head(toHost).word = ReplyWord(step)
      /\ toHost' = Tail(toHost)
      /\ UNCHANGED <<givenUp, toCharger, memory>>
  BY DEF Accept, AcceptIf, history, charger
<1>2. PICK n \in 0 .. OnWay : Mine(n) /\ (Behind(n) \/ Caught(n))
  BY <1>1 DEF Left
<1>3. PICK q \in Int : q = IF 1 <= n THEN n - 1 ELSE n
  OBVIOUS
<1>4. /\ OnWay' = OnWay - 1 /\ Without(Way', Way, OnWay, 1) /\ q \in 0 .. OnWay'
      /\ OnWay' \in Nat
      /\ OneAttempt(Way', OnWay', q, a)
      /\ Low(Way, n, a, givenUp) => Low(Way', q, a, givenUp)
  BY <1>1, <1>2, <1>3, AnswerLeft
<1>5. /\ a \in 0 .. 3 /\ givenUp \in Nat /\ OnWay \in Nat /\ step \in FlashSteps
      /\ toHost' \in Seq(Answering) /\ toCharger' \in Seq(Asking)
  <2>1. toHost \in Seq(Answering) /\ toCharger \in Seq(Asking)
    BY OnTheWay
  <2> QED
    BY <1>1, <2>1, OnTheWay, Queue DEF TypeInv, TypeOK
<1>6. 1 \in DOMAIN toHost /\ toHost[1] = Head(toHost) /\ 1 \in 1 .. OnWay
  <2>1. 1 \in DOMAIN toHost /\ toHost[1] = Head(toHost)
    BY <1>1, OnTheWay, Queue
  <2> QED
    BY <2>1, PlaceOnWay
<1>7. Way[1] = a
  BY <1>1, <1>5, <1>6, PlaceOnWay, StageType
<1> HIDE DEF a
<1>8. n # 0 => Low(Way, n, a, givenUp)
  BY <1>2 DEF Behind, Caught, a
<1>9. n # 0 => a + 1 <= givenUp /\ Low(Way', q, a + 1, givenUp)
  <2> SUFFICES ASSUME n # 0 PROVE a + 1 <= givenUp /\ Low(Way', n - 1, a + 1, givenUp)
    BY <1>3, <1>5
  <2>1. n \in 1 .. OnWay
    BY <1>5
  <2> QED
    BY <1>4, <1>5, <1>7, <1>8, <2>1, FirstIsTaken
<1>10. n = 0 => \A i \in 1 .. OnWay' : Way'[i] # 0
  <2> SUFFICES ASSUME n = 0, NEW i \in 1 .. OnWay' PROVE Way'[i] # 0
    OBVIOUS
  <2>1. i + 1 \in n + 1 .. OnWay /\ i \in 1 .. OnWay - 1 /\ i + 1 # n + 1
    BY <1>4, <1>5
  <2>2. Way'[i] = Way[i + 1]
    BY <1>4, <2>1 DEF Without
  <2> QED
    BY <1>2, <2>1, <2>2 DEF Mine, OneAttempt
<1>11. ASSUME phase' = "idle" PROVE Low(Way', OnWay', 0, givenUp')
  <2>1. CASE n # 0
    <3>1. Low(Way', q, a, givenUp) /\ a + 1 <= givenUp
      BY <1>4, <1>8, <1>9, <2>1
    <3> DEFINE w == Way'
               m == OnWay'
    <3>2. m \in Nat /\ q \in 0 .. m /\ OneAttempt(w, m, q, a) /\ Low(w, q, a, givenUp)
      BY <1>4, <3>1
    <3> HIDE DEF w, m
    <3>3. givenUp <= givenUp /\ givenUp \in Nat /\ a \in 0 .. 3
      BY <1>5
    <3>4. Low(w, m, 0, givenUp)
      BY <3>1, <3>2, <3>3, EndIsLow
    <3> QED
      BY <1>1, <3>4 DEF w, m
  <2>2. CASE n = 0
    BY <1>1, <1>4, <1>5, <1>10, <2>2, NoStart
  <2> QED
    BY <2>1, <2>2
<1>12. CASE /\ Head(toHost).good /\ step # "ChecksumApp"
            /\ index' = (IF step = "WriteApp" THEN index + 1 ELSE index)
            /\ phase' = "send" /\ step' = NextStep /\ UNCHANGED <<image, start, outcome>>
  <2>1. /\ a # 3 /\ Stage[step'] \in {a, a + 1} /\ Stage[step'] # 0
    BY <1>5, <1>12, StageType DEF NextStep, FlashSteps, a
  <2> DEFINE b == Stage[step']
  <2>2. b \in {a, a + 1} /\ b # 0 /\ b \in 0 .. 3
    BY <1>5, <2>1
  <2> HIDE DEF b
  <2>3. OneAttempt(Way', OnWay', q, b) /\ NoSum(Way', OnWay', q)
    <3> SUFFICES ASSUME NEW i \in q + 1 .. OnWay'
                 PROVE  /\ Way'[i] <= b /\ (Way'[i] = 0 => i = q + 1) /\ (Way'[i] = 3 => i = OnWay')
                        /\ Way'[i] # 3
      BY DEF OneAttempt, NoSum
    <3>1. Way'[i] <= a /\ (Way'[i] = 0 => i = q + 1)
      BY <1>4 DEF OneAttempt
    <3>2. Way'[i] \in 0 .. 3
      <4>1. i \in 1 .. OnWay'
        BY <1>4
      <4>2. \A k \in 1 .. OnWay' : Way'[k] \in 0 .. 3
        BY <1>5, WayParts DEF Way, OnWay
      <4> QED
        BY <4>1, <4>2
    <3> QED
      BY <1>5, <2>1, <2>2, <3>1, <3>2
  <2>4. Mine(q)'
    <3>1. /\ \A i \in DOMAIN toHost' : i > q => Way'[i] # 3
          /\ \A i \in DOMAIN toCharger' : Len(toHost') + i > q => toCharger'[i].kind # "ChecksumApp"
      <4>1. q \in Nat
        BY <1>4
      <4> QED
        BY <1>5, <2>3, <4>1, NothingToSum DEF Way, OnWay
    <3> QED
      BY <2>3, <3>1 DEF Mine, b
  <2>5. CASE n # 0
    <3>1. Low(Way', q, b, givenUp)
      BY <1>4, <1>8, <1>9, <2>2, <2>5
    <3>2. Behind(q)'
      BY <1>1, <2>2, <3>1 DEF Behind, b
    <3> QED
      BY <1>1, <1>4, <1>12, <2>4, <3>2 DEF Left
  <2>6. CASE n = 0
    <3>1. Caught(q)'
      BY <1>3, <1>10, <2>2, <2>6 DEF Caught, b
    <3> QED
      BY <1>1, <1>4, <1>12, <2>4, <3>1 DEF Left
  <2> QED
    BY <2>5, <2>6
<1>13. CASE Head(toHost).good /\ step = "ChecksumApp" /\ End("ok")
  <2>1. phase' = "idle" /\ a = 3 /\ image' = image /\ start' = start
    BY <1>13, StageType DEF End, a
  <2>2. ASSUME givenUp' <= 3 PROVE Unasked' /\ Summed(start, image)'
    <3>1. n = 0
      BY <1>1, <1>5, <1>9, <2>1, <2>2
    <3>2. 1 \in n + 1 .. OnWay /\ OnWay = 1
      BY <1>2, <1>5, <1>6, <1>7, <2>1, <3>1 DEF Mine, OneAttempt
    <3>3. Summed(start, image)
      BY <1>2, <1>6, <1>7, <1>13, <2>1, <3>1 DEF Mine
    <3>4. Len(toHost') = 0 /\ Len(toCharger') = 0
      <4>1. Len(toHost') \in Nat /\ Len(toCharger') \in Nat
        BY <1>5, Queue
      <4> QED
        BY <1>4, <3>2, <4>1 DEF OnWay
    <3>5. toHost' = <<>> /\ toCharger' = <<>>
      BY <1>5, <3>4, EmptySeq
    <3> QED
      BY <1>1, <2>1, <3>3, <3>5 DEF Unasked, Summed
  <2> QED
    BY <1>11, <2>1, <2>2 DEF Left
<1>14. CASE ~Head(toHost).good /\ End("rejected")
  BY <1>11, <1>14 DEF End, Left
<1> QED
  BY <1>12, <1>13, <1>14 DEF Accept, AcceptIf

LEMMA LeftKept ==
  ASSUME TypeInv, TypeInv', Left, [Next]_vars
  PROVE  Left'
<1>0. /\ phase \in {"idle", "send", "wait"} /\ givenUp \in Nat /\ OnWay \in Nat
      /\ Stage[step] \in 0 .. 3 /\ givenUp <= givenUp
  BY OnTheWay DEF TypeInv, TypeOK
<1>1. ASSUME NEW s \in Starts, NEW blocks \in Images, FlashFirmware(s, blocks)
      PROVE  Left'
  <2>1. /\ phase = "idle" /\ phase' = "send" /\ step' = "EnterBootloader"
        /\ outcome' = "none" /\ givenUp' = givenUp /\ toCharger' = toCharger /\ toHost' = toHost
    BY <1>1 DEF FlashFirmware, air
  <2>2. Way' = Way /\ OnWay' = OnWay
    BY <2>1 DEF Way, OnWay
  <2> DEFINE n == OnWay'
  <2>3. n \in 0 .. n /\ n \in Nat /\ Low(Way', n, 0, givenUp')
    BY <1>0, <2>1, <2>2 DEF Left
  <2>4. /\ DOMAIN toHost' = 1 .. Len(toHost') /\ DOMAIN toCharger' = 1 .. Len(toCharger')
        /\ n = Len(toHost') + Len(toCharger')
        /\ Len(toHost') \in Nat /\ Len(toCharger') \in Nat
    BY <2>1, <2>2, OnTheWay DEF OnWay
  <2>5. PICK k \in Nat : k = n
    BY <2>3
  <2>6. Mine(k)'
    <3>0. \A i \in k + 1 .. k : FALSE
      OBVIOUS
    <3>1. OneAttempt(Way', k, k, Stage[step']) /\ NoSum(Way', k, k)
      BY <3>0 DEF OneAttempt, NoSum
    <3>2. \A i \in DOMAIN toHost' : ~(i > k)
      BY <2>4, <2>5
    <3>3. \A i \in DOMAIN toCharger' : ~(Len(toHost') + i > k)
      BY <2>4, <2>5
    <3> QED
      BY <2>5, <3>1, <3>2, <3>3 DEF Mine
  <2>7. Behind(k)'
    BY <2>1, <2>3, <2>5, StageType DEF Behind
  <2> QED
    BY <2>1, <2>3, <2>5, <2>6, <2>7 DEF Left
<1>2. CASE Send
  <2>1. /\ phase = "send" /\ phase' = "wait" /\ toCharger' = Append(toCharger, Asks)
        /\ UNCHANGED <<toHost, step, index, image, start, memory, outcome, givenUp>>
    BY <1>2 DEF Send, history, charger
  <2>2. PICK n \in 0 .. OnWay : Mine(n) /\ (Behind(n) \/ Caught(n))
    BY <2>1 DEF Left
  <2>3. /\ n \in 0 .. OnWay' /\ Mine(n)' /\ (Caught(n) => Caught(n)')
        /\ Low(Way, n, Stage[step], givenUp) => Low(Way', n, Stage[step], givenUp)
    BY <2>1, <2>2, SentLeft
  <2>4. Behind(n) => Behind(n)'
    BY <2>1, <2>3 DEF Behind
  <2> QED
    BY <2>1, <2>2, <2>3, <2>4 DEF Left
<1>3. ASSUME NEW n \in Nat, n \in 0 .. OnWay', OnWay' \in Nat,
             OneAttempt(Way', OnWay', n, Stage[step]),
             \/ Low(Way', n, Stage[step], givenUp)
             \/ \A i \in 1 .. OnWay' : Way'[i] # 0,
             givenUp' = givenUp + 1, phase' = "idle", outcome' # "ok"
      PROVE  Left'
  <2> DEFINE w == Way'
             m == OnWay'
             a == Stage[step]
  <2>1. /\ n \in 0 .. m /\ m \in Nat /\ OneAttempt(w, m, n, a) /\ a \in 0 .. 3
        /\ Low(w, n, a, givenUp) \/ \A i \in 1 .. m : w[i] # 0
    BY <1>0, <1>3
  <2>2. givenUp + 1 \in Nat /\ givenUp <= givenUp + 1
    BY <1>0
  <2> HIDE DEF w, m, a
  <2>3. Low(w, m, 0, givenUp + 1)
    BY <1>0, <2>1, <2>2, EndsLow
  <2> QED
    BY <1>3, <2>3 DEF Left, w, m
<1>4. CASE TimesOut
  <2>1. /\ phase = "wait" /\ phase' = "idle" /\ outcome' = "timeout" /\ givenUp' = givenUp + 1
        /\ toCharger' = toCharger /\ toHost' = toHost
    BY <1>4 DEF TimesOut, GiveUp, End, air
  <2>2. Way' = Way /\ OnWay' = OnWay
    BY <2>1 DEF Way, OnWay
  <2>3. PICK n \in 0 .. OnWay : Mine(n) /\ (Behind(n) \/ Caught(n))
    BY <2>1 DEF Left
  <2>4. n \in Nat /\ n \in 0 .. OnWay' /\ OnWay' \in Nat
    BY <1>0, <2>2
  <2> QED
    BY <1>3, <2>1, <2>2, <2>3, <2>4 DEF Mine, Behind, Caught
<1>5. CASE SendFails
  <2>1. /\ phase = "send" /\ phase' = "idle" /\ outcome' = "link" /\ givenUp' = givenUp + 1
        /\ toCharger' = toCharger \/ toCharger' = Append(toCharger, Asks)
        /\ UNCHANGED <<toHost, step, index, image, start, memory>>
    BY <1>5 DEF SendFails, GiveUp, End, charger
  <2>2. PICK n \in 0 .. OnWay : Mine(n) /\ (Behind(n) \/ Caught(n))
    BY <2>1 DEF Left
  <2>3. n \in Nat
    BY <1>0
  <2>4. CASE toCharger' = toCharger
    <3>1. Way' = Way /\ OnWay' = OnWay
      BY <2>1, <2>4 DEF Way, OnWay
    <3> QED
      BY <1>0, <1>3, <2>1, <2>2, <2>3, <3>1 DEF Mine, Behind, Caught
  <2>5. CASE toCharger' = Append(toCharger, Asks)
    <3>1. /\ n \in 0 .. OnWay' /\ OnWay' \in Nat /\ OneAttempt(Way', OnWay', n, Stage[step])
          /\ Caught(n) => Caught(n)'
          /\ Low(Way, n, Stage[step], givenUp) => Low(Way', n, Stage[step], givenUp)
      BY <2>1, <2>2, <2>5, SentLeft
    <3>2. \/ Low(Way', n, Stage[step], givenUp)
          \/ \A i \in 1 .. OnWay' : Way'[i] # 0
      BY <2>2, <3>1 DEF Behind, Caught
    <3> QED
      BY <1>3, <2>1, <2>3, <3>1, <3>2
  <2> QED
    BY <2>1, <2>4, <2>5
<1>6. CASE Accept
  BY <1>6, AcceptLeft
<1>7. CASE SetAside \/ LoseReply
  <2>1. /\ toHost # <<>> /\ toHost' = Tail(toHost) /\ toCharger' = toCharger
        /\ UNCHANGED <<phase, step, index, image, start, memory, outcome, givenUp>>
    BY <1>7 DEF SetAside, LoseReply, flashing, history, charger
  <2>2. CASE phase = "idle"
    <3>1. Without(Way', Way, OnWay, 1) /\ OnWay' = OnWay - 1
      BY <2>1, OnTheWay, AnswerGone DEF Way, OnWay
    <3>2. Low(Way, OnWay, 0, givenUp)
      BY <2>2 DEF Left
    <3>3. Low(Way', OnWay - 1, 0, givenUp)
      BY <1>0, <3>1, <3>2, RestOfAllIsLow
    <3>4. outcome = "ok" => ~(givenUp <= 3)
      BY <2>1 DEF Left, Unasked
    <3> QED
      BY <2>1, <2>2, <3>1, <3>3, <3>4 DEF Left
  <2>3. CASE phase # "idle"
    <3>1. PICK n \in 0 .. OnWay : Mine(n) /\ (Behind(n) \/ Caught(n))
      BY <2>3 DEF Left
    <3>2. PICK q \in Int : q = IF 1 <= n THEN n - 1 ELSE n
      OBVIOUS
    <3>3. /\ OnWay' = OnWay - 1 /\ Without(Way', Way, OnWay, 1) /\ q \in 0 .. OnWay'
          /\ Mine(q)'
          /\ Low(Way, n, Stage[step], givenUp) => Low(Way', q, Stage[step], givenUp)
      BY <2>1, <3>1, <3>2, AnswerLeft
    <3>4. Behind(n) => Behind(q)'
      <4>1. n = OnWay => q = OnWay'
        BY <1>0, <3>2, <3>3
      <4> QED
        BY <2>1, <3>3, <4>1 DEF Behind
    <3>5. Caught(n) => Caught(q)'
      <4> SUFFICES ASSUME Caught(n) PROVE Caught(q)'
        OBVIOUS
      <4>1. q = 0 /\ Stage[step'] # 0
        BY <2>1, <3>2 DEF Caught
      <4>2. \A i \in 1 .. OnWay - 1 : Way'[i] = Way[i + 1] /\ i + 1 \in 1 .. OnWay
        BY <1>0, <3>3 DEF Without
      <4> QED
        BY <3>3, <4>1, <4>2 DEF Caught
    <3>6. outcome' # "ok"
      BY <2>1, <2>3 DEF Left
    <3> QED
      BY <2>1, <2>3, <3>1, <3>3, <3>4, <3>5, <3>6 DEF Left
  <2> QED
    BY <2>2, <2>3
<1>8. CASE Reconnect
  <2>1. phase' = "idle" /\ outcome' = "none" /\ givenUp' = 0 /\ toCharger' = <<>> /\ toHost' = <<>>
    BY <1>8 DEF Reconnect
  <2>2. OnWay' = 0
    BY <2>1 DEF OnWay
  <2>3. Low(Way', 0, 0, 0)
    <3> DEFINE w == Way'
    <3>1. \A i \in 1 .. 0 : w[i] # 0
      OBVIOUS
    <3> HIDE DEF w
    <3>2. Low(w, 0, 0, 0)
      BY <3>1, NoStart
    <3> QED
      BY <3>2 DEF w
  <2> QED
    BY <2>1, <2>2, <2>3 DEF Left
<1>9. ASSUME NEW good \in BOOLEAN, Handle(good) PROVE Left'
  <2>1. /\ toCharger # <<>> /\ UNCHANGED <<phase, step, outcome, givenUp>>
    BY <1>9 DEF Handle, flashing, history
  <2>2. OnWay' = OnWay /\ \A i \in 1 .. OnWay : Way'[i] = Way[i]
    BY <1>9, SameWay
  <2>3. ASSUME NEW n \in 0 .. OnWay, NEW a \in Nat, Low(Way, n, a, givenUp)
        PROVE  Low(Way', n, a, givenUp)
    <3> DEFINE w == Way'
    <3>1. n \in Nat /\ \A i \in 1 .. n : w[i] = Way[i]
      BY <1>0, <2>2
    <3> HIDE DEF w
    <3>2. Low(w, n, a, givenUp)
      BY <1>0, <2>3, <3>1, SameIsLow
    <3> QED
      BY <3>2 DEF w
  <2>4. CASE phase = "idle"
    <3>1. Low(Way', OnWay, 0, givenUp)
      BY <1>0, <2>3, <2>4 DEF Left
    <3>2. outcome = "ok" => ~(givenUp <= 3)
      BY <2>1 DEF Left, Unasked
    <3> QED
      BY <2>1, <2>2, <2>4, <3>1, <3>2 DEF Left
  <2>5. CASE phase # "idle"
    <3>1. PICK n \in 0 .. OnWay : Mine(n) /\ (Behind(n) \/ Caught(n))
      BY <2>5 DEF Left
    <3>2. Mine(n)'
      BY <1>9, <2>5, <3>1, ServedLeft
    <3>3. Behind(n) => Behind(n)'
      BY <1>0, <2>1, <2>2, <2>3 DEF Behind
    <3>4. Caught(n) => Caught(n)'
      BY <2>1, <2>2 DEF Caught
    <3>5. outcome' # "ok"
      BY <2>1, <2>5 DEF Left
    <3> QED
      BY <2>1, <2>2, <2>5, <3>1, <3>2, <3>3, <3>4, <3>5 DEF Left
  <2> QED
    BY <2>4, <2>5
<1>10. CASE LoseRequest
  <2>1. /\ toCharger # <<>> /\ toCharger' = Tail(toCharger)
        /\ UNCHANGED <<toHost, phase, step, index, image, start, memory, outcome, givenUp>>
    BY <1>10 DEF LoseRequest, flashing, history, charger
  <2>2. CASE phase = "idle"
    <3>1. Without(Way', Way, OnWay, Len(toHost) + 1) /\ OnWay' = OnWay - 1
      BY <2>1, OnTheWay, RequestGone DEF Way, OnWay
    <3>2. Low(Way, OnWay, 0, givenUp)
      BY <2>2 DEF Left
    <3>3. Low(Way', OnWay - 1, 0, givenUp)
      BY <1>0, <3>1, <3>2, RestOfAllIsLow
    <3>4. outcome = "ok" => ~(givenUp <= 3)
      BY <2>1 DEF Left, Unasked
    <3> QED
      BY <2>1, <2>2, <3>1, <3>3, <3>4 DEF Left
  <2>3. CASE phase # "idle"
    <3>1. PICK n \in 0 .. OnWay : Mine(n) /\ (Behind(n) \/ Caught(n))
      BY <2>3 DEF Left
    <3>2. /\ OnWay' = OnWay - 1 /\ Without(Way', Way, OnWay, Len(toHost) + 1)
          /\ \E q \in 0 .. OnWay' :
               /\ Mine(q)' /\ (n = OnWay => q = OnWay') /\ (n = 0 => q = 0)
               /\ Low(Way, n, Stage[step], givenUp) => Low(Way', q, Stage[step], givenUp)
      BY <2>1, <3>1, RequestLeft
    <3>3. PICK q \in 0 .. OnWay' :
            /\ Mine(q)' /\ (n = OnWay => q = OnWay') /\ (n = 0 => q = 0)
            /\ Low(Way, n, Stage[step], givenUp) => Low(Way', q, Stage[step], givenUp)
      BY <3>2
    <3>4. Behind(n) => Behind(q)'
      BY <2>1, <3>3 DEF Behind
    <3>5. Caught(n) => Caught(q)'
      <4> SUFFICES ASSUME Caught(n) PROVE Caught(q)'
        OBVIOUS
      <4>1. q = 0 /\ Stage[step'] # 0 /\ \A i \in 1 .. OnWay : Way[i] # 0
        BY <2>1, <3>3 DEF Caught
      <4>2. \A i \in 1 .. OnWay - 1 : Way'[i] # 0
        <5>1. 0 \in 0 .. OnWay /\ 0 \in 0 .. 3 /\ 0 \in Nat
          BY <1>0
        <5> QED
          BY <3>2, <4>1, <5>1, RestIsLow
      <4> QED
        BY <3>2, <4>1, <4>2 DEF Caught
    <3>6. outcome' # "ok"
      BY <2>1, <2>3 DEF Left
    <3> QED
      BY <2>1, <2>3, <3>1, <3>3, <3>4, <3>5, <3>6 DEF Left
  <2> QED
    BY <2>2, <2>3
<1>11. CASE UNCHANGED vars
  <2>1. UNCHANGED <<toHost, toCharger, phase, step, index, image, start, memory, outcome, givenUp>>
    BY <1>11 DEF vars, flashing, history, air, charger
  <2>2. Way' = Way /\ OnWay' = OnWay /\ Asks' = Asks /\ (Summed(start, image)' <=> Summed(start, image))
    BY <2>1 DEF Way, OnWay, Asks, Summed
  <2>3. \A n \in 0 .. OnWay : /\ Mine(n) => Mine(n)'
                              /\ Behind(n) => Behind(n)'
                              /\ Caught(n) => Caught(n)'
    BY <2>1, <2>2 DEF Mine, Behind, Caught
  <2> QED
    BY <2>1, <2>2, <2>3 DEF Left, Unasked
<1> QED
  BY <1>1, <1>2, <1>4, <1>5, <1>6, <1>7, <1>8, <1>9, <1>10, <1>11 DEF Next, ClientStep

LEMMA LeftAtFirst == Init => Left
<1> SUFFICES ASSUME Init PROVE Left
  OBVIOUS
<1>1. phase = "idle" /\ outcome = "none" /\ givenUp = 0 /\ OnWay = 0
  BY DEF Init, OnWay
<1>2. \A i \in 1 .. 0 : Way[i] # 0
  OBVIOUS
<1>3. Low(Way, 0, 0, 0)
  BY <1>2, NoStart
<1> QED
  BY <1>1, <1>3 DEF Left

\* "ok", which the command line prints as "written and verified", means that the
\* charger found the checksum of this image where it belongs, although
\* flash_firmware takes any acknowledgement for its own, as long as no more than
\* three attempts on the connection were given up.
THEOREM VerifiedIsSummed == Spec => []VerifiedMeansSummed
<1>1. Init => TypeInv /\ Left
  BY InitType, LeftAtFirst
<1>2. TypeInv /\ Left /\ [Next]_vars => (TypeInv /\ Left)'
  BY StepType, LeftKept
<1>3. Left => VerifiedMeansSummed
  BY DEF Left, VerifiedMeansSummed
<1> QED
  BY <1>1, <1>2, <1>3, PTL DEF Spec
=============================================================================
