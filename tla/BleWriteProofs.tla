--------------------------- MODULE BleWriteProofs ---------------------------
(***************************************************************************)
(* Proofs about BleWrite, for any tasks that share the link, any frames,   *)
(* any channel, any gap and any number of sends.                           *)
(***************************************************************************)
EXTENDS BleWrite, TLAPS, SequenceTheorems, FiniteSetTheorems

Phases == {"idle", "lock", "pace", "write"}
Outcomes == {"open", "ok", "transport", "closed", "cancelled"}
Sends == [size : FrameSizes, outcome : Outcomes]
OnTheAir == [send : Nat, packet : Seq(Nat)]

TypeInv ==
  /\ phase \in [Senders -> Phases]
  /\ todo \in [Senders -> Seq(Seq(Nat))]
  /\ waiters \in Seq(Senders)
  /\ since \in 0 .. MIN_WRITE_GAP /\ quiet \in 0 .. MIN_WRITE_GAP /\ spent \in Nat
  /\ sends \in Seq(Sends)
  /\ mine \in [Senders -> Nat]
  /\ air \in Seq(OnTheAir)

Sending(s) == phase[s] # "idle"
HasLock(s) == phase[s] \in {"pace", "write"}

\* A sender stands in the line, with a send of its own that is open; only the
\* first of the line has the lock.
InLine ==
  /\ \A s \in Senders : Sending(s) =>
       /\ \E i \in DOMAIN waiters : waiters[i] = s
       /\ mine[s] \in DOMAIN sends /\ sends[mine[s]].outcome = "open"
  /\ \A s, t \in Senders : (Sending(s) /\ Sending(t) /\ mine[s] = mine[t]) => s = t
  /\ \A s \in Senders : HasLock(s) => Holds(s)

\* What is left of the packets p when k of them are on the air: not nothing.
Left(rest, p, k) ==
  /\ k < Len(p) /\ Len(rest) = Len(p) - k
  /\ \A i \in 1 .. Len(rest) : rest[i] = p[k + i]

\* Nothing of a frame is on the air before its sender has the lock, and nothing
\* follows it while it has.
OnItsOwn ==
  /\ \A i \in DOMAIN air : air[i].send \in DOMAIN sends
  /\ \A s \in Senders : phase[s] = "lock" => \A i \in DOMAIN air : air[i].send # mine[s]
  /\ \A s \in Senders : HasLock(s) =>
       \A i, j \in DOMAIN air : (i < j /\ air[i].send = mine[s]) => air[j].send = mine[s]

ToSend ==
  \A s \in Senders : Sending(s) => Left(todo[s], PacketsOf(mine[s]), Out(mine[s], Len(air)))

\* As long as every write was confirmed, the link knows when the last one was.
Known ==
  (\A n \in DOMAIN sends : sends[n].outcome \in {"ok", "open"}) => quiet >= since

SendInv == InLine /\ OnItsOwn /\ FramesNotInterleaved /\ ToSend /\ WholeOrPrefix
-----------------------------------------------------------------------------
(* Frames and their packets                                                *)

LEMMA PacketType ==
  ASSUME NEW b \in Seq(Nat)
  PROVE  Packet(b) \in Seq(Nat)
<1>1. <<Len(b) % 256>> \in Seq(Nat)
  OBVIOUS
<1> QED
  BY <1>1, ConcatProperties DEF Packet

LEMMA CeilingIsPositive ==
  ASSUME NEW a \in Nat \ {0}, NEW b \in Nat \ {0}
  PROVE  (a + b - 1) \div b \in Nat \ {0}
  OBVIOUS

\* A frame is cut into at least one packet.
LEMMA CutInPackets ==
  ASSUME NEW size \in Nat
  PROVE  /\ Chunks(FrameOf(size), Mtu) \in Seq(Seq(Nat))
         /\ Len(Chunks(FrameOf(size), Mtu)) >= 1
<1> DEFINE f == FrameOf(size)
           budget == IF Mtu > 1 THEN Mtu - 1 ELSE 1
           count == (Len(f) + budget - 1) \div budget
           End(i) == IF i * budget < Len(f) THEN i * budget ELSE Len(f)
<1>1. f \in Seq(Nat) /\ Len(f) = size
  <2>1. \A i \in 1 .. size : i % 256 \in Nat
    OBVIOUS
  <2>2. [i \in 1 .. size |-> i % 256] \in Seq(Nat)
    BY <2>1, IsASeq
  <2> QED
    BY <2>2 DEF FrameOf
<1>2. budget \in Nat \ {0}
  BY SizesAssumption
<1>3. Chunks(f, Mtu) = IF Mtu >= 21 \/ Len(f) <= 16
                       THEN <<Packet(f)>>
                       ELSE [i \in 1 .. count |-> Packet(SubSeq(f, (i - 1) * budget + 1, End(i)))]
  BY DEF Chunks
<1> HIDE DEF f, budget
<1>4. CASE Mtu >= 21 \/ Len(f) <= 16
  <2>1. Chunks(f, Mtu) = <<Packet(f)>>
    BY <1>3, <1>4
  <2>2. Packet(f) \in Seq(Nat)
    BY <1>1, PacketType
  <2> QED
    BY <2>1, <2>2 DEF f
<1>5. CASE ~(Mtu >= 21 \/ Len(f) <= 16)
  <2>1. Len(f) \in Nat \ {0}
    BY <1>1, <1>5
  <2>2. count \in Nat \ {0}
    BY <1>2, <2>1, CeilingIsPositive
  <2>3. \A i \in 1 .. count : Packet(SubSeq(f, (i - 1) * budget + 1, End(i))) \in Seq(Nat)
    <3> SUFFICES ASSUME NEW i \in 1 .. count
                 PROVE  SubSeq(f, (i - 1) * budget + 1, End(i)) \in Seq(Nat)
      BY PacketType
    <3>1. i - 1 \in Nat /\ i \in Nat
      BY <2>2
    <3>2. (i - 1) * budget \in Nat /\ i * budget \in Nat
      BY <1>2, <3>1
    <3>3. (i - 1) * budget + 1 \in Nat \ {0} /\ End(i) \in 0 .. Len(f)
      BY <2>1, <3>2
    <3> HIDE DEF End
    <3> QED
      BY <1>1, <3>3, SubSeqProperties
  <2>4. Chunks(f, Mtu) = [i \in 1 .. count |-> Packet(SubSeq(f, (i - 1) * budget + 1, End(i)))]
    BY <1>3, <1>5
  <2> HIDE DEF count, End
  <2>5. [i \in 1 .. count |-> Packet(SubSeq(f, (i - 1) * budget + 1, End(i)))] \in Seq(Seq(Nat))
    BY <2>2, <2>3, IsASeq
  <2>6. Len([i \in 1 .. count |-> Packet(SubSeq(f, (i - 1) * budget + 1, End(i)))]) = count
    BY <2>2
  <2> QED
    BY <2>2, <2>4, <2>5, <2>6 DEF f
<1> QED
  BY <1>4, <1>5
-----------------------------------------------------------------------------
(* Counting what is on the air                                             *)

OutOf(a, n, i) == Cardinality({j \in 1 .. i : a[j].send = n})

LEMMA OutIsNat ==
  ASSUME NEW a, NEW n, NEW i \in Nat
  PROVE  /\ IsFiniteSet({j \in 1 .. i : a[j].send = n})
         /\ OutOf(a, n, i) \in Nat
<1>1. IsFiniteSet(1 .. i)
  BY FS_Interval
<1>2. IsFiniteSet({j \in 1 .. i : a[j].send = n})
  BY <1>1, FS_Subset
<1> QED
  BY <1>2, FS_CardinalityType DEF OutOf

LEMMA OutOfNone ==
  ASSUME NEW a, NEW n, NEW i \in Nat, \A j \in 1 .. i : a[j].send # n
  PROVE  OutOf(a, n, i) = 0
<1>1. {j \in 1 .. i : a[j].send = n} = {}
  OBVIOUS
<1> QED
  BY <1>1, FS_EmptySet DEF OutOf

LEMMA OutOfAppend ==
  ASSUME NEW S, NEW a \in Seq(S), NEW e \in S, NEW n
  PROVE  /\ \A i \in 0 .. Len(a) : OutOf(Append(a, e), n, i) = OutOf(a, n, i)
         /\ OutOf(Append(a, e), n, Len(a) + 1) =
              OutOf(a, n, Len(a)) + (IF e.send = n THEN 1 ELSE 0)
<1> DEFINE b == Append(a, e)
           D(x, i) == {j \in 1 .. i : x[j].send = n}
<1>1. /\ Len(a) \in Nat /\ b[Len(a) + 1] = e
      /\ \A j \in 1 .. Len(a) : b[j] = a[j]
  BY AppendProperties
<1> HIDE DEF b
<1>2. \A i \in 0 .. Len(a) : D(b, i) = D(a, i)
  BY <1>1
<1>3. \A i \in 0 .. Len(a) : OutOf(b, n, i) = OutOf(a, n, i)
  BY <1>2 DEF OutOf
<1>4. IsFiniteSet(D(a, Len(a)))
  BY <1>1, OutIsNat
<1>5. CASE e.send = n
  <2>1. D(b, Len(a) + 1) = D(a, Len(a)) \union {Len(a) + 1} /\ Len(a) + 1 \notin D(a, Len(a))
    BY <1>1, <1>5
  <2> HIDE DEF D
  <2>2. Cardinality(D(b, Len(a) + 1)) = Cardinality(D(a, Len(a))) + 1
    BY <1>4, <2>1, FS_AddElement
  <2> QED
    BY <1>3, <1>5, <2>2 DEF OutOf, D, b
<1>6. CASE e.send # n
  <2>1. D(b, Len(a) + 1) = D(a, Len(a))
    BY <1>1, <1>6
  <2>2. OutOf(a, n, Len(a)) \in Nat
    BY <1>1, OutIsNat
  <2>3. OutOf(b, n, Len(a) + 1) = OutOf(a, n, Len(a))
    BY <2>1 DEF OutOf
  <2> QED
    BY <1>3, <1>6, <2>2, <2>3 DEF b
<1> QED
  BY <1>5, <1>6, <1>3 DEF b
-----------------------------------------------------------------------------
(* The line for the lock                                                   *)

\* A place taken out of a line: who is elsewhere stays, and the first of the
\* line stays first if the place is not his.
LEMMA LeaveLine ==
  ASSUME NEW S, NEW q \in Seq(S), NEW k \in DOMAIN q
  PROVE  /\ RemoveAt(q, k) \in Seq(S)
         /\ \A i \in DOMAIN q : i # k => \E j \in DOMAIN RemoveAt(q, k) : RemoveAt(q, k)[j] = q[i]
         /\ k # 1 => RemoveAt(q, k) # <<>> /\ Head(RemoveAt(q, k)) = Head(q)
<1> DEFINE a == SubSeq(q, 1, k - 1)
           b == SubSeq(q, k + 1, Len(q))
           r == a \o b
<1>1. Len(q) \in Nat /\ k \in 1 .. Len(q)
  OBVIOUS
<1>2. a \in Seq(S) /\ Len(a) = k - 1 /\ \A i \in 1 .. k - 1 : a[i] = q[i]
  BY <1>1, SubSeqProperties
<1>3. b \in Seq(S) /\ Len(b) = Len(q) - k /\ \A i \in 1 .. Len(q) - k : b[i] = q[k + i]
  BY <1>1, SubSeqProperties
<1> HIDE DEF a, b
<1>4. /\ r \in Seq(S) /\ Len(r) = Len(q) - 1 /\ DOMAIN r = 1 .. Len(q) - 1
      /\ \A i \in 1 .. k - 1 : r[i] = q[i]
      /\ \A i \in 1 .. Len(q) - k : r[k - 1 + i] = q[k + i]
  <2>1. r \in Seq(S) /\ Len(r) = Len(a) + Len(b)
    BY <1>2, <1>3, ConcatProperties
  <2>2. \A i \in 1 .. Len(a) : r[i] = a[i]
    BY <1>1, <1>2, <1>3
  <2>3. \A i \in 1 .. Len(b) : r[Len(a) + i] = b[i]
    BY SMTT(30), <1>1, <1>2, <1>3
  <2> HIDE DEF r
  <2>4. DOMAIN r = 1 .. Len(r)
    BY <2>1
  <2>5. Len(r) = Len(q) - 1 /\ DOMAIN r = 1 .. Len(q) - 1
    BY <1>1, <1>2, <1>3, <2>1, <2>4
  <2>6. \A i \in 1 .. k - 1 : r[i] = q[i]
    BY <1>2, <2>2
  <2>7. ASSUME NEW i \in 1 .. Len(q) - k PROVE r[k - 1 + i] = q[k + i]
    <3>1. r[Len(a) + i] = b[i] /\ b[i] = q[k + i]
      BY <1>3, <2>3
    <3> QED
      BY <1>2, <3>1
  <2> QED
    BY <2>1, <2>5, <2>6, <2>7
<1>5. RemoveAt(q, k) = r
  BY DEF RemoveAt, a, b
<1> HIDE DEF r
<1>6. ASSUME NEW i \in 1 .. Len(q), i # k
      PROVE  \E j \in DOMAIN r : r[j] = q[i]
  <2>1. CASE i < k
    <3>1. i \in 1 .. k - 1 /\ i \in 1 .. Len(q) - 1
      BY <1>1, <1>6, <2>1
    <3> QED
      BY <1>4, <3>1
  <2>2. CASE i > k
    <3>1. i - k \in 1 .. Len(q) - k /\ k - 1 + (i - k) = i - 1 /\ k + (i - k) = i
      BY <1>1, <2>2
    <3>2. r[k - 1 + (i - k)] = q[k + (i - k)]
      BY <1>4, <3>1
    <3>3. i - 1 \in 1 .. Len(q) - 1
      BY <1>1, <1>6, <2>2
    <3> QED
      BY <1>4, <3>1, <3>2, <3>3
  <2> QED
    BY <1>1, <1>6, <2>1, <2>2
<1>7. k # 1 => r # <<>> /\ Head(r) = Head(q)
  <2> HAVE k # 1
  <2>1. 1 \in 1 .. k - 1 /\ Len(r) # 0
    BY <1>1, <1>4
  <2>2. r[1] = q[1]
    BY <1>4, <2>1
  <2> QED
    BY <1>1, <1>4, <2>1, <2>2
<1> QED
  BY <1>1, <1>4, <1>5, <1>6, <1>7

\* The line r that q becomes when s joins it.
Joined(r, q, s) ==
  /\ \A i \in DOMAIN q : i \in DOMAIN r /\ r[i] = q[i]
  /\ \E i \in DOMAIN r : r[i] = s
  /\ q # <<>> => r # <<>> /\ Head(r) = Head(q)

LEMMA JoinLine ==
  ASSUME NEW S, NEW q \in Seq(S), NEW s \in S
  PROVE  Append(q, s) \in Seq(S) /\ Joined(Append(q, s), q, s)
  BY AppendProperties DEF Joined
-----------------------------------------------------------------------------
(* What the parts of a step do                                             *)

Begun ==
  \A i \in DOMAIN air :
    LET n == air[i].send IN
      /\ Out(n, i) <= Len(PacketsOf(n))
      /\ air[i].packet = PacketsOf(n)[Out(n, i)]

Whole ==
  \A n \in DOMAIN sends :
    sends[n].outcome = "ok" => Out(n, Len(air)) = Len(PacketsOf(n))

PacketsIn(ss, n) == Chunks(FrameOf(ss[n].size), Mtu)

LEMMA PacketsType ==
  ASSUME TypeInv, NEW n \in DOMAIN sends
  PROVE  PacketsOf(n) \in Seq(Seq(Nat)) /\ Len(PacketsOf(n)) >= 1
<1>1. sends[n] \in Sends
  BY ElementOfSeq DEF TypeInv
<1>2. sends[n].size \in Nat
  BY <1>1, SizesAssumption DEF Sends
<1> QED
  BY <1>2, CutInPackets DEF PacketsOf

\* The sends, whichever ends, keep their frames.
SameFrames ==
  DOMAIN sends' = DOMAIN sends /\ \A n \in DOMAIN sends : sends'[n].size = sends[n].size

\* Sender s is done: it has left the line, its send has the outcome, and
\* everything else of the sends is as it was.
Done(s, outcome) ==
  /\ \A t \in Senders \ {s} : phase'[t] = phase[t] /\ todo'[t] = todo[t]
  /\ phase'[s] = "idle" /\ mine' = mine
  /\ SameFrames
  /\ \A n \in DOMAIN sends : sends'[n].outcome = IF n = mine[s] THEN outcome
                                                                ELSE sends[n].outcome

LEMMA LeaveDone ==
  ASSUME TypeInv, InLine, NEW s \in Senders, Sending(s),
         NEW outcome \in Outcomes \ {"open"}, Leave(s, outcome)
  PROVE  /\ phase' \in [Senders -> Phases] /\ todo' \in [Senders -> Seq(Seq(Nat))]
         /\ waiters' \in Seq(Senders) /\ sends' \in Seq(Sends) /\ mine' = mine
         /\ Done(s, outcome)
         /\ InLine'
<1> DEFINE k == Place(s)
           n == mine[s]
<1>1. k \in DOMAIN waiters /\ waiters[k] = s
  BY DEF InLine, Place
<1>2. n \in DOMAIN sends /\ sends[n].outcome = "open"
  BY DEF InLine
<1>3. /\ waiters' = RemoveAt(waiters, k) /\ waiters \in Seq(Senders)
      /\ phase' = [phase EXCEPT ![s] = "idle"] /\ todo' = [todo EXCEPT ![s] = <<>>]
      /\ sends' = [sends EXCEPT ![n].outcome = outcome] /\ mine' = mine
  BY DEF Leave, TypeInv
<1>4. sends \in Seq(Sends) /\ \A m \in DOMAIN sends : sends[m] \in Sends
  BY ElementOfSeq DEF TypeInv
<1>5. /\ \A t \in Senders : phase'[t] = IF t = s THEN "idle" ELSE phase[t]
      /\ \A t \in Senders \ {s} : todo'[t] = todo[t]
      /\ phase' \in [Senders -> Phases] /\ todo' \in [Senders -> Seq(Seq(Nat))]
  BY <1>3 DEF TypeInv, Phases
<1> HIDE DEF k, n
<1>6. /\ sends' \in Seq(Sends) /\ DOMAIN sends' = DOMAIN sends
      /\ \A m \in DOMAIN sends : /\ sends'[m].size = sends[m].size
                                 /\ sends'[m].outcome = IF m = n THEN outcome
                                                                ELSE sends[m].outcome
  <2>1. [sends[n] EXCEPT !.outcome = outcome] \in Sends
    BY <1>2, <1>4 DEF Sends
  <2>2. sends' = [sends EXCEPT ![n] = [sends[n] EXCEPT !.outcome = outcome]]
    BY <1>3
  <2>3. n \in 1 .. Len(sends) /\ DOMAIN sends = 1 .. Len(sends)
    BY <1>2, <1>4
  <2>4. sends' \in Seq(Sends)
    BY <1>4, <2>1, <2>2, <2>3, ExceptSeq
  <2>5. DOMAIN sends' = DOMAIN sends
    BY <2>2
  <2>6. \A m \in DOMAIN sends : sends'[m] = IF m = n THEN [sends[n] EXCEPT !.outcome = outcome]
                                                     ELSE sends[m]
    BY <2>2
  <2> QED
    BY <1>2, <1>4, <2>4, <2>5, <2>6 DEF Sends
<1>7. Done(s, outcome)
  BY <1>3, <1>5, <1>6 DEF Done, SameFrames, n
<1>8. /\ waiters' \in Seq(Senders)
      /\ \A i \in DOMAIN waiters : i # k => \E j \in DOMAIN waiters' : waiters'[j] = waiters[i]
      /\ k # 1 => waiters' # <<>> /\ Head(waiters') = Head(waiters)
  BY <1>1, <1>3, LeaveLine
<1>9. InLine'
  <2>1. ASSUME NEW t \in Senders, Sending(t)'
        PROVE  /\ \E j \in DOMAIN waiters' : waiters'[j] = t
               /\ mine'[t] \in DOMAIN sends' /\ sends'[mine'[t]].outcome = "open"
               /\ t # s /\ Sending(t) /\ mine'[t] = mine[t]
    <3>1. t # s /\ Sending(t)
      BY <1>5, <2>1 DEF Sending
    <3>2. PICK i \in DOMAIN waiters : waiters[i] = t
      BY <3>1 DEF InLine
    <3>3. i # k
      BY <1>1, <3>1, <3>2
    <3>4. mine[t] \in DOMAIN sends /\ sends[mine[t]].outcome = "open" /\ mine[t] # n
      BY <3>1 DEF InLine, n
    <3> QED
      BY <1>3, <1>6, <1>8, <3>1, <3>2, <3>3, <3>4
  <2>2. ASSUME NEW t \in Senders, HasLock(t)' PROVE Holds(t)'
    <3>1. t # s /\ HasLock(t)
      BY <1>5, <2>2 DEF HasLock
    <3>2. Holds(t)
      BY <3>1 DEF InLine
    <3>3. k # 1
      BY <1>1, <1>3, <3>1, <3>2 DEF Holds
    <3> QED
      BY <1>8, <3>2, <3>3 DEF Holds
  <2> QED
    BY <2>1, <2>2 DEF InLine
<1> QED
  BY <1>3, <1>5, <1>6, <1>7, <1>8, <1>9
\* The radio takes the packet that s writes.
LEMMA AirTaken ==
  ASSUME TypeInv, SendInv, NEW s \in Senders, phase[s] = "write",
         air' = Append(air, [send |-> mine[s], packet |-> Head(todo[s])]),
         SameFrames, mine' = mine,
         \A t \in Senders \ {s} : phase'[t] = phase[t],
         phase'[s] \in {"idle", "pace"}
  PROVE  /\ air' \in Seq(OnTheAir)
         /\ OnItsOwn' /\ FramesNotInterleaved' /\ Begun'
         /\ Out(mine[s], Len(air))' = Out(mine[s], Len(air)) + 1
         /\ \A m : m # mine[s] => OutOf(air', m, Len(air')) = OutOf(air, m, Len(air))
<1> DEFINE n == mine[s]
           e == [send |-> n, packet |-> Head(todo[s])]
           l == Len(air)
<1>1. /\ n \in DOMAIN sends /\ n \in Nat
      /\ Left(todo[s], PacketsOf(n), OutOf(air, n, l))
      /\ todo[s] \in Seq(Seq(Nat)) /\ air \in Seq(OnTheAir)
  BY DEF SendInv, InLine, ToSend, TypeInv, Sending, Out, OutOf
<1>a. l \in Nat
  BY <1>1
<1>b. \A i \in 1 .. l + 1 : i = l + 1 \/ i \in 1 .. l
  BY <1>a
<1>2. /\ PacketsOf(n) \in Seq(Seq(Nat)) /\ Len(PacketsOf(n)) \in Nat
      /\ OutOf(air, n, l) \in Nat
  <2>1. PacketsOf(n) \in Seq(Seq(Nat))
    BY <1>1, PacketsType
  <2>2. OutOf(air, n, l) \in Nat
    BY <1>a, OutIsNat
  <2> QED
    BY <2>1, <2>2
<1>3. /\ Head(todo[s]) \in Seq(Nat)
      /\ Head(todo[s]) = PacketsOf(n)[OutOf(air, n, l) + 1]
  <2>1. Len(todo[s]) \in Nat /\ Len(todo[s]) >= 1
    BY <1>1, <1>2 DEF Left
  <2>2. Head(todo[s]) = todo[s][1] /\ 1 \in 1 .. Len(todo[s])
    BY <1>1, <2>1
  <2>3. todo[s][1] \in Seq(Nat)
    BY <1>1, <2>2, ElementOfSeq
  <2> QED
    BY <1>1, <2>2, <2>3 DEF Left
<1>4. e \in OnTheAir /\ e.send = n /\ e.packet = Head(todo[s])
  BY <1>1, <1>3 DEF OnTheAir
<1> HIDE DEF e, l
<1>5. air' = Append(air, e)
  BY DEF e, n
<1>6. /\ air' \in Seq(OnTheAir) /\ Len(air') = l + 1 /\ DOMAIN air' = 1 .. l + 1
      /\ DOMAIN air = 1 .. l
      /\ air'[l + 1] = e /\ \A i \in 1 .. l : air'[i] = air[i]
  BY <1>1, <1>4, <1>5, AppendProperties DEF l
<1>7. \A m : /\ \A i \in 0 .. l : OutOf(air', m, i) = OutOf(air, m, i)
             /\ OutOf(air', m, l + 1) = OutOf(air, m, l) + (IF n = m THEN 1 ELSE 0)
  BY <1>1, <1>4, <1>5, OutOfAppend DEF l
<1>8. /\ \A t \in Senders : HasLock(t) => t = s
      /\ \A t \in Senders \ {s} : Sending(t) => mine[t] # n
  BY DEF SendInv, InLine, Holds, HasLock, Sending, n
<1> HIDE DEF n
<1>9. \A i, j \in 1 .. l : (i <= j /\ air[i].send = n) => air[j].send = n
  <2> SUFFICES ASSUME NEW i \in 1 .. l, air[i].send = n, NEW j \in 1 .. l, i <= j
               PROVE  air[j].send = n
    OBVIOUS
  <2>1. i \in DOMAIN air /\ j \in DOMAIN air /\ (i < j \/ i = j)
    BY <1>a, <1>6
  <2> QED
    BY <2>1 DEF SendInv, OnItsOwn, HasLock, n
<1>10. \A i \in 1 .. l : air[i].send \in DOMAIN sends
  BY <1>6 DEF SendInv, OnItsOwn
<1>11. OnItsOwn'
  <2>1. \A i \in 1 .. l + 1 : air'[i].send \in DOMAIN sends'
    <3>1. air'[l + 1].send \in DOMAIN sends
      BY <1>1, <1>4, <1>6
    <3>2. \A i \in 1 .. l : air'[i].send \in DOMAIN sends
      BY <1>6, <1>10
    <3> QED
      BY <1>b, <3>1, <3>2 DEF SameFrames
  <2>2. ASSUME NEW t \in Senders, phase'[t] = "lock", NEW i \in 1 .. l + 1
        PROVE  air'[i].send # mine[t]
    <3>1. t # s /\ phase[t] = "lock" /\ mine[t] # n
      BY <1>8, <2>2 DEF Sending
    <3>2. CASE i = l + 1
      BY <1>4, <1>6, <3>1, <3>2
    <3>3. CASE i \in 1 .. l
      BY <1>6, <3>1, <3>3 DEF SendInv, OnItsOwn
    <3> QED
      BY <1>b, <3>2, <3>3
  <2>3. ASSUME NEW t \in Senders, HasLock(t)', NEW i \in 1 .. l + 1, NEW j \in 1 .. l + 1,
               i < j, air'[i].send = mine[t]
        PROVE  air'[j].send = mine[t]
    <3>1. t = s /\ mine[t] = n
      BY <1>8, <2>3 DEF HasLock, n
    <3>2. i \in 1 .. l
      BY <1>a, <2>3
    <3>3. CASE j = l + 1
      BY <1>4, <1>6, <3>1, <3>3
    <3>4. CASE j \in 1 .. l
      <4>1. air'[i] = air[i] /\ air'[j] = air[j] /\ i <= j
        BY <1>6, <2>3, <3>2, <3>4
      <4> QED
        BY <1>9, <2>3, <3>1, <3>2, <3>4, <4>1
    <3> QED
      BY <1>b, <3>3, <3>4
  <2> QED
    BY <1>6, <2>1, <2>2, <2>3 DEF OnItsOwn
<1>12. FramesNotInterleaved'
  <2> SUFFICES ASSUME NEW i \in 1 .. l + 1, NEW j \in 1 .. l + 1, NEW k \in 1 .. l + 1,
                      i < j, j < k, air'[i].send = air'[k].send
               PROVE  air'[j].send = air'[i].send
    BY <1>6 DEF FramesNotInterleaved
  <2>1. i \in 1 .. l /\ j \in 1 .. l /\ i <= j
    BY <1>a
  <2>2. CASE k = l + 1
    <3>1. air'[i] = air[i] /\ air'[j] = air[j] /\ air'[k].send = n
      BY <1>4, <1>6, <2>1, <2>2
    <3>2. air[i].send = n
      BY <3>1
    <3> QED
      BY <1>9, <2>1, <3>1, <3>2
  <2>3. CASE k \in 1 .. l
    <3>1. /\ i \in DOMAIN air /\ j \in DOMAIN air /\ k \in DOMAIN air
          /\ air'[i] = air[i] /\ air'[j] = air[j] /\ air'[k] = air[k]
      BY <1>6, <2>1, <2>3
    <3> QED
      BY <3>1 DEF SendInv, FramesNotInterleaved
  <2> QED
    BY <1>b, <2>2, <2>3
<1>13. \A m \in DOMAIN sends : PacketsIn(sends', m) = PacketsIn(sends, m)
  BY DEF PacketsIn, SameFrames
<1>14. Begun'
  <2> DEFINE Right(ss, a, i) ==
               /\ OutOf(a, a[i].send, i) <= Len(PacketsIn(ss, a[i].send))
               /\ a[i].packet = PacketsIn(ss, a[i].send)[OutOf(a, a[i].send, i)]
  <2>1. Right(sends', air', l + 1)
    <3>1. OutOf(air', n, l + 1) = OutOf(air, n, l) + 1
      BY <1>7
    <3>2. OutOf(air', n, l + 1) <= Len(PacketsOf(n))
      BY <1>1, <1>2, <3>1 DEF Left
    <3>3. PacketsIn(sends', n) = PacketsOf(n)
      BY <1>1, <1>13 DEF PacketsIn, PacketsOf
    <3>4. air'[l + 1].send = n /\ air'[l + 1].packet = PacketsOf(n)[OutOf(air, n, l) + 1]
      BY <1>3, <1>4, <1>6
    <3> QED
      BY <3>1, <3>2, <3>3, <3>4
  <2>2. ASSUME NEW i \in 1 .. l PROVE Right(sends', air', i)
    <3> DEFINE m == air[i].send
    <3>1. Right(sends, air, i)
      BY <1>6 DEF SendInv, WholeOrPrefix, Out, OutOf, PacketsIn, PacketsOf
    <3>2. i \in 0 .. l
      BY <1>a
    <3>3. OutOf(air', m, i) = OutOf(air, m, i)
      BY <1>7, <3>2
    <3>4. PacketsIn(sends', m) = PacketsIn(sends, m)
      BY <1>10, <1>13
    <3>5. air'[i] = air[i]
      BY <1>6
    <3> QED
      BY <3>1, <3>3, <3>4, <3>5
  <2> HIDE DEF Right
  <2>3. \A i \in DOMAIN air' : Right(sends', air', i)
    BY <1>6, <1>b, <2>1, <2>2
  <2> QED
    BY <2>3 DEF Begun, Out, OutOf, PacketsIn, PacketsOf, Right
<1>15. /\ Out(mine[s], Len(air))' = OutOf(air', n, l + 1)
       /\ Out(mine[s], Len(air)) = OutOf(air, n, l)
  BY <1>6 DEF Out, OutOf, n, l
<1>16. Out(mine[s], Len(air))' = Out(mine[s], Len(air)) + 1
  BY <1>7, <1>15
<1>17. \A m : m # n => OutOf(air', m, l + 1) = OutOf(air, m, l)
  <2> SUFFICES ASSUME NEW m, m # n
               PROVE  OutOf(air', m, l + 1) = OutOf(air, m, l)
    OBVIOUS
  <2>1. OutOf(air, m, l) \in Nat
    BY <1>a, OutIsNat
  <2> QED
    BY <1>7, <2>1
<1> QED
  BY <1>6, <1>11, <1>12, <1>14, <1>16, <1>17 DEF l, n
\* Nothing is taken: the air stays as it is, and so do the frames.
LEMMA AirStays ==
  ASSUME SendInv, UNCHANGED air, SameFrames, mine' = mine,
         \A t \in Senders : \/ phase'[t] = phase[t]
                            \/ phase'[t] = "idle"
                            \/ HasLock(t) /\ HasLock(t)'
                            \/ phase[t] = "lock" /\ HasLock(t)'
  PROVE  /\ OnItsOwn' /\ FramesNotInterleaved' /\ Begun'
         /\ \A n : OutOf(air', n, Len(air')) = OutOf(air, n, Len(air))
<1>1. FramesNotInterleaved'
  BY DEF SendInv, FramesNotInterleaved
<1>2. OnItsOwn'
  BY DEF SendInv, OnItsOwn, SameFrames, HasLock
<1>3. \A i \in DOMAIN air : air[i].send \in DOMAIN sends
  BY DEF SendInv, OnItsOwn
<1>4. \A n \in DOMAIN sends : PacketsIn(sends', n) = PacketsIn(sends, n)
  BY DEF PacketsIn, SameFrames
<1>5. Begun'
  <2> SUFFICES ASSUME NEW i \in DOMAIN air
               PROVE  LET n == air[i].send IN
                        /\ OutOf(air, n, i) <= Len(PacketsIn(sends', n))
                        /\ air[i].packet = PacketsIn(sends', n)[OutOf(air, n, i)]
    BY DEF Begun, Out, OutOf, PacketsIn, PacketsOf
  <2> DEFINE n == air[i].send
  <2>1. /\ OutOf(air, n, i) <= Len(PacketsIn(sends, n))
        /\ air[i].packet = PacketsIn(sends, n)[OutOf(air, n, i)]
    BY DEF SendInv, WholeOrPrefix, Out, OutOf, PacketsIn, PacketsOf
  <2> QED
    BY <1>3, <1>4, <2>1
<1> QED
  BY <1>1, <1>2, <1>5

\* A sender that is done: what the others have to send is what they had, and the
\* sends that were whole still are, as long as only its own has got further.
LEMMA DoneKeeps ==
  ASSUME TypeInv, SendInv, NEW s \in Senders, Sending(s),
         NEW outcome \in Outcomes \ {"open"}, Done(s, outcome), InLine',
         OnItsOwn', FramesNotInterleaved', Begun',
         \A m : m # mine[s] => OutOf(air', m, Len(air')) = OutOf(air, m, Len(air)),
         outcome = "ok" =>
           OutOf(air', mine[s], Len(air')) = Len(PacketsIn(sends, mine[s]))
  PROVE  SendInv'
<1>1. \A n \in DOMAIN sends : PacketsIn(sends', n) = PacketsIn(sends, n)
  BY DEF PacketsIn, Done, SameFrames
<1>2. ToSend'
  <2> SUFFICES ASSUME NEW t \in Senders, Sending(t)'
               PROVE  Left(todo'[t], PacketsIn(sends', mine'[t]), OutOf(air', mine'[t], Len(air')))
    BY DEF ToSend, Out, OutOf, PacketsIn, PacketsOf
  <2>1. t # s /\ Sending(t) /\ todo'[t] = todo[t] /\ mine'[t] = mine[t]
    BY DEF Done, Sending
  <2>2. mine[t] \in DOMAIN sends /\ mine[t] # mine[s]
    BY <2>1 DEF SendInv, InLine
  <2>3. Left(todo[t], PacketsIn(sends, mine[t]), OutOf(air, mine[t], Len(air)))
    BY <2>1 DEF SendInv, ToSend, Out, OutOf, PacketsIn, PacketsOf
  <2> QED
    BY <1>1, <2>1, <2>2, <2>3
<1>3. Whole'
  <2> SUFFICES ASSUME NEW n \in DOMAIN sends, sends'[n].outcome = "ok"
               PROVE  OutOf(air', n, Len(air')) = Len(PacketsIn(sends', n))
    BY DEF Whole, Out, OutOf, PacketsIn, PacketsOf, Done, SameFrames
  <2>1. CASE n = mine[s]
    BY <1>1, <2>1 DEF Done
  <2>2. CASE n # mine[s]
    <3>1. sends[n].outcome = "ok"
      BY <2>2 DEF Done
    <3>2. OutOf(air, n, Len(air)) = Len(PacketsIn(sends, n))
      BY <3>1 DEF SendInv, WholeOrPrefix, Out, OutOf, PacketsIn, PacketsOf
    <3> QED
      BY <1>1, <2>2, <3>2
  <2> QED
    BY <2>1, <2>2
<1>4. WholeOrPrefix'
  BY <1>3 DEF Whole, Begun, WholeOrPrefix
<1> QED
  BY <1>2, <1>4 DEF SendInv
-----------------------------------------------------------------------------
(* The steps                                                               *)

LEMMA AtFirst == Init => TypeInv /\ SendInv /\ Known
<1> SUFFICES ASSUME Init PROVE TypeInv /\ SendInv /\ Known
  OBVIOUS
<1>1. TypeInv
  BY GapAssumption DEF Init, TypeInv, Phases
<1>2. InLine /\ OnItsOwn /\ FramesNotInterleaved /\ ToSend /\ WholeOrPrefix
  BY DEF Init, InLine, OnItsOwn, FramesNotInterleaved, ToSend, WholeOrPrefix, Sending, HasLock
<1>3. Known
  BY GapAssumption DEF Init, Known
<1> QED
  BY <1>1, <1>2, <1>3 DEF SendInv

LEMMA SendFrameKeeps ==
  ASSUME TypeInv, SendInv, Known, NEW s \in Senders, NEW size \in FrameSizes,
         SendFrame(s, size)
  PROVE  (TypeInv /\ SendInv /\ Known)'
<1> DEFINE c == Chunks(FrameOf(size), Mtu)
           e == [size |-> size, outcome |-> "open"]
           n == Len(sends) + 1
<1>1. c \in Seq(Seq(Nat)) /\ Len(c) \in Nat /\ Len(c) >= 1
  BY SizesAssumption, CutInPackets
<1>2. e \in Sends
  BY DEF Sends, Outcomes
<1> HIDE DEF c, e
<1>3. /\ phase[s] = "idle" /\ phase' = [phase EXCEPT ![s] = "lock"]
      /\ todo' = [todo EXCEPT ![s] = c]
      /\ waiters' = Append(waiters, s)
      /\ sends' = Append(sends, e)
      /\ mine' = [mine EXCEPT ![s] = Len(sends')]
      /\ UNCHANGED <<since, spent, air, quiet>>
  BY DEF SendFrame, c, e
<1>4. /\ Len(sends) \in Nat /\ n \in Nat /\ sends' \in Seq(Sends) /\ Len(sends') = n
      /\ DOMAIN sends = 1 .. Len(sends) /\ DOMAIN sends' = 1 .. n
      /\ sends'[n] = e /\ \A m \in DOMAIN sends : sends'[m] = sends[m]
      /\ n \notin DOMAIN sends
  BY <1>2, <1>3, AppendProperties DEF TypeInv
<1>a. /\ n \in DOMAIN sends' /\ \A m \in DOMAIN sends : m \in DOMAIN sends'
      /\ \A m \in DOMAIN sends' : m = n \/ m \in DOMAIN sends
  BY <1>4
<1> HIDE DEF n
<1>5. /\ waiters' \in Seq(Senders)
      /\ \A i \in DOMAIN waiters : i \in DOMAIN waiters' /\ waiters'[i] = waiters[i]
      /\ \E i \in DOMAIN waiters' : waiters'[i] = s
      /\ waiters # <<>> => waiters' # <<>> /\ Head(waiters') = Head(waiters)
  <2>1. waiters \in Seq(Senders)
    BY DEF TypeInv
  <2>2. waiters' \in Seq(Senders) /\ Joined(waiters', waiters, s)
    BY <1>3, <2>1, JoinLine
  <2> QED
    BY <2>2 DEF Joined
<1>6. TypeInv'
  BY <1>1, <1>3, <1>4, <1>5 DEF TypeInv, Phases
<1>7. /\ phase'[s] = "lock" /\ mine'[s] = n /\ todo'[s] = c
      /\ \A t \in Senders \ {s} : phase'[t] = phase[t] /\ mine'[t] = mine[t] /\ todo'[t] = todo[t]
  BY <1>3, <1>4 DEF TypeInv
<1>8. \A i \in DOMAIN air : air[i].send \in DOMAIN sends /\ air[i].send # n
  BY <1>4 DEF SendInv, OnItsOwn
<1>9. e.outcome = "open" /\ e.size = size
  BY DEF e
<1>10. InLine'
  <2>1. ASSUME NEW t \in Senders, Sending(t)'
        PROVE  /\ \E i \in DOMAIN waiters' : waiters'[i] = t
               /\ mine'[t] \in DOMAIN sends' /\ sends'[mine'[t]].outcome = "open"
    <3>1. CASE t = s
      BY <1>4, <1>a, <1>5, <1>7, <1>9, <3>1
    <3>2. CASE t # s
      <4>1. Sending(t)
        BY <1>7, <2>1, <3>2 DEF Sending
      <4>2. mine[t] \in DOMAIN sends /\ sends[mine[t]].outcome = "open"
        BY <4>1 DEF SendInv, InLine
      <4>3. \E i \in DOMAIN waiters : waiters[i] = t
        BY <4>1 DEF SendInv, InLine
      <4> QED
        BY <1>4, <1>a, <1>5, <1>7, <3>2, <4>2, <4>3
    <3> QED
      BY <3>1, <3>2
  <2>2. ASSUME NEW t \in Senders, NEW u \in Senders, Sending(t)', Sending(u)',
               mine'[t] = mine'[u]
        PROVE  t = u
    <3>1. \A x \in Senders \ {s} : Sending(x)' => Sending(x) /\ mine'[x] \in DOMAIN sends
      BY <1>7 DEF SendInv, InLine, Sending
    <3> QED
      BY <1>4, <1>7, <2>2, <3>1 DEF SendInv, InLine
  <2>3. ASSUME NEW t \in Senders, HasLock(t)' PROVE Holds(t)'
    <3>1. t # s /\ HasLock(t)
      BY <1>7, <2>3 DEF HasLock
    <3> QED
      BY <1>5, <3>1 DEF SendInv, InLine, Holds
  <2> QED
    BY <2>1, <2>2, <2>3 DEF InLine
<1>11. OnItsOwn' /\ FramesNotInterleaved'
  <2>1. FramesNotInterleaved'
    BY <1>3 DEF SendInv, FramesNotInterleaved
  <2>2. \A i \in DOMAIN air : air[i].send \in DOMAIN sends'
    BY <1>a, <1>8
  <2>3. \A t \in Senders : phase'[t] = "lock" => \A i \in DOMAIN air : air[i].send # mine'[t]
    BY <1>7, <1>8 DEF SendInv, OnItsOwn
  <2>4. \A t \in Senders : HasLock(t)' => t # s /\ HasLock(t)
    BY <1>7 DEF HasLock
  <2> QED
    BY <1>3, <1>7, <2>1, <2>2, <2>3, <2>4 DEF SendInv, OnItsOwn
<1>12. \A m \in DOMAIN sends : PacketsIn(sends', m) = PacketsIn(sends, m)
  BY <1>4 DEF PacketsIn
<1>13. PacketsIn(sends', n) = c
  BY <1>4, <1>9 DEF PacketsIn, c
<1>14. OutOf(air, n, Len(air)) = 0
  <2>1. Len(air) \in Nat /\ DOMAIN air = 1 .. Len(air)
    BY DEF TypeInv
  <2> QED
    BY <1>8, <2>1, OutOfNone
<1>15. ToSend'
  <2> SUFFICES ASSUME NEW t \in Senders, Sending(t)'
               PROVE  Left(todo'[t], PacketsIn(sends', mine'[t]), OutOf(air, mine'[t], Len(air)))
    BY <1>3 DEF ToSend, Out, OutOf, PacketsIn, PacketsOf
  <2>1. CASE t = s
    BY <1>1, <1>7, <1>13, <1>14, <2>1 DEF Left
  <2>2. CASE t # s
    <3>1. Sending(t) /\ mine[t] \in DOMAIN sends
      BY <1>7, <2>2 DEF SendInv, InLine, Sending
    <3>2. Left(todo[t], PacketsIn(sends, mine[t]), OutOf(air, mine[t], Len(air)))
      BY <3>1 DEF SendInv, ToSend, Out, OutOf, PacketsIn, PacketsOf
    <3> QED
      BY <1>7, <1>12, <2>2, <3>1, <3>2
  <2> QED
    BY <2>1, <2>2
<1>16. WholeOrPrefix'
  <2>1. \A i \in DOMAIN air :
          /\ OutOf(air, air[i].send, i) <= Len(PacketsIn(sends, air[i].send))
          /\ air[i].packet = PacketsIn(sends, air[i].send)[OutOf(air, air[i].send, i)]
    BY DEF SendInv, WholeOrPrefix, Out, OutOf, PacketsIn, PacketsOf
  <2>2. \A i \in DOMAIN air :
          /\ OutOf(air, air[i].send, i) <= Len(PacketsIn(sends', air[i].send))
          /\ air[i].packet = PacketsIn(sends', air[i].send)[OutOf(air, air[i].send, i)]
    BY <1>8, <1>12, <2>1
  <2>3. ASSUME NEW m \in DOMAIN sends', sends'[m].outcome = "ok"
        PROVE  OutOf(air, m, Len(air)) = Len(PacketsIn(sends', m))
    <3>1. m \in DOMAIN sends /\ sends[m].outcome = "ok"
      BY <1>4, <1>a, <1>9, <2>3
    <3>2. OutOf(air, m, Len(air)) = Len(PacketsIn(sends, m))
      BY <3>1 DEF SendInv, WholeOrPrefix, Out, OutOf, PacketsIn, PacketsOf
    <3> QED
      BY <1>12, <3>1, <3>2
  <2> QED
    BY <1>3, <2>2, <2>3 DEF WholeOrPrefix, Out, OutOf, PacketsIn, PacketsOf
<1>17. Known'
  BY <1>3, <1>4 DEF Known
<1> QED
  BY <1>6, <1>10, <1>11, <1>15, <1>16, <1>17 DEF SendInv

\* Moving on in a send, without the radio.
LEMMA MoveKeeps ==
  ASSUME TypeInv, SendInv, Known, (\E s \in Senders : Lock(s) \/ StartWrite(s)) \/ Tick
  PROVE  (TypeInv /\ SendInv /\ Known)'
<1>1. /\ UNCHANGED <<todo, waiters, sends, mine, air>>
      /\ \/ phase' = phase
         \/ \E s \in Senders : \/ phase' = [phase EXCEPT ![s] = "pace"] /\ phase[s] = "lock" /\ Holds(s)
                               \/ phase' = [phase EXCEPT ![s] = "write"] /\ phase[s] = "pace"
      /\ since' \in 0 .. MIN_WRITE_GAP /\ quiet' \in 0 .. MIN_WRITE_GAP /\ spent' \in Nat
      /\ quiet >= since => quiet' >= since'
  <2>1. CASE \E s \in Senders : Lock(s) \/ StartWrite(s)
    BY <2>1 DEF Lock, StartWrite, TypeInv
  <2>2. CASE Tick
    BY <2>2, GapAssumption DEF Tick, Sooner, TypeInv
  <2> QED
    BY <2>1, <2>2
<1>2. TypeInv'
  BY <1>1 DEF TypeInv, Phases
<1>3. /\ \A t \in Senders : Sending(t)' <=> Sending(t)
      /\ \A t \in Senders : HasLock(t)' => HasLock(t) \/ Holds(t)
      /\ \A t \in Senders : \/ phase'[t] = phase[t]
                            \/ HasLock(t) /\ HasLock(t)'
                            \/ phase[t] = "lock" /\ HasLock(t)'
  BY <1>1 DEF Sending, HasLock, TypeInv
<1>4. InLine'
  BY <1>1, <1>3 DEF SendInv, InLine, Holds
<1>5. OnItsOwn' /\ FramesNotInterleaved'
  BY <1>1, <1>3, AirStays DEF SameFrames
<1>6. ToSend' /\ WholeOrPrefix'
  BY <1>1, <1>3 DEF SendInv, ToSend, WholeOrPrefix, Out, PacketsOf
<1>7. Known'
  BY <1>1 DEF Known
<1> QED
  BY <1>2, <1>4, <1>5, <1>6, <1>7 DEF SendInv
\* A send that ends without success, wherever it was.
LEMMA FailKeeps ==
  ASSUME TypeInv, SendInv, Known, NEW s \in Senders, Sending(s),
         NEW outcome \in {"transport", "closed", "cancelled"}, Leave(s, outcome),
         (phase[s] = "write" /\ OnAir(s)) \/ UNCHANGED <<air, quiet>>,
         UNCHANGED <<since, spent>>
  PROVE  (TypeInv /\ SendInv /\ Known)'
<1>1. /\ phase' \in [Senders -> Phases] /\ todo' \in [Senders -> Seq(Seq(Nat))]
      /\ waiters' \in Seq(Senders) /\ sends' \in Seq(Sends) /\ mine' = mine
      /\ Done(s, outcome)
      /\ InLine'
  BY LeaveDone DEF SendInv, Outcomes
<1>2. /\ SameFrames /\ phase'[s] = "idle"
      /\ \A t \in Senders \ {s} : phase'[t] = phase[t]
  BY <1>1 DEF Done
<1>3. /\ air' \in Seq(OnTheAir) /\ quiet' \in 0 .. MIN_WRITE_GAP
      /\ OnItsOwn' /\ FramesNotInterleaved' /\ Begun'
      /\ \A m : m # mine[s] => OutOf(air', m, Len(air')) = OutOf(air, m, Len(air))
  <2>1. CASE phase[s] = "write" /\ OnAir(s)
    <3>1. /\ air' = Append(air, [send |-> mine[s], packet |-> Head(todo[s])])
          /\ quiet' \in 0 .. MIN_WRITE_GAP
      BY <2>1, GapAssumption DEF OnAir
    <3> QED
      BY <1>1, <1>2, <2>1, <3>1, AirTaken
  <2>2. CASE UNCHANGED <<air, quiet>>
    BY <1>1, <1>2, <2>2, AirStays DEF TypeInv
  <2> QED
    BY <2>1, <2>2
<1>4. TypeInv'
  BY <1>1, <1>3 DEF TypeInv
<1>5. SendInv'
  BY <1>1, <1>3, DoneKeeps DEF Outcomes
<1>6. Known'
  <2>1. mine[s] \in DOMAIN sends' /\ sends'[mine[s]].outcome = outcome
    BY <1>1, <1>2 DEF SendInv, InLine, Done, SameFrames
  <2> QED
    BY <2>1 DEF Known
<1> QED
  BY <1>4, <1>5, <1>6

LEMMA LeftTail ==
  ASSUME NEW S, NEW r \in Seq(S), NEW p \in Seq(S), NEW k \in Nat, Left(r, p, k), Len(r) > 1
  PROVE  Tail(r) \in Seq(S) /\ Left(Tail(r), p, k + 1)
<1>1. /\ Tail(r) \in Seq(S) /\ Len(Tail(r)) = Len(r) - 1
      /\ \A i \in 1 .. Len(Tail(r)) : Tail(r)[i] = r[i + 1]
  BY HeadTailProperties
<1>2. \A i \in 1 .. Len(Tail(r)) : r[i + 1] = p[k + (i + 1)]
  BY <1>1 DEF Left
<1>3. \A i \in 1 .. Len(Tail(r)) : k + (i + 1) = (k + 1) + i
  BY <1>1
<1>4. k + 1 < Len(p) /\ Len(Tail(r)) = Len(p) - (k + 1)
  BY <1>1 DEF Left
<1> QED
  BY <1>1, <1>2, <1>3, <1>4 DEF Left

\* A packet written: the last of the frame, or one that others follow.
LEMMA WrittenKeeps ==
  ASSUME TypeInv, SendInv, Known, NEW s \in Senders, Written(s)
  PROVE  (TypeInv /\ SendInv /\ Known)'
<1> DEFINE n == mine[s]
           k == OutOf(air, n, Len(air))
<1>1. /\ phase[s] = "write" /\ Sending(s) /\ since' = 0 /\ quiet' = 0 /\ spent' = spent
      /\ air' = Append(air, [send |-> n, packet |-> Head(todo[s])])
      /\ n \in DOMAIN sends
      /\ Left(todo[s], PacketsIn(sends, n), k)
      /\ todo[s] \in Seq(Seq(Nat))
  BY DEF Written, OnAir, SendInv, ToSend, InLine, TypeInv, Sending, Out, OutOf, PacketsIn, PacketsOf
<1>2. /\ PacketsIn(sends, n) \in Seq(Seq(Nat)) /\ Len(PacketsIn(sends, n)) \in Nat
      /\ k \in Nat
  <2>1. PacketsIn(sends, n) \in Seq(Seq(Nat))
    BY <1>1, PacketsType DEF PacketsIn, PacketsOf
  <2>2. Len(air) \in Nat
    BY DEF TypeInv
  <2>3. k \in Nat
    BY <2>2, OutIsNat
  <2> HIDE DEF k
  <2> QED
    BY <2>1, <2>3
<1>3. Known'
  BY <1>1 DEF Known
<1>4. CASE Len(todo[s]) = 1 /\ Leave(s, "ok")
  <2>1. /\ phase' \in [Senders -> Phases] /\ todo' \in [Senders -> Seq(Seq(Nat))]
        /\ waiters' \in Seq(Senders) /\ sends' \in Seq(Sends) /\ mine' = mine
        /\ Done(s, "ok")
        /\ InLine'
    BY <1>1, <1>4, LeaveDone DEF SendInv, Outcomes
  <2>2. /\ SameFrames /\ phase'[s] = "idle"
        /\ \A t \in Senders \ {s} : phase'[t] = phase[t]
    BY <2>1 DEF Done
  <2>3. /\ air' \in Seq(OnTheAir)
        /\ OnItsOwn' /\ FramesNotInterleaved' /\ Begun'
        /\ Out(mine[s], Len(air))' = Out(mine[s], Len(air)) + 1
        /\ \A m : m # mine[s] => OutOf(air', m, Len(air')) = OutOf(air, m, Len(air))
    BY <1>1, <2>1, <2>2, AirTaken
  <2>4. OutOf(air', n, Len(air')) = k + 1
    BY <2>1, <2>3 DEF Out, OutOf
  <2>5. k + 1 = Len(PacketsIn(sends, n))
    <3> HIDE DEF k
    <3>1. 1 = Len(PacketsIn(sends, n)) - k
      BY <1>1, <1>4 DEF Left
    <3> QED
      BY <1>2, <3>1
  <2>6. SendInv'
    BY <1>1, <2>1, <2>3, <2>4, <2>5, DoneKeeps DEF Outcomes
  <2>7. TypeInv'
    BY <1>1, <2>1, <2>3, GapAssumption DEF TypeInv
  <2> QED
    BY <1>3, <2>6, <2>7
<1>5. CASE /\ Len(todo[s]) > 1
           /\ phase' = [phase EXCEPT ![s] = "pace"]
           /\ todo' = [todo EXCEPT ![s] = Tail(@)]
           /\ UNCHANGED <<waiters, sends, mine>>
  <2>1. /\ phase' \in [Senders -> Phases] /\ phase'[s] = "pace"
        /\ \A t \in Senders \ {s} : phase'[t] = phase[t] /\ todo'[t] = todo[t]
        /\ todo'[s] = Tail(todo[s]) /\ mine' = mine /\ SameFrames
    BY <1>5 DEF TypeInv, Phases, SameFrames
  <2>2. /\ air' \in Seq(OnTheAir)
        /\ OnItsOwn' /\ FramesNotInterleaved' /\ Begun'
        /\ Out(mine[s], Len(air))' = Out(mine[s], Len(air)) + 1
        /\ \A m : m # mine[s] => OutOf(air', m, Len(air')) = OutOf(air, m, Len(air))
    BY <1>1, <2>1, AirTaken
  <2>3. OutOf(air', n, Len(air')) = k + 1
    BY <2>1, <2>2 DEF Out, OutOf
  <2>4. Tail(todo[s]) \in Seq(Seq(Nat)) /\ Left(Tail(todo[s]), PacketsIn(sends, n), k + 1)
    BY <1>1, <1>2, <1>5, LeftTail
  <2>5. TypeInv'
    BY <1>1, <1>5, <2>1, <2>2, <2>4, GapAssumption DEF TypeInv
  <2>6. /\ \A t \in Senders : Sending(t)' <=> Sending(t)
        /\ \A t \in Senders : HasLock(t)' <=> HasLock(t)
    BY <1>1, <2>1 DEF Sending, HasLock
  <2>7. InLine'
    BY <1>5, <2>6 DEF SendInv, InLine, Holds
  <2>8. ToSend'
    <3> SUFFICES ASSUME NEW t \in Senders, Sending(t)
                 PROVE  Left(todo'[t], PacketsIn(sends, mine[t]), OutOf(air', mine[t], Len(air')))
      BY <1>5, <2>6 DEF ToSend, Out, OutOf, PacketsIn, PacketsOf
    <3>1. CASE t = s
      BY <2>1, <2>3, <2>4, <3>1
    <3>2. CASE t # s
      <4>1. mine[t] # n
        BY <1>1, <3>2 DEF SendInv, InLine
      <4>2. Left(todo[t], PacketsIn(sends, mine[t]), OutOf(air, mine[t], Len(air)))
        BY DEF SendInv, ToSend, Out, OutOf, PacketsIn, PacketsOf
      <4> QED
        BY <2>1, <2>2, <3>2, <4>1, <4>2
    <3> QED
      BY <3>1, <3>2
  <2>9. Whole'
    <3> SUFFICES ASSUME NEW m \in DOMAIN sends, sends[m].outcome = "ok"
                 PROVE  OutOf(air', m, Len(air')) = Len(PacketsIn(sends, m))
      BY <1>5 DEF Whole, Out, OutOf, PacketsIn, PacketsOf
    <3>1. m # n
      BY <1>1 DEF SendInv, InLine
    <3>2. OutOf(air, m, Len(air)) = Len(PacketsIn(sends, m))
      BY DEF SendInv, WholeOrPrefix, Out, OutOf, PacketsIn, PacketsOf
    <3> QED
      BY <2>2, <3>1, <3>2
  <2>10. WholeOrPrefix'
    BY <2>2, <2>9 DEF Whole, Begun, WholeOrPrefix
  <2> QED
    BY <1>3, <2>2, <2>5, <2>7, <2>8, <2>10 DEF SendInv
<1> QED
  BY <1>4, <1>5 DEF Written
-----------------------------------------------------------------------------
(* The specification                                                       *)

LEMMA StepKeeps == TypeInv /\ SendInv /\ Known /\ [Next]_vars => (TypeInv /\ SendInv /\ Known)'
<1> SUFFICES ASSUME TypeInv, SendInv, Known, [Next]_vars
             PROVE  (TypeInv /\ SendInv /\ Known)'
  OBVIOUS
<1>1. ASSUME NEW s \in Senders, NEW size \in FrameSizes, SendFrame(s, size)
      PROVE  (TypeInv /\ SendInv /\ Known)'
  BY <1>1, SendFrameKeeps
<1>2. CASE (\E s \in Senders : Lock(s) \/ StartWrite(s)) \/ Tick
  BY <1>2, MoveKeeps
<1>3. ASSUME NEW s \in Senders, WriteTimesOut(s)
      PROVE  (TypeInv /\ SendInv /\ Known)'
  BY <1>3, FailKeeps DEF WriteTimesOut, Sending
<1>4. ASSUME NEW s \in Senders, Written(s)
      PROVE  (TypeInv /\ SendInv /\ Known)'
  BY <1>4, WrittenKeeps
<1>5. ASSUME NEW s \in Senders, WriteErrors(s)
      PROVE  (TypeInv /\ SendInv /\ Known)'
  BY <1>5, FailKeeps DEF WriteErrors, Sending
<1>6. ASSUME NEW s \in Senders, Cancel(s)
      PROVE  (TypeInv /\ SendInv /\ Known)'
  BY <1>6, FailKeeps DEF Cancel, Sending
<1>7. CASE UNCHANGED vars
  <2>1. UNCHANGED <<phase, todo, waiters, since, spent, sends, mine, air, quiet>>
    BY <1>7 DEF vars
  <2>2. TypeInv' /\ Known'
    BY <2>1 DEF TypeInv, Known
  <2>3. InLine' /\ OnItsOwn' /\ FramesNotInterleaved'
    BY <2>1 DEF SendInv, InLine, OnItsOwn, FramesNotInterleaved, Sending, HasLock, Holds
  <2>4. ToSend' /\ WholeOrPrefix'
    BY <2>1 DEF SendInv, ToSend, WholeOrPrefix, Sending, Out, PacketsOf
  <2> QED
    BY <2>2, <2>3, <2>4 DEF SendInv
<1> QED
  BY <1>1, <1>2, <1>3, <1>4, <1>5, <1>6, <1>7 DEF Next, Step

\* The types, the line for the lock, and what every sender still has to send.
LEMMA Invariant == Spec => [](TypeInv /\ SendInv /\ Known)
<1> QED
  BY AtFirst, StepKeeps, PTL DEF Spec

\* The last_write lock, held over the loop of packets: the packets of a frame
\* are on the air without another frame's between them, however many tasks
\* send and whichever of them fails, times out or is dropped.
THEOREM FramesStayTogether == Spec => []FramesNotInterleaved
<1>1. SendInv => FramesNotInterleaved
  BY DEF SendInv
<1> QED
  BY Invariant, <1>1, PTL

\* What send_frame puts on the air is what chunk made of the frame, from its
\* first packet on, none left out and none twice, and all of it where the send
\* returns Ok.
THEOREM SentIsAFront == Spec => []WholeOrPrefix
<1>1. SendInv => WholeOrPrefix
  BY DEF SendInv
<1> QED
  BY Invariant, <1>1, PTL

\* Only StartWrite starts a write, and the clock of the lock, which it waits
\* for, is no further on than the radio's.
LEMMA OnlyStartWrite ==
  ASSUME TypeInv, [Next]_vars, NEW s \in Senders, phase[s] # "write", phase'[s] = "write"
  PROVE  StartWrite(s)
<1>1. ASSUME NEW t \in Senders, NEW size \in FrameSizes, SendFrame(t, size) PROVE FALSE
  BY <1>1 DEF SendFrame, TypeInv
<1>2. ASSUME NEW t \in Senders, Lock(t) PROVE FALSE
  BY <1>2 DEF Lock, TypeInv
<1>3. ASSUME NEW t \in Senders, StartWrite(t) PROVE t = s
  BY <1>3 DEF StartWrite, TypeInv
<1>4. ASSUME NEW t \in Senders, Written(t) PROVE FALSE
  BY <1>4 DEF Written, Leave, TypeInv
<1>5. ASSUME NEW t \in Senders, NEW outcome, Leave(t, outcome) PROVE FALSE
  BY <1>5 DEF Leave, TypeInv
<1>6. CASE Tick
  BY <1>6 DEF Tick
<1>7. CASE UNCHANGED vars
  BY <1>7 DEF vars
<1> QED
  BY <1>1, <1>2, <1>3, <1>4, <1>5, <1>6, <1>7
  DEF Next, Step, WriteTimesOut, WriteErrors, Cancel

\* The gap that send_frame sleeps out before each packet: the radio has had
\* MIN_WRITE_GAP of rest, as long as no write was left unconfirmed.
THEOREM RadioRests == Spec => GapKept
<1>1. ASSUME TypeInv, Known, [Next]_vars, NEW s \in Senders,
             phase[s] # "write", phase'[s] = "write",
             \A n \in DOMAIN sends : sends[n].outcome \in {"ok", "open"}
      PROVE  quiet >= MIN_WRITE_GAP
  <2>1. since = MIN_WRITE_GAP
    BY <1>1, OnlyStartWrite DEF StartWrite
  <2>2. quiet >= since
    BY <1>1 DEF Known
  <2> QED
    BY <2>1, <2>2
<1>2. TypeInv /\ Known /\ [Next]_vars =>
        [\A s \in Senders :
           (phase[s] # "write" /\ phase'[s] = "write"
              /\ \A n \in DOMAIN sends : sends[n].outcome \in {"ok", "open"})
           => quiet >= MIN_WRITE_GAP]_vars
  BY <1>1
<1> QED
  BY Invariant, <1>2, PTL DEF Spec, GapKept
=============================================================================
