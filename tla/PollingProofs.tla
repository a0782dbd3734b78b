--------------------------- MODULE PollingProofs ---------------------------
(***************************************************************************)
(* Proofs about Polling, for every set of requests the charger does not    *)
(* know, every RETRIES, and every number of connections.                   *)
(***************************************************************************)
EXTENDS Polling, TLAPS, SequenceTheorems

Asking == [query : [word : Nat, channel : Nat], link : {"this", "before"}]
Answering == [word : Nat, link : {"this", "before"}]

\* Next to the types: an attempt that is due is one of those allowed.
TypeInv ==
  /\ TypeOK
  /\ requests \in Seq(Asking) /\ frames \in Seq(Answering)
  /\ connected \in BOOLEAN
  /\ due => sent <= RETRIES
-----------------------------------------------------------------------------
(* What is on its way, in the order of arrival if nothing is lost: the     *)
(* frames, then the answers to the requests                                *)

Reply(r) == [word |-> r.query.word + 1, link |-> r.link]

WayOf(fs, rs) == [i \in 1 .. Len(fs) + Len(rs) |->
                    IF i <= Len(fs) THEN fs[i] ELSE Reply(rs[i - Len(fs)])]
Way == WayOf(frames, requests)

BindAnswer == \h19
NameAnswer == \hE1
Prelude == {BindAnswer, NameAnswer}

\* What goes for one link l of a way w.
Only(w, l, words) == \A i \in DOMAIN w : w[i].link = l => w[i].word \in words
Never(w, word) == \A i \in DOMAIN w : w[i].word # word

\* An answer to a bind and one to a query of the cycle are not both left of it.
Apart(w, l) ==
  (\E i \in DOMAIN w : w[i].link = l /\ w[i].word = BindAnswer) => Only(w, l, Prelude)

\* Answers to a bind come before those to the name.
BindsFirst(w) ==
  \A i, j \in DOMAIN w : (i < j /\ w[i].word = NameAnswer) => w[j].word # BindAnswer

\* What the last link left comes before what this one asked for.
OldFirst(w) ==
  \A i, j \in DOMAIN w : (i < j /\ w[j].link = "before") => w[i].link = "before"

\* On the first link of a connection.
Fresh ==
  /\ \A i \in DOMAIN Way : Way[i].link = "this"
  /\ Apart(Way, "this")
  /\ at = "binding" => Only(Way, "this", {BindAnswer})
  /\ at = "naming" => Only(Way, "this", Prelude) /\ BindsFirst(Way)
  /\ Polls => Never(Way, BindAnswer)

\* On the second: it gets as far as asking the name only when nothing the first
\* link asked for in its poll cycle is left.
Second ==
  /\ OldFirst(Way) /\ Apart(Way, "before")
  /\ Polls \/ at = "naming" => Only(Way, "before", Prelude)

OfThisLink ==
  /\ links = 0 => Fresh
  /\ links = 1 => Second
  /\ Polls /\ links <= 1 => \A f \in Fields : reading[f] # "before"

PollInv == TypeInv /\ OfThisLink
-----------------------------------------------------------------------------
(* Types                                                                   *)

LEMMA Bounds == RETRIES \in Nat /\ MaxOnAir \in Nat /\ MaxCommands \in Nat
  BY ConstantsAssumption, Zenon

LEMMA CycleWords ==
  /\ Len(Cycle) = 5
  /\ \A i \in 1 .. 5 : /\ Cycle[i] \in [word : Nat, channel : Nat]
                       /\ Cycle[i].word + 1 \notin Prelude
  BY DEF Cycle, Query, Prelude, BindAnswer, NameAnswer

\* Taking the first of a queue, adding one behind it, dropping some of it.
LEMMA QueueTypes ==
  ASSUME NEW T, NEW s \in Seq(T)
  PROVE  /\ Len(s) \in Nat /\ DOMAIN s = 1 .. Len(s)
         /\ s # <<>> => /\ Head(s) \in T /\ Head(s) = s[1] /\ Tail(s) \in Seq(T)
                        /\ Len(s) > 0 /\ Len(Tail(s)) = Len(s) - 1
                        /\ \A i \in 1 .. Len(s) - 1 : Tail(s)[i] = s[i + 1]
         /\ \A x \in T : /\ Append(s, x) \in Seq(T) /\ Len(Append(s, x)) = Len(s) + 1
                         /\ \A i \in 1 .. Len(s) : Append(s, x)[i] = s[i]
                         /\ Append(s, x)[Len(s) + 1] = x
         /\ <<>> \in Seq(T) /\ Len(<<>>) = 0
  BY EmptySeq, HeadTailProperties, AppendProperties

\* What of a queue is left, marked as of a link before.
LEMMA BeforeTypes ==
  ASSUME NEW T \in {Asking, Answering}, NEW s \in Seq(T), NEW n \in 1 .. Len(s) + 1
  PROVE  LET r == SubSeq(s, n, Len(s)) IN
           /\ Before(r) \in Seq(T) /\ Len(Before(r)) = Len(s) + 1 - n
           /\ \A i \in 1 .. Len(s) + 1 - n :
                Before(r)[i] = [s[i + n - 1] EXCEPT !.link = "before"]
<1> DEFINE r == SubSeq(s, n, Len(s))
           m == Len(s) + 1 - n
<1>1. Len(s) \in Nat /\ m \in Nat
  OBVIOUS
<1>2. /\ r \in Seq(T) /\ Len(r) = m
      /\ \A i \in 1 .. m : r[i] = s[i + n - 1]
  <2>1. \A i \in n .. Len(s) : s[i] \in T
    OBVIOUS
  <2>2. /\ Len(r) = IF n <= Len(s) THEN Len(s) - n + 1 ELSE 0
        /\ \A i \in 1 .. Len(s) - n + 1 : r[i] = s[n + i - 1]
    BY <1>1
  <2> QED
    BY <1>1, <2>1, <2>2
<1>3. DOMAIN r = 1 .. m
  BY <1>2
<1> HIDE DEF r, m
<1>4. ASSUME NEW x \in T PROVE [x EXCEPT !.link = "before"] \in T
  <2>1. CASE T = Asking
    BY <1>4, <2>1 DEF Asking
  <2>2. CASE T = Answering
    BY <1>4, <2>2 DEF Answering
  <2> QED
    BY <2>1, <2>2
<1>5. \A i \in 1 .. m : [r[i] EXCEPT !.link = "before"] \in T
  BY <1>2, <1>4
<1>6. Before(r) = [i \in 1 .. m |-> [r[i] EXCEPT !.link = "before"]]
  BY <1>3 DEF Before
<1>7. Before(r) \in Seq(T) /\ Len(Before(r)) = m
  BY <1>1, <1>5, <1>6
<1> QED
  BY <1>2, <1>6, <1>7 DEF r, m

LEMMA RequestType ==
  ASSUME TypeInv PROVE Request \in [word : Nat, channel : Nat]
<1>1. next + 1 \in 1 .. 5
  BY CycleWords DEF TypeInv, TypeOK
<1> QED
  BY <1>1, CycleWords DEF Request, Query

LEMMA InitType == Init => TypeInv
<1> SUFFICES ASSUME Init PROVE TypeInv
  OBVIOUS
<1>1. requests = <<>> /\ frames = <<>> /\ next = 0 /\ sent = 0 /\ given = 0 /\ commands = 0
  BY DEF Init
<1>2. requests \in Seq(Asking) /\ frames \in Seq(Answering)
  BY <1>1, EmptySeq
<1>3. Len(requests) + Len(frames) <= MaxOnAir
  BY <1>1, Bounds
<1>4. sent \in 0 .. RETRIES + 1 /\ next \in 0 .. Len(Cycle) - 1 /\ given \in 0 .. MaxCommands
  BY <1>1, Bounds, CycleWords
<1>5. reading \in [Fields -> Value] /\ shown \in [Fields -> Value]
  BY DEF Init, NoReading, Value
<1>6. /\ at \in Stages /\ due = FALSE /\ told \in {"none", "Connecting", "Connected", "Lost"}
      /\ commands \in 0 .. given /\ links \in 0 .. 2 /\ connected = FALSE
  BY DEF Init, Stages
<1> QED
  BY <1>2, <1>3, <1>4, <1>5, <1>6 DEF TypeInv, TypeOK

\* A step that keeps the parts of the state typed, one by one.
TaskOK == /\ at \in Stages /\ sent \in 0 .. RETRIES + 1 /\ due \in BOOLEAN
          /\ next \in 0 .. Len(Cycle) - 1
          /\ reading \in [Fields -> Value]
          /\ told \in {"none", "Connecting", "Connected", "Lost"}
          /\ due => sent <= RETRIES
WindowOK == /\ shown \in [Fields -> Value]
            /\ commands \in 0 .. given /\ given \in 0 .. MaxCommands
AirOK == /\ links \in 0 .. 2 /\ connected \in BOOLEAN
         /\ requests \in Seq(Asking) /\ frames \in Seq(Answering)
         /\ Len(requests) + Len(frames) <= MaxOnAir

LEMMA TypeParts == TypeInv <=> (TaskOK /\ WindowOK /\ AirOK)
  BY DEF TypeInv, TypeOK, TaskOK, WindowOK, AirOK

\* A call starts or the task goes on without one.
LEMMA StageTypes ==
  ASSUME NEW stage \in Stages, Calls(stage) \/ Rests(stage)
  PROVE  /\ at' \in Stages /\ sent' \in 0 .. RETRIES + 1 /\ due' \in BOOLEAN
         /\ due' => sent' <= RETRIES
<1>1. 0 \in 0 .. RETRIES + 1 /\ 0 <= RETRIES
  BY Bounds
<1> QED
  BY <1>1, Zenon DEF Calls, Rests

LEMMA AdvanceType ==
  ASSUME TypeInv, Advance PROVE next' \in 0 .. Len(Cycle) - 1
  BY CycleWords DEF TypeInv, TypeOK, Advance

LEMMA OlderType ==
  ASSUME NEW r \in [Fields -> Value] PROVE Older(r) \in [Fields -> Value]
  BY DEF Older, Value

LEMMA AbsorbType ==
  ASSUME TypeInv, NEW f \in Answering PROVE Absorb(f) \in [Fields -> Value]
<1>1. reading \in [Fields -> Value] /\ f.link \in Value
  BY DEF TypeInv, TypeOK, Answering, Value
<1> QED
  BY <1>1 DEF Absorb

LEMMA AnsweredTypes ==
  ASSUME TypeInv, NEW f \in Answering, Answered(f)
  PROVE  TaskOK' /\ shown' \in [Fields -> Value]
<1> USE DEF TaskOK, WindowOK
<1>0. TaskOK /\ WindowOK
  BY TypeParts
<1>1. ASSUME Calls("naming"), UNCHANGED <<next, reading, told, shown>>
      PROVE  TaskOK' /\ shown' \in [Fields -> Value]
  BY <1>0, <1>1, StageTypes DEF Stages
<1>2. ASSUME Loses, UNCHANGED <<next, reading, shown>>
      PROVE  TaskOK' /\ shown' \in [Fields -> Value]
  BY <1>0, <1>2, StageTypes DEF Stages, Loses, Tells
<1>3. ASSUME StartsPolling, UNCHANGED <<shown>>
      PROVE  TaskOK' /\ shown' \in [Fields -> Value]
  BY <1>0, <1>3, StageTypes, CycleWords DEF Stages, StartsPolling, Tells, NoReading, Value
<1>4. ASSUME Rests("top"), UNCHANGED <<next, reading, told, shown>>
      PROVE  TaskOK' /\ shown' \in [Fields -> Value]
  BY <1>0, <1>4, StageTypes DEF Stages
<1>5. ASSUME Rests("top"), Advance, reading' \in {Absorb(f), reading},
             shown' = (IF PassDone THEN reading' ELSE shown), UNCHANGED <<told>>
      PROVE  TaskOK' /\ shown' \in [Fields -> Value]
  <2>1. reading' \in [Fields -> Value] /\ shown' \in [Fields -> Value]
    BY <1>0, <1>5, AbsorbType
  <2> QED
    BY <1>0, <1>5, <2>1, StageTypes, AdvanceType DEF Stages
<1> QED
  BY <1>1, <1>2, <1>3, <1>4, <1>5 DEF Answered

LEMMA StepType == TypeInv /\ [Next]_vars => TypeInv'
<1> SUFFICES ASSUME TypeInv, [Next]_vars PROVE TypeInv'
  OBVIOUS
<1>0. TaskOK /\ WindowOK /\ AirOK
  BY TypeParts
<1>a. TaskOK' /\ WindowOK' /\ AirOK' => TypeInv'
  BY DEF TypeInv, TypeOK, TaskOK, WindowOK, AirOK
<1>b. UNCHANGED <<connected, air>> => AirOK'
  BY <1>0 DEF AirOK, air
<1>c. UNCHANGED <<shown, commands, given>> => WindowOK'
  BY <1>0 DEF WindowOK
<1>d. UNCHANGED task => TaskOK'
  BY <1>0 DEF TaskOK, task
<1>e. ASSUME NEW stage \in Stages, Calls(stage) \/ Rests(stage),
             UNCHANGED <<next, reading>>,
             told' \in {"none", "Connecting", "Connected", "Lost"}
      PROVE  TaskOK'
  BY <1>0, <1>e, StageTypes DEF TaskOK
<1>f. told \in {"none", "Connecting", "Connected", "Lost"}
  BY <1>0 DEF TaskOK
<1>g. /\ requests \in Seq(Asking) /\ frames \in Seq(Answering)
      /\ Len(requests) + Len(frames) <= MaxOnAir
      /\ Len(requests) \in Nat /\ Len(frames) \in Nat /\ MaxOnAir \in Nat
      /\ links \in 0 .. 2 /\ connected \in BOOLEAN
      /\ <<>> \in Seq(Asking) /\ <<>> \in Seq(Answering) /\ Len(<<>>) = 0
  BY <1>0, Bounds, EmptySeq DEF AirOK
<1>1. ASSUME Try PROVE TypeInv'
  BY <1>0, <1>a, <1>b, <1>e, <1>1 DEF Try, Tells, Stages, WindowOK
<1>2. ASSUME TakeCommand PROVE TypeInv'
  BY <1>0, <1>a, <1>b, <1>e, <1>f, <1>2 DEF TakeCommand, Stages, WindowOK
<1>3. ASSUME AskNext PROVE TypeInv'
  BY <1>a, <1>b, <1>c, <1>e, <1>f, <1>3 DEF AskNext, Stages
<1>4. ASSUME Send PROVE TypeInv'
  <2>1. TaskOK' /\ WindowOK'
    <3>1. due => sent + 1 \in 0 .. RETRIES + 1
      BY <1>0, Bounds DEF TaskOK
    <3>2. due /\ due' = FALSE /\ sent' = sent + 1
          /\ UNCHANGED <<at, next, reading, told, shown, commands, given>>
      BY <1>4 DEF Send
    <3> QED
      BY <1>0, <1>c, <3>1, <3>2, Zenon DEF TaskOK
  <2>2. [query |-> Request, link |-> "this"] \in Asking
    BY RequestType DEF Asking
  <2>3. AirOK'
    <3>1. frames' = frames /\ links' = links /\ connected' = connected
      BY <1>4 DEF Send
    <3>2. CASE requests' = requests
      BY <1>g, <3>1, <3>2 DEF AirOK
    <3>3. CASE /\ Len(requests) + Len(frames) < MaxOnAir
               /\ requests' = Append(requests, [query |-> Request, link |-> "this"])
      <4>1. requests' \in Seq(Asking) /\ Len(requests') = Len(requests) + 1
        BY <1>g, <2>2, <3>3, QueueTypes
      <4> QED
        BY <1>g, <3>1, <3>3, <4>1 DEF AirOK
    <3> QED
      BY <1>4, <3>2, <3>3 DEF Send
  <2> QED
    BY <1>a, <2>1, <2>3
<1>5. ASSUME Accept PROVE TypeInv'
  <2>1. Head(frames) \in Answering /\ AirOK'
    BY <1>g, <1>5, QueueTypes DEF Accept, AirOK
  <2>2. TaskOK' /\ WindowOK'
    BY <1>0, <1>5, <2>1, AnsweredTypes DEF Accept, WindowOK
  <2> QED
    BY <1>a, <2>1, <2>2
<1>6. ASSUME SetAside PROVE TypeInv'
  <2>1. AirOK'
    BY <1>g, <1>6, QueueTypes DEF SetAside, AirOK
  <2> QED
    BY <1>a, <1>c, <1>d, <1>6, <2>1 DEF SetAside
<1>7. ASSUME LinkConnects PROVE TypeInv'
  <2>1. TaskOK'
    BY <1>0, <1>7, OlderType, StageTypes DEF LinkConnects, TaskOK, Stages
  <2>2. WindowOK'
    BY <1>0, <1>7, OlderType DEF LinkConnects, WindowOK
  <2>3. CASE connected
    <3>1. PICK n \in 1 .. Len(frames) + 1 :
            frames' = Before(SubSeq(frames, n, Len(frames)))
      BY <1>7, <2>3 DEF LinkConnects
    <3>2. frames' \in Seq(Answering) /\ Len(frames') = Len(frames) + 1 - n
      BY <1>g, <3>1, BeforeTypes
    <3>3. requests' \in Seq(Asking) /\ Len(requests') = Len(requests)
      <4>1. SubSeq(requests, 1, Len(requests)) = requests
        BY <1>g, SubSeqFull
      <4>2. requests' = Before(requests) /\ 1 \in 1 .. Len(requests) + 1
        BY <1>7, <1>g, <2>3 DEF LinkConnects
      <4>3. requests' \in Seq(Asking) /\ Len(requests') = Len(requests) + 1 - 1
        <5>1. \A m \in 1 .. Len(requests) + 1 :
                LET r == Before(SubSeq(requests, m, Len(requests))) IN
                  r \in Seq(Asking) /\ Len(r) = Len(requests) + 1 - m
          BY <1>g, BeforeTypes
        <5>2. requests' = Before(SubSeq(requests, 1, Len(requests)))
          BY <4>1, <4>2
        <5> QED
          BY <4>2, <5>1, <5>2
      <4> QED
        BY <1>g, <4>3
    <3>4. links' \in 0 .. 2 /\ connected' = TRUE
      BY <1>7, <1>g, <2>3 DEF LinkConnects
    <3>5. AirOK'
      BY <1>g, <3>2, <3>3, <3>4 DEF AirOK
    <3> QED
      BY <1>a, <2>1, <2>2, <3>5
  <2>4. CASE ~connected
    <3>1. AirOK'
      BY <1>7, <1>g, <2>4 DEF LinkConnects, AirOK
    <3> QED
      BY <1>a, <2>1, <2>2, <3>1
  <2> QED
    BY <1>a, <2>1, <2>2, <2>3, <2>4
<1>8. ASSUME LinkDoesNotConnect PROVE TypeInv'
  <2>1. TaskOK' /\ WindowOK'
    BY <1>0, <1>e, <1>8 DEF LinkDoesNotConnect, Loses, Tells, Stages, WindowOK
  <2>2. AirOK'
    <3>1. Len(<<>>) + Len(<<>>) <= MaxOnAir /\ 0 \in 0 .. 2
      BY <1>g
    <3>2. \/ UNCHANGED <<connected, air>>
          \/ connected' = TRUE /\ links' = 0 /\ requests' = <<>> /\ frames' = <<>>
      BY <1>8 DEF LinkDoesNotConnect
    <3> QED
      BY <1>b, <1>g, <3>1, <3>2, Zenon DEF AirOK
  <2> QED
    BY <1>a, <2>1, <2>2
<1>9. ASSUME TimesOut PROVE TypeInv'
  <2>1. CASE MayResend /\ due' = TRUE /\ UNCHANGED <<at, sent, next, reading, told, shown>>
    BY <1>0, <1>a, <1>b, <1>c, <1>9, <2>1, Bounds
    DEF TimesOut, TaskOK, MayResend
  <2>2. CASE Unanswered
    <3>1. CASE Loses /\ UNCHANGED <<next, reading, shown>>
      BY <1>0, <1>a, <1>b, <1>e, <1>9, <3>1 DEF TimesOut, Loses, Tells, Stages, WindowOK
    <3>2. CASE Rests("top") /\ UNCHANGED <<next, reading, told, shown>>
      BY <1>a, <1>b, <1>c, <1>e, <1>f, <1>9, <3>2 DEF TimesOut, Stages
    <3>3. CASE Rests("top") /\ Advance /\ UNCHANGED <<reading, told, shown>>
      <4>1. TaskOK'
        BY <1>0, <3>3, StageTypes, AdvanceType DEF TaskOK, Stages
      <4> QED
        BY <1>a, <1>b, <1>c, <1>9, <3>3, <4>1 DEF TimesOut
    <3> QED
      BY <2>2, <3>1, <3>2, <3>3 DEF Unanswered
  <2> QED
    BY <1>9, <2>1, <2>2 DEF TimesOut
<1>10. ASSUME LinkFails PROVE TypeInv'
  BY <1>0, <1>a, <1>b, <1>e, <1>10 DEF LinkFails, Loses, Tells, Stages, WindowOK
<1>11. ASSUME Give PROVE TypeInv'
  <2>1. WindowOK'
    BY <1>0, <1>11, Bounds DEF Give, WindowOK
  <2> QED
    BY <1>a, <1>b, <1>d, <1>11, <2>1 DEF Give
<1>12. ASSUME Replaced PROVE TypeInv'
  <2>1. WindowOK' /\ TaskOK'
    BY <1>0, <1>e, <1>12 DEF Replaced, WindowOK, Stages
  <2> QED
    BY <1>a, <1>b, <1>12, <2>1 DEF Replaced
<1>13. ASSUME Drops PROVE TypeInv'
  <2>1. AirOK'
    <3>1. Len(<<>>) + Len(frames) <= MaxOnAir
      BY <1>g
    <3>2. requests' = <<>> /\ connected' = FALSE /\ frames' = frames /\ links' = links
      BY <1>13 DEF Drops
    <3> QED
      BY <1>g, <3>1, <3>2, Zenon DEF AirOK
  <2> QED
    BY <1>a, <1>c, <1>d, <1>13, <2>1 DEF Drops
<1>14. ASSUME Answer PROVE TypeInv'
  <2> DEFINE r == Head(requests)
             f == [word |-> r.query.word + 1, link |-> r.link]
  <2>1. r \in Asking /\ requests' = Tail(requests) /\ requests # <<>>
    BY <1>14, <1>g, QueueTypes DEF Answer
  <2>2. f \in Answering
    BY <2>1 DEF Asking, Answering
  <2>3. frames' = frames \/ frames' = Append(frames, f)
    BY <1>14 DEF Answer
  <2> HIDE DEF f, r
  <2>4. AirOK'
    <3>1. /\ requests' \in Seq(Asking) /\ Len(requests') = Len(requests) - 1
          /\ links' = links /\ connected' = connected
      BY <1>14, <1>g, <2>1, QueueTypes DEF Answer
    <3>2. frames' \in Seq(Answering) /\ Len(frames') \in {Len(frames), Len(frames) + 1}
      BY SMTT(30), <1>g, <2>2, <2>3, QueueTypes
    <3> QED
      BY <1>g, <3>1, <3>2 DEF AirOK
  <2> QED
    BY <1>a, <1>c, <1>d, <1>14, <2>4 DEF Answer
<1>15. ASSUME UNCHANGED vars PROVE TypeInv'
  BY <1>a, <1>b, <1>c, <1>d, <1>15 DEF vars
<1> QED
  BY <1>1, <1>2, <1>3, <1>4, <1>5, <1>6, <1>7, <1>8, <1>9, <1>10, <1>11, <1>12, <1>13,
     <1>14, <1>15 DEF Next, Step

\* The types of a device task and of what is on the air, and that an attempt
\* that is due is one of those allowed.
THEOREM TypeInvariant == Spec => []TypeInv
<1> QED
  BY InitType, StepType, PTL DEF Spec

\* The variables of a device task, its link and the air keep their types: no
\* request is sent more often than the client allows, and the index of the
\* cycle stays within it.
THEOREM TypeCorrect == Spec => []TypeOK
<1>1. TypeInv => TypeOK
  BY DEF TypeInv
<1> QED
  BY <1>1, TypeInvariant, PTL
-----------------------------------------------------------------------------
(* What becomes of the way                                                 *)

\* The places of a way.
IsWay(w, fs, rs) ==
  /\ DOMAIN w = 1 .. Len(fs) + Len(rs)
  /\ \A i \in 1 .. Len(fs) : w[i] = fs[i]
  /\ \A i \in 1 .. Len(rs) : w[Len(fs) + i] = Reply(rs[i])

LEMMA WayType ==
  ASSUME NEW fs \in Seq(Answering), NEW rs \in Seq(Asking)
  PROVE  /\ IsWay(WayOf(fs, rs), fs, rs)
         /\ Len(fs) \in Nat /\ Len(rs) \in Nat
         /\ \A i \in DOMAIN WayOf(fs, rs) : WayOf(fs, rs)[i] \in Answering
<1>1. \A r \in Asking : Reply(r) \in Answering
  BY DEF Asking, Answering, Reply
<1>2. /\ Len(fs) \in Nat /\ Len(rs) \in Nat
      /\ \A i \in 1 .. Len(fs) : fs[i] \in Answering
      /\ \A i \in 1 .. Len(rs) : rs[i] \in Asking
  OBVIOUS
<1> QED
  BY <1>1, <1>2 DEF WayOf, IsWay

\* A place on the way is a frame's or a request's.
LEMMA Places ==
  ASSUME NEW m \in Nat, NEW n \in Nat, NEW i \in 1 .. m + n
  PROVE  i \in 1 .. m \/ \E k \in 1 .. n : i = m + k
<1>1. CASE i <= m
  BY <1>1
<1>2. CASE i > m
  <2>1. i - m \in 1 .. n /\ i = m + (i - m)
    BY <1>2
  <2> QED
    BY <2>1
<1> QED
  BY <1>1, <1>2

\* Some of a way, in its order.
Thinned(v, w) ==
  \E f \in [DOMAIN v -> DOMAIN w] :
    /\ \A i \in DOMAIN v : v[i] = w[f[i]]
    /\ \A i, j \in DOMAIN v : i < j => f[i] < f[j]

LEMMA ThinnedKeeps ==
  ASSUME NEW v, NEW w, Thinned(v, w)
  PROVE  /\ \A l : (\A i \in DOMAIN w : w[i].link = l) => \A i \in DOMAIN v : v[i].link = l
         /\ \A l, words : Only(w, l, words) => Only(v, l, words)
         /\ \A word : Never(w, word) => Never(v, word)
         /\ \A l : Apart(w, l) => Apart(v, l)
         /\ BindsFirst(w) => BindsFirst(v)
         /\ OldFirst(w) => OldFirst(v)
<1>1. PICK f \in [DOMAIN v -> DOMAIN w] :
        /\ \A i \in DOMAIN v : v[i] = w[f[i]]
        /\ \A i, j \in DOMAIN v : i < j => f[i] < f[j]
  BY DEF Thinned
<1>2. \A i \in DOMAIN v : f[i] \in DOMAIN w
  OBVIOUS
<1>3. \A l, words : Only(w, l, words) => Only(v, l, words)
  BY <1>1, <1>2, Zenon DEF Only
<1>4. \A l : Apart(w, l) => Apart(v, l)
  <2> SUFFICES ASSUME NEW l, Apart(w, l), NEW i \in DOMAIN v,
                      v[i].link = l, v[i].word = BindAnswer
               PROVE  Only(v, l, Prelude)
    BY DEF Apart
  <2>1. w[f[i]].link = l /\ w[f[i]].word = BindAnswer /\ f[i] \in DOMAIN w
    BY <1>1, <1>2
  <2>2. Only(w, l, Prelude)
    BY <2>1 DEF Apart
  <2> QED
    BY <1>3, <2>2
<1>5. BindsFirst(w) => BindsFirst(v)
  <2> SUFFICES ASSUME BindsFirst(w), NEW i \in DOMAIN v, NEW j \in DOMAIN v,
                      i < j, v[i].word = NameAnswer
               PROVE  v[j].word # BindAnswer
    BY DEF BindsFirst
  <2>1. /\ f[i] \in DOMAIN w /\ f[j] \in DOMAIN w /\ f[i] < f[j]
        /\ v[i] = w[f[i]] /\ v[j] = w[f[j]]
    BY <1>1, <1>2
  <2> QED
    BY <2>1 DEF BindsFirst
<1>6. OldFirst(w) => OldFirst(v)
  <2> SUFFICES ASSUME OldFirst(w), NEW i \in DOMAIN v, NEW j \in DOMAIN v,
                      i < j, v[j].link = "before"
               PROVE  v[i].link = "before"
    BY DEF OldFirst
  <2>1. /\ f[i] \in DOMAIN w /\ f[j] \in DOMAIN w /\ f[i] < f[j]
        /\ v[i] = w[f[i]] /\ v[j] = w[f[j]]
    BY <1>1, <1>2
  <2> QED
    BY <2>1 DEF OldFirst
<1>7. \A l : (\A i \in DOMAIN w : w[i].link = l) => \A i \in DOMAIN v : v[i].link = l
  BY <1>1, <1>2
<1>8. \A word : Never(w, word) => Never(v, word)
  BY <1>1, <1>2 DEF Never
<1> QED
  BY <1>3, <1>4, <1>5, <1>6, <1>7, <1>8

LEMMA SameIsThinned ==
  ASSUME NEW w, DOMAIN w \subseteq Int PROVE Thinned(w, w)
<1> DEFINE f == [i \in DOMAIN w |-> i]
<1>1. /\ f \in [DOMAIN w -> DOMAIN w]
      /\ \A i \in DOMAIN w : w[i] = w[f[i]]
      /\ \A i, j \in DOMAIN w : i < j => f[i] < f[j]
  OBVIOUS
<1> QED
  BY <1>1 DEF Thinned

\* v is the way w of length n without its place m.
Without(v, w, n, m) ==
  /\ n \in Nat /\ m \in 1 .. n /\ DOMAIN w = 1 .. n /\ DOMAIN v = 1 .. n - 1
  /\ \A i \in 1 .. m - 1 : v[i] = w[i]
  /\ \A i \in m .. n - 1 : v[i] = w[i + 1]

LEMMA OneGone ==
  ASSUME NEW v, NEW w, NEW n, NEW m, Without(v, w, n, m)
  PROVE  Thinned(v, w)
<1> USE DEF Without
<1> DEFINE f == [i \in 1 .. n - 1 |-> IF i < m THEN i ELSE i + 1]
<1>1. f \in [DOMAIN v -> DOMAIN w]
  OBVIOUS
<1>2. \A i \in DOMAIN v : v[i] = w[f[i]]
  OBVIOUS
<1>3. \A i, j \in DOMAIN v : i < j => f[i] < f[j]
  OBVIOUS
<1> HIDE DEF f
<1> QED
  BY <1>1, <1>2, <1>3 DEF Thinned

\* The client takes a frame.
LEMMA FrameTaken ==
  ASSUME NEW fs \in Seq(Answering), NEW rs \in Seq(Asking), fs # <<>>
  PROVE  Without(WayOf(Tail(fs), rs), WayOf(fs, rs), Len(fs) + Len(rs), 1)
<1> DEFINE F == Len(fs)
           R == Len(rs)
           w == WayOf(fs, rs)
           v == WayOf(Tail(fs), rs)
<1>1. /\ F \in Nat /\ F > 0 /\ R \in Nat /\ Len(Tail(fs)) = F - 1
      /\ Tail(fs) \in Seq(Answering)
      /\ \A i \in 1 .. F - 1 : Tail(fs)[i] = fs[i + 1]
  BY QueueTypes
<1>2. /\ DOMAIN w = 1 .. F + R
      /\ \A i \in 1 .. F : w[i] = fs[i]
      /\ \A i \in 1 .. R : w[F + i] = Reply(rs[i])
  BY WayType DEF IsWay
<1>3. /\ DOMAIN v = 1 .. (F - 1) + R
      /\ \A i \in 1 .. F - 1 : v[i] = Tail(fs)[i]
      /\ \A i \in 1 .. R : v[(F - 1) + i] = Reply(rs[i])
  <2>1. IsWay(v, Tail(fs), rs)
    BY <1>1, WayType
  <2> HIDE DEF v
  <2> QED
    BY <1>1, <2>1 DEF IsWay
<1> HIDE DEF F, R, v, w
<1>4. ASSUME NEW i \in 1 .. (F - 1) + R PROVE v[i] = w[i + 1]
  <2>1. CASE i \in 1 .. F - 1
    BY <1>1, <1>2, <1>3, <2>1
  <2>2. ASSUME NEW k \in 1 .. R, i = (F - 1) + k PROVE v[i] = w[i + 1]
    <3>1. i + 1 = F + k
      BY <1>1, <2>2
    <3> QED
      BY <1>2, <1>3, <2>2, <3>1
  <2>3. F - 1 \in Nat
    BY <1>1
  <2> QED
    BY <1>1, <2>1, <2>2, <2>3, Places
<1> QED
  BY <1>1, <1>2, <1>3, <1>4 DEF Without, F, R, v, w

\* A request is lost, or its answer.
LEMMA RequestLost ==
  ASSUME NEW fs \in Seq(Answering), NEW rs \in Seq(Asking), rs # <<>>
  PROVE  Without(WayOf(fs, Tail(rs)), WayOf(fs, rs), Len(fs) + Len(rs), Len(fs) + 1)
<1> DEFINE F == Len(fs)
           R == Len(rs)
           w == WayOf(fs, rs)
           v == WayOf(fs, Tail(rs))
<1>1. /\ F \in Nat /\ R \in Nat /\ R > 0 /\ Len(Tail(rs)) = R - 1
      /\ Tail(rs) \in Seq(Asking)
      /\ \A i \in 1 .. R - 1 : Tail(rs)[i] = rs[i + 1]
  BY QueueTypes
<1>2. /\ DOMAIN w = 1 .. F + R
      /\ \A i \in 1 .. F : w[i] = fs[i]
      /\ \A i \in 1 .. R : w[F + i] = Reply(rs[i])
  BY WayType DEF IsWay
<1>3. /\ DOMAIN v = 1 .. F + (R - 1)
      /\ \A i \in 1 .. F : v[i] = fs[i]
      /\ \A i \in 1 .. R - 1 : v[F + i] = Reply(Tail(rs)[i])
  <2>1. IsWay(v, fs, Tail(rs))
    BY <1>1, WayType
  <2> HIDE DEF v
  <2> QED
    BY <1>1, <2>1 DEF IsWay
<1> HIDE DEF F, R, v, w
<1>4. ASSUME NEW i \in F + 1 .. F + R - 1 PROVE v[i] = w[i + 1]
  <2>1. PICK k \in 1 .. R - 1 : i = F + k
    BY <1>1, Places
  <2>2. v[F + k] = Reply(rs[k + 1])
    BY <1>1, <1>3
  <2>3. k + 1 \in 1 .. R /\ i + 1 = F + (k + 1)
    BY <1>1, <2>1
  <2>4. w[F + (k + 1)] = Reply(rs[k + 1])
    BY <1>2, <2>3
  <2> QED
    BY <2>1, <2>2, <2>3, <2>4
<1> QED
  BY <1>1, <1>2, <1>3, <1>4 DEF Without, F, R, v, w

\* A request is answered: its place is that of its answer.
LEMMA RequestAnswered ==
  ASSUME NEW fs \in Seq(Answering), NEW rs \in Seq(Asking), rs # <<>>
  PROVE  WayOf(Append(fs, Reply(Head(rs))), Tail(rs)) = WayOf(fs, rs)
<1> DEFINE F == Len(fs)
           R == Len(rs)
           f == Reply(Head(rs))
           w == WayOf(fs, rs)
           v == WayOf(Append(fs, f), Tail(rs))
<1>1. /\ F \in Nat /\ R \in Nat /\ R > 0 /\ Len(Tail(rs)) = R - 1
      /\ Tail(rs) \in Seq(Asking) /\ Head(rs) \in Asking /\ Head(rs) = rs[1]
      /\ \A i \in 1 .. R - 1 : Tail(rs)[i] = rs[i + 1]
  BY QueueTypes
<1>2. f \in Answering
  BY <1>1 DEF Asking, Answering, Reply
<1>3. /\ DOMAIN w = 1 .. F + R
      /\ \A i \in 1 .. F : w[i] = fs[i]
      /\ \A i \in 1 .. R : w[F + i] = Reply(rs[i])
  BY WayType DEF IsWay
<1>4. /\ Append(fs, f) \in Seq(Answering) /\ Len(Append(fs, f)) = F + 1
      /\ Append(fs, f)[F + 1] = f
      /\ \A i \in 1 .. F : Append(fs, f)[i] = fs[i]
  <2> HIDE DEF f
  <2> QED
    BY <1>2, QueueTypes
<1>5. /\ DOMAIN v = 1 .. (F + 1) + (R - 1)
      /\ \A i \in 1 .. F + 1 : v[i] = Append(fs, f)[i]
      /\ \A i \in 1 .. R - 1 : v[(F + 1) + i] = Reply(Tail(rs)[i])
  <2> HIDE DEF f
  <2>1. IsWay(v, Append(fs, f), Tail(rs))
    BY <1>1, <1>4, WayType
  <2> HIDE DEF v, F, R
  <2> QED
    BY <1>1, <1>4, <2>1 DEF IsWay
<1> HIDE DEF F, R
<1>6. (F + 1) + (R - 1) = F + R
  BY <1>1
<1>7. ASSUME NEW i \in 1 .. F + R PROVE v[i] = w[i]
  <2>1. CASE i \in 1 .. F
    <3> HIDE DEF f, v, w
    <3> QED
      BY <1>1, <1>3, <1>4, <1>5, <2>1
  <2>2. CASE i = F + 1
    <3>1. v[F + 1] = f
      BY SMTT(30), <1>1, <1>4, <1>5
    <3>2. w[F + 1] = Reply(rs[1]) /\ f = Reply(rs[1])
      BY <1>1, <1>3
    <3> QED
      BY <2>2, <3>1, <3>2
  <2>3. ASSUME NEW k \in 1 .. R - 1, i = (F + 1) + k PROVE v[i] = w[i]
    <3>1. v[(F + 1) + k] = Reply(rs[k + 1])
      BY <1>1, <1>5
    <3>2. k + 1 \in 1 .. R /\ i = F + (k + 1)
      BY <1>1, <2>3
    <3>3. w[F + (k + 1)] = Reply(rs[k + 1])
      BY <1>3, <3>2
    <3> QED
      BY <2>3, <3>1, <3>2, <3>3
  <2>4. i \in 1 .. (F + 1) + (R - 1) /\ F + 1 \in Nat /\ R - 1 \in Nat
    BY <1>1, <1>6
  <2>5. i \in 1 .. F + 1 => i \in 1 .. F \/ i = F + 1
    BY <1>1
  <2> HIDE DEF v, w
  <2> QED
    BY <2>1, <2>2, <2>3, <2>4, <2>5, Places
<1>8. v = [i \in DOMAIN v |-> v[i]] /\ w = [i \in DOMAIN w |-> w[i]]
  BY DEF WayOf
<1> HIDE DEF v, w
<1>9. v = w
  BY <1>3, <1>5, <1>6, <1>7, <1>8
<1> QED
  BY <1>9 DEF v, w

\* The link drops, and with it the requests.
LEMMA RequestsGone ==
  ASSUME NEW fs \in Seq(Answering), NEW rs \in Seq(Asking)
  PROVE  Thinned(WayOf(fs, <<>>), WayOf(fs, rs))
<1> DEFINE f == [i \in 1 .. Len(fs) |-> i]
<1>1. <<>> \in Seq(Asking) /\ Len(<<>>) = 0 /\ Len(fs) \in Nat /\ Len(rs) \in Nat
  BY QueueTypes
<1>2. /\ DOMAIN WayOf(fs, <<>>) = 1 .. Len(fs)
      /\ \A i \in 1 .. Len(fs) : WayOf(fs, <<>>)[i] = fs[i]
      /\ DOMAIN WayOf(fs, rs) = 1 .. Len(fs) + Len(rs)
      /\ \A i \in 1 .. Len(fs) : WayOf(fs, rs)[i] = fs[i]
  <2>1. IsWay(WayOf(fs, <<>>), fs, <<>>) /\ IsWay(WayOf(fs, rs), fs, rs)
    BY <1>1, WayType
  <2> QED
    BY <1>1, <2>1 DEF IsWay
<1>3. /\ f \in [DOMAIN WayOf(fs, <<>>) -> DOMAIN WayOf(fs, rs)]
      /\ \A i \in DOMAIN WayOf(fs, <<>>) : WayOf(fs, <<>>)[i] = WayOf(fs, rs)[f[i]]
      /\ \A i, j \in DOMAIN WayOf(fs, <<>>) : i < j => f[i] < f[j]
  BY <1>1, <1>2
<1> QED
  BY <1>3 DEF Thinned

\* v is the way w of length n with r behind it.
With(v, w, n, r) ==
  /\ n \in Nat /\ DOMAIN w = 1 .. n /\ DOMAIN v = 1 .. n + 1
  /\ \A i \in 1 .. n : v[i] = w[i]
  /\ v[n + 1] = r

\* The client sends a request, and the radio takes it.
LEMMA RequestSent ==
  ASSUME NEW fs \in Seq(Answering), NEW rs \in Seq(Asking), NEW q \in Asking
  PROVE  With(WayOf(fs, Append(rs, q)), WayOf(fs, rs), Len(fs) + Len(rs), Reply(q))
<1> DEFINE F == Len(fs)
           R == Len(rs)
           w == WayOf(fs, rs)
           v == WayOf(fs, Append(rs, q))
<1>1. /\ F \in Nat /\ R \in Nat /\ Append(rs, q) \in Seq(Asking)
      /\ Len(Append(rs, q)) = R + 1 /\ Append(rs, q)[R + 1] = q
      /\ \A i \in 1 .. R : Append(rs, q)[i] = rs[i]
  BY QueueTypes
<1>2. /\ DOMAIN w = 1 .. F + R
      /\ \A i \in 1 .. F : w[i] = fs[i]
      /\ \A i \in 1 .. R : w[F + i] = Reply(rs[i])
  BY WayType DEF IsWay
<1>3. /\ DOMAIN v = 1 .. F + (R + 1)
      /\ \A i \in 1 .. F : v[i] = fs[i]
      /\ \A i \in 1 .. R + 1 : v[F + i] = Reply(Append(rs, q)[i])
  <2>1. IsWay(v, fs, Append(rs, q))
    BY <1>1, WayType
  <2> HIDE DEF v
  <2> QED
    BY <1>1, <2>1 DEF IsWay
<1> HIDE DEF F, R, v, w
<1>4. ASSUME NEW i \in 1 .. F + R PROVE v[i] = w[i]
  <2>1. CASE i \in 1 .. F
    BY <1>2, <1>3, <2>1
  <2>2. ASSUME NEW k \in 1 .. R, i = F + k PROVE v[i] = w[i]
    <3>1. k \in 1 .. R + 1
      BY <1>1
    <3> QED
      BY <1>1, <1>2, <1>3, <2>2, <3>1
  <2> QED
    BY <1>1, <2>1, <2>2, Places
<1>5. v[F + R + 1] = Reply(q)
  <2>1. R + 1 \in 1 .. R + 1 /\ F + (R + 1) = F + R + 1
    BY <1>1
  <2> QED
    BY <1>1, <1>3, <2>1
<1>6. F + (R + 1) = F + R + 1 /\ F + R \in Nat
  BY <1>1
<1> QED
  BY <1>2, <1>3, <1>4, <1>5, <1>6 DEF With, F, R, v, w

\* A new link over the same connection.
LEMMA LinkReplaced ==
  ASSUME NEW fs \in Seq(Answering), NEW rs \in Seq(Asking), NEW n \in 1 .. Len(fs) + 1
  PROVE  LET w == WayOf(fs, rs)
             v == WayOf(Before(SubSeq(fs, n, Len(fs))), Before(rs)) IN
         /\ \A i \in DOMAIN v : v[i].link = "before"
         /\ \A i \in DOMAIN v : \E j \in DOMAIN w : v[i].word = w[j].word
<1> DEFINE F == Len(fs)
           R == Len(rs)
           m == F + 1 - n
           gs == Before(SubSeq(fs, n, F))
           qs == Before(rs)
           w == WayOf(fs, rs)
           v == WayOf(gs, qs)
<1>1. F \in Nat /\ R \in Nat /\ m \in Nat
  OBVIOUS
<1>2. /\ gs \in Seq(Answering) /\ Len(gs) = m
      /\ \A i \in 1 .. m : gs[i] = [fs[i + n - 1] EXCEPT !.link = "before"]
  BY BeforeTypes
<1>3. /\ qs \in Seq(Asking) /\ Len(qs) = R
      /\ \A i \in 1 .. R : qs[i] = [rs[i] EXCEPT !.link = "before"]
  <2>1. qs = [i \in 1 .. R |-> [rs[i] EXCEPT !.link = "before"]]
    BY DEF Before
  <2>2. ASSUME NEW x \in Asking PROVE [x EXCEPT !.link = "before"] \in Asking
    BY <2>2 DEF Asking
  <2>3. \A i \in 1 .. R : [rs[i] EXCEPT !.link = "before"] \in Asking
    BY <2>2
  <2> HIDE DEF qs
  <2> QED
    BY <1>1, <2>1, <2>3
<1>4. \A x \in Answering : LET y == [x EXCEPT !.link = "before"] IN
        y.link = "before" /\ y.word = x.word
  BY DEF Answering
<1>5. \A x \in Asking : LET y == Reply([x EXCEPT !.link = "before"]) IN
        y.link = "before" /\ y.word = Reply(x).word
  BY DEF Asking, Reply
<1>6. /\ DOMAIN w = 1 .. F + R
      /\ \A i \in 1 .. F : w[i] = fs[i]
      /\ \A i \in 1 .. R : w[F + i] = Reply(rs[i])
  BY WayType DEF IsWay
<1> HIDE DEF gs, qs
<1>7. /\ DOMAIN v = 1 .. m + R
      /\ \A i \in 1 .. m : v[i] = gs[i]
      /\ \A i \in 1 .. R : v[m + i] = Reply(qs[i])
  <2>1. IsWay(v, gs, qs)
    BY <1>2, <1>3, WayType
  <2> HIDE DEF v, m, R
  <2> QED
    BY <1>2, <1>3, <2>1 DEF IsWay
<1> HIDE DEF v, w
<1>8. ASSUME NEW i \in DOMAIN v
      PROVE  v[i].link = "before" /\ \E j \in DOMAIN w : v[i].word = w[j].word
  <2>1. CASE i \in 1 .. m
    <3>1. i + n - 1 \in 1 .. F /\ i + n - 1 \in 1 .. F + R
      BY <1>1, <2>1
    <3>2. v[i] = [fs[i + n - 1] EXCEPT !.link = "before"] /\ fs[i + n - 1] \in Answering
      BY <1>2, <1>7, <2>1, <3>1
    <3>3. w[i + n - 1] = fs[i + n - 1]
      BY <1>6, <3>1
    <3> QED
      BY <1>4, <1>6, <3>1, <3>2, <3>3
  <2>2. ASSUME NEW k \in 1 .. R, i = m + k
        PROVE  v[i].link = "before" /\ \E j \in DOMAIN w : v[i].word = w[j].word
    <3>1. F + k \in 1 .. F + R
      BY <1>1
    <3>2. v[i] = Reply(qs[k]) /\ qs[k] = [rs[k] EXCEPT !.link = "before"]
      BY <1>3, <1>7, <2>2
    <3>3. rs[k] \in Asking
      OBVIOUS
    <3> QED
      BY <1>5, <1>6, <3>1, <3>2, <3>3
  <2> HIDE DEF m, F, R
  <2> QED
    BY <1>1, <1>7, <2>1, <2>2, Places
<1> QED
  BY <1>8 DEF v, w, gs, qs
-----------------------------------------------------------------------------
(* A connection files only what it asked for                               *)

LEMMA AirTypes ==
  ASSUME TypeInv
  PROVE  /\ frames \in Seq(Answering) /\ requests \in Seq(Asking)
         /\ DOMAIN Way \subseteq Int
         /\ \A i \in DOMAIN Way : Way[i].link \in {"this", "before"}
<1>1. frames \in Seq(Answering) /\ requests \in Seq(Asking)
  BY DEF TypeInv
<1>2. /\ DOMAIN Way = 1 .. Len(frames) + Len(requests)
      /\ Len(frames) \in Nat /\ Len(requests) \in Nat
      /\ \A i \in DOMAIN Way : Way[i] \in Answering
  BY <1>1, WayType DEF Way, IsWay
<1> QED
  BY <1>1, <1>2 DEF Answering

Resting == at \in {"new", "connecting", "waiting"}

\* A task that goes on polling, stops, or stays where it is, while nothing new
\* is sent.
LEMMA WayThinned ==
  ASSUME TypeInv, OfThisLink, Thinned(Way', Way), links' = links,
         at' = at \/ Resting' \/ (Polls /\ Polls')
  PROVE  (links' = 0 => Fresh') /\ (links' = 1 => Second')
<1>1. /\ \A l : (\A i \in DOMAIN Way : Way[i].link = l) => \A i \in DOMAIN Way' : Way'[i].link = l
      /\ \A l, words : Only(Way, l, words) => Only(Way', l, words)
      /\ \A word : Never(Way, word) => Never(Way', word)
      /\ \A l : Apart(Way, l) => Apart(Way', l)
      /\ BindsFirst(Way) => BindsFirst(Way')
      /\ OldFirst(Way) => OldFirst(Way')
  BY ThinnedKeeps
<1>2. /\ Resting' => at' # "binding" /\ at' # "naming" /\ ~Polls'
      /\ Polls => at # "binding" /\ at # "naming"
      /\ Polls' => at' # "binding" /\ at' # "naming"
      /\ at' = at => (Polls' <=> Polls)
  BY DEF Resting, Polls
<1>3. ASSUME Fresh PROVE Fresh'
  BY <1>1, <1>2, <1>3, Zenon DEF Fresh
<1>4. ASSUME Second PROVE Second'
  BY <1>1, <1>2, <1>4, Zenon DEF Second
<1> QED
  BY <1>3, <1>4 DEF OfThisLink

LEMMA SameWay ==
  ASSUME TypeInv, UNCHANGED <<requests, frames>> PROVE Thinned(Way', Way)
<1>1. Way' = Way
  BY DEF Way
<1> QED
  BY <1>1, AirTypes, SameIsThinned

\* What a connection files while it goes on polling.
LEMMA ReadingKept ==
  ASSUME OfThisLink, links' = links, Polls' => Polls,
         Polls' => \A f \in Fields : reading'[f] = "before" => reading[f] = "before"
  PROVE  Polls' /\ links' <= 1 => \A f \in Fields : reading'[f] # "before"
  BY DEF OfThisLink

\* A step that leaves what is filed, and sends nothing.
LEMMA QuietStep ==
  ASSUME TypeInv, OfThisLink, Thinned(Way', Way), UNCHANGED <<links, reading>>,
         at' = at \/ Resting' \/ (Polls /\ Polls')
  PROVE  OfThisLink'
<1>1. Polls' => Polls
  BY DEF Polls, Resting
<1>2. Polls' /\ links' <= 1 => \A f \in Fields : reading'[f] # "before"
  BY <1>1, ReadingKept
<1> QED
  BY <1>2, WayThinned DEF OfThisLink

\* The first frame that is on the way, taken.
LEMMA TakenIsThinned ==
  ASSUME TypeInv, frames # <<>>, frames' = Tail(frames), requests' = requests
  PROVE  /\ 1 \in DOMAIN Way /\ Way[1] = Head(frames) /\ Thinned(Way', Way)
         /\ \A i \in DOMAIN Way' : i + 1 \in DOMAIN Way /\ Way'[i] = Way[i + 1] /\ 1 < i + 1
<1> DEFINE n == Len(frames) + Len(requests)
<1>1. Without(Way', Way, n, 1)
  BY AirTypes, FrameTaken DEF Way
<1>2. 1 \in DOMAIN Way /\ Way[1] = Head(frames)
  <2>1. Len(frames) \in Nat /\ Len(frames) > 0 /\ Head(frames) = frames[1]
    BY AirTypes, QueueTypes
  <2>2. IsWay(Way, frames, requests)
    BY AirTypes, WayType DEF Way
  <2>3. 1 \in 1 .. n
    BY <1>1 DEF Without
  <2> QED
    BY <2>1, <2>2, <2>3 DEF IsWay
<1>3. \A i \in DOMAIN Way' : i + 1 \in DOMAIN Way /\ Way'[i] = Way[i + 1] /\ 1 < i + 1
  <2> HIDE DEF n
  <2> QED
    BY <1>1 DEF Without
<1> QED
  BY <1>1, <1>2, <1>3, OneGone

\* The bind was answered: by something of the last link only if that link never
\* got as far as polling.
LEMMA BindAnswered ==
  ASSUME TypeInv, OfThisLink, frames # <<>>, frames' = Tail(frames), requests' = requests,
         links' = links, at = "binding", at' = "naming", Head(frames).word = BindAnswer
  PROVE  OfThisLink'
<1>1. /\ 1 \in DOMAIN Way /\ Way[1].word = BindAnswer /\ Thinned(Way', Way)
      /\ \A i \in DOMAIN Way' : i + 1 \in DOMAIN Way /\ Way'[i] = Way[i + 1] /\ 1 < i + 1
  BY TakenIsThinned
<1>2. ~Polls' /\ at' # "binding"
  BY DEF Polls
<1>3. ASSUME Fresh PROVE Fresh'
  <2>1. \A i \in DOMAIN Way' : Way'[i].link = "this"
    BY <1>1, <1>3 DEF Fresh
  <2>2. Apart(Way', "this")
    BY <1>1, <1>3, ThinnedKeeps DEF Fresh
  <2>3. \A i \in DOMAIN Way' : Way'[i].word = BindAnswer
    BY <1>1, <1>3 DEF Fresh, Only
  <2>4. Only(Way', "this", Prelude)
    BY <2>3 DEF Only, Prelude
  <2>5. BindAnswer # NameAnswer
    BY DEF BindAnswer, NameAnswer
  <2>6. BindsFirst(Way')
    BY <2>3, <2>5, Zenon DEF BindsFirst
  <2> QED
    BY <1>2, <2>1, <2>2, <2>4, <2>6, Zenon DEF Fresh
<1>4. ASSUME Second PROVE Second'
  <2>1. OldFirst(Way') /\ Apart(Way', "before")
    BY <1>1, <1>4, ThinnedKeeps DEF Second
  <2>2. CASE Way[1].link = "before"
    <3>1. Only(Way, "before", Prelude)
      BY <1>1, <1>4, <2>2 DEF Second, Apart
    <3>2. Only(Way', "before", Prelude)
      BY <1>1, <3>1, ThinnedKeeps
    <3> QED
      BY <2>1, <3>2 DEF Second
  <2>3. CASE Way[1].link # "before"
    <3>1. \A i \in DOMAIN Way' : Way'[i].link # "before"
      BY <1>1, <1>4, <2>3 DEF Second, OldFirst
    <3>2. Only(Way', "before", Prelude)
      BY <3>1 DEF Only
    <3> QED
      BY <2>1, <3>2 DEF Second
  <2> QED
    BY <2>2, <2>3
<1> QED
  BY <1>2, <1>3, <1>4 DEF OfThisLink

\* The name was answered: no answer to a bind of this link is left.
LEMMA NameAnswered ==
  ASSUME TypeInv, OfThisLink, frames # <<>>, frames' = Tail(frames), requests' = requests,
         links' = links, at = "naming", at' = "top", Head(frames).word = NameAnswer,
         reading' = NoReading
  PROVE  OfThisLink'
<1>1. /\ 1 \in DOMAIN Way /\ Way[1].word = NameAnswer /\ Thinned(Way', Way)
      /\ \A i \in DOMAIN Way' : i + 1 \in DOMAIN Way /\ Way'[i] = Way[i + 1] /\ 1 < i + 1
  BY TakenIsThinned
<1>2. Polls' /\ at' # "binding" /\ at' # "naming"
  BY DEF Polls
<1>3. ASSUME Fresh PROVE Fresh'
  <2>1. \A i \in DOMAIN Way' : Way'[i].link = "this"
    BY <1>1, <1>3 DEF Fresh
  <2>2. Apart(Way', "this")
    BY <1>1, <1>3, ThinnedKeeps DEF Fresh
  <2>3. BindsFirst(Way)
    BY <1>3 DEF Fresh
  <2>4. Never(Way', BindAnswer)
    BY <1>1, <2>3 DEF BindsFirst, Never
  <2> QED
    BY <1>2, <2>1, <2>2, <2>4, Zenon DEF Fresh
<1>4. ASSUME Second PROVE Second'
  BY <1>1, <1>4, ThinnedKeeps DEF Second
<1>5. \A f \in Fields : reading'[f] # "before"
  BY DEF NoReading
<1> QED
  BY <1>3, <1>4, <1>5 DEF OfThisLink

\* What a query of the cycle takes for its answer was asked for by this link.
LEMMA QueryAnswered ==
  ASSUME TypeInv, OfThisLink, frames # <<>>, at = "asking", links <= 1, Fits(Head(frames))
  PROVE  Head(frames).link = "this"
<1>1. 1 \in DOMAIN Way /\ Way[1] = Head(frames)
  <2>1. /\ Len(frames) \in Nat /\ Len(frames) > 0 /\ Head(frames) = frames[1]
        /\ Len(requests) \in Nat
    BY AirTypes, QueueTypes
  <2>2. IsWay(Way, frames, requests)
    BY AirTypes, WayType DEF Way
  <2> QED
    BY <2>1, <2>2 DEF IsWay
<1>2. Head(frames).word \notin Prelude
  <2>1. Request = Cycle[next + 1] /\ next + 1 \in 1 .. 5
    <3>1. next + 1 \in 1 .. 5
      BY CycleWords DEF TypeInv, TypeOK
    <3>2. Request = Cycle[next + 1]
      BY DEF Request
    <3> QED
      BY <3>1, <3>2
  <2> QED
    BY <2>1, CycleWords DEF Fits
<1>3. Head(frames).link \in {"this", "before"}
  BY <1>1, AirTypes
<1>4. CASE links = 0
  BY <1>1, <1>4 DEF OfThisLink, Fresh
<1>5. CASE links = 1
  <2>1. Only(Way, "before", Prelude)
    BY <1>5 DEF OfThisLink, Second, Polls
  <2> QED
    BY <1>1, <1>2, <1>3, <2>1 DEF Only
<1> QED
  BY <1>4, <1>5 DEF TypeInv, TypeOK

\* A request goes on the air behind all others.
LEMMA SendKeeps ==
  ASSUME TypeInv, OfThisLink, Send PROVE OfThisLink'
<1> DEFINE q == [query |-> Request, link |-> "this"]
           n == Len(frames) + Len(requests)
<1>1. /\ frames' = frames /\ links' = links /\ at' = at /\ reading' = reading /\ InCall
      /\ requests' = requests \/ requests' = Append(requests, q)
  BY DEF Send
<1>2. CASE requests' = requests
  BY <1>1, <1>2, SameWay, QuietStep
<1>3. CASE requests' = Append(requests, q)
  <2>1. q \in Asking
    BY RequestType DEF Asking
  <2>2. Reply(q) = [word |-> Request.word + 1, link |-> "this"]
    BY DEF Reply
  <2> HIDE DEF q
  <2>3. With(Way', Way, n, Reply(q))
    BY <1>1, <1>3, <2>1, AirTypes, RequestSent DEF Way
  <2>4. /\ DOMAIN Way = 1 .. n /\ n \in Nat /\ n + 1 \in DOMAIN Way'
        /\ \A i \in DOMAIN Way : i \in DOMAIN Way' /\ Way'[i] = Way[i] /\ i < n + 1
        /\ Way'[n + 1].word = Request.word + 1 /\ Way'[n + 1].link = "this"
        /\ \A i \in DOMAIN Way' : i \in DOMAIN Way \/ i = n + 1
        /\ \A i \in DOMAIN Way' : i <= n + 1
    <3> HIDE DEF n
    <3> QED
      BY <2>2, <2>3 DEF With
  <2> DEFINE word == Request.word + 1
  <2>5. /\ at = "binding" => word = BindAnswer
        /\ at = "naming" => word = NameAnswer
        /\ Polls => word # BindAnswer
    <3>1. next + 1 \in 1 .. 5
      BY CycleWords DEF TypeInv, TypeOK
    <3>2. Cycle[next + 1].word + 1 # BindAnswer
      BY <3>1, CycleWords DEF Prelude
    <3> QED
      BY <1>1, <3>2 DEF Request, Query, BindAnswer, NameAnswer, Polls, InCall
  <2>6. BindAnswer # NameAnswer
    BY DEF BindAnswer, NameAnswer
  <2>7. Polls <=> Polls'
    BY <1>1 DEF Polls
  <2>8. InCall <=> at \in {"binding", "naming"} \/ (Polls /\ at # "top")
    BY DEF InCall, Polls
  <2> HIDE DEF word, n
  <2>9. Way'[n + 1].word = word
    BY <2>4 DEF word
  <2>10. ASSUME Fresh PROVE Fresh'
    <3>1. \A i \in DOMAIN Way' : Way'[i].link = "this"
      BY <2>4, <2>10 DEF Fresh
    <3>2. at = "binding" => Only(Way', "this", {BindAnswer})
      BY <2>4, <2>5, <2>9, <2>10 DEF Fresh, Only
    <3>3. at = "naming" => Only(Way', "this", Prelude)
      BY <2>4, <2>5, <2>9, <2>10 DEF Fresh, Only, Prelude
    <3>4. at = "naming" => BindsFirst(Way')
      <4> SUFFICES ASSUME at = "naming", NEW i \in DOMAIN Way', NEW j \in DOMAIN Way',
                          i < j, Way'[i].word = NameAnswer
                   PROVE  Way'[j].word # BindAnswer
        BY DEF BindsFirst
      <4>1. CASE j = n + 1
        BY <2>5, <2>6, <2>9, <4>1
      <4>2. CASE j \in DOMAIN Way
        <5>1. i \in DOMAIN Way
          BY <2>4, <4>2
        <5> QED
          BY <2>4, <2>10, <4>2, <5>1 DEF Fresh, BindsFirst
      <4> QED
        BY <2>4, <4>1, <4>2
    <3>5. Polls => Never(Way', BindAnswer)
      BY <2>4, <2>5, <2>9, <2>10 DEF Fresh, Never
    <3>6. Apart(Way', "this")
      <4>1. CASE at = "binding"
        BY <3>2, <4>1 DEF Apart, Only, Prelude
      <4>2. CASE at = "naming"
        BY <3>3, <4>2 DEF Apart
      <4>3. CASE Polls
        BY <3>5, <4>3 DEF Apart, Never
      <4> QED
        BY <1>1, <2>8, <4>1, <4>2, <4>3
    <3> QED
      BY <1>1, <2>7, <3>1, <3>2, <3>3, <3>4, <3>5, <3>6 DEF Fresh
  <2>11. ASSUME Second PROVE Second'
    <3>1. \A words : Only(Way, "before", words) => Only(Way', "before", words)
      BY <2>4 DEF Only
    <3>2. OldFirst(Way')
      <4> SUFFICES ASSUME NEW i \in DOMAIN Way', NEW j \in DOMAIN Way',
                          i < j, Way'[j].link = "before"
                   PROVE  Way'[i].link = "before"
        BY DEF OldFirst
      <4>1. j \in DOMAIN Way /\ i \in DOMAIN Way
        BY <2>4
      <4> QED
        BY <2>4, <2>11, <4>1 DEF Second, OldFirst
    <3>3. Apart(Way', "before")
      BY <2>4, <2>11, <3>1 DEF Second, Apart
    <3> QED
      BY <1>1, <2>7, <2>11, <3>1, <3>2, <3>3 DEF Second
  <2>12. Polls' /\ links' <= 1 => \A f \in Fields : reading'[f] # "before"
    BY <1>1, <2>7 DEF OfThisLink
  <2> QED
    BY <1>1, <2>10, <2>11, <2>12 DEF OfThisLink
<1> QED
  BY <1>1, <1>2, <1>3

\* A link over a connection that was up has on the way what the last one left,
\* and one over a new connection has nothing.
LEMMA ConnectKeeps ==
  ASSUME TypeInv, OfThisLink, LinkConnects PROVE OfThisLink'
<1>1. at' = "binding" /\ ~Polls'
  BY DEF LinkConnects, Calls, Polls
<1>2. CASE connected
  <2>1. PICK n \in 1 .. Len(frames) + 1 :
          frames' = Before(SubSeq(frames, n, Len(frames)))
    BY <1>2 DEF LinkConnects
  <2>2. requests' = Before(requests) /\ links' = IF links < 2 THEN links + 1 ELSE 2
    BY <1>2 DEF LinkConnects
  <2>3. Way' = WayOf(Before(SubSeq(frames, n, Len(frames))), Before(requests))
    BY <2>1, <2>2 DEF Way
  <2>4. /\ \A i \in DOMAIN Way' : Way'[i].link = "before"
        /\ \A i \in DOMAIN Way' : \E j \in DOMAIN Way : Way'[i].word = Way[j].word
    BY <2>3, AirTypes, LinkReplaced DEF Way
  <2>5. links' # 0 /\ (links' = 1 => links = 0)
    BY <2>2 DEF TypeInv, TypeOK
  <2>6. ASSUME links = 0 PROVE Second'
    <3>1. Apart(Way, "this") /\ \A i \in DOMAIN Way : Way[i].link = "this"
      BY <2>6 DEF OfThisLink, Fresh
    <3>2. Apart(Way', "before")
      BY <2>4, <3>1, Zenon DEF Apart, Only
    <3>3. OldFirst(Way')
      BY <2>4 DEF OldFirst
    <3> QED
      BY <1>1, <3>2, <3>3 DEF Second
  <2> QED
    BY <1>1, <2>5, <2>6 DEF OfThisLink
<1>3. CASE ~connected
  <2>1. links' = 0 /\ requests' = <<>> /\ frames' = <<>>
    BY <1>3 DEF LinkConnects
  <2>2. DOMAIN Way' = {}
    BY <2>1 DEF Way, WayOf
  <2>3. Fresh'
    BY <1>1, <2>2 DEF Fresh, Apart, Only
  <2> QED
    BY <1>1, <2>1, <2>3 DEF OfThisLink
<1> QED
  BY <1>2, <1>3

LEMMA AcceptKeeps ==
  ASSUME TypeInv, OfThisLink, Accept PROVE OfThisLink'
<1> DEFINE f == Head(frames)
<1>1. /\ frames # <<>> /\ frames' = Tail(frames) /\ requests' = requests /\ links' = links
      /\ Fits(f) /\ Answered(f) /\ InCall
  BY DEF Accept
<1>2. Thinned(Way', Way) /\ f \in Answering
  <2>1. f \in Answering
    BY <1>1, AirTypes, QueueTypes
  <2> QED
    BY <1>1, <2>1, TakenIsThinned
<1> HIDE DEF f
<1>3. CASE at = "binding" /\ Calls("naming")
  <2>1. f.word = BindAnswer
    BY <1>1, <1>3 DEF Fits, Request, Query, BindAnswer
  <2> QED
    BY <1>1, <1>3, <2>1, BindAnswered DEF f, Calls
<1>4. CASE Loses /\ reading' = reading
  <2>1. Resting'
    BY <1>4 DEF Loses, Rests, Resting
  <2> QED
    BY <1>1, <1>2, <1>4, <2>1, QuietStep
<1>5. CASE at = "naming" /\ StartsPolling
  <2>1. f.word = NameAnswer
    BY <1>1, <1>5 DEF Fits, Request, Query, NameAnswer
  <2>2. at' = "top" /\ reading' = NoReading
    BY <1>5 DEF StartsPolling, Rests
  <2> QED
    BY <1>1, <1>5, <2>1, <2>2, NameAnswered DEF f
<1>6. CASE at = "applying" /\ Rests("top") /\ reading' = reading
  <2>1. Polls /\ Polls'
    BY <1>6 DEF Polls, Rests
  <2> QED
    BY <1>1, <1>2, <1>6, <2>1, QuietStep
<1>7. CASE at = "asking" /\ Rests("top") /\ reading' \in {Absorb(f), reading}
  <2>1. Polls /\ Polls'
    BY <1>7 DEF Polls, Rests
  <2>2. (links' = 0 => Fresh') /\ (links' = 1 => Second')
    BY <1>1, <1>2, <2>1, WayThinned
  <2>3. ASSUME links <= 1 PROVE \A x \in Fields : reading'[x] # "before"
    <3>1. f.link = "this"
      BY <1>1, <1>7, <2>3, QueryAnswered DEF f
    <3>2. \A x \in Fields : reading[x] # "before"
      BY <2>1, <2>3 DEF OfThisLink
    <3>3. reading \in [Fields -> Value]
      BY DEF TypeInv, TypeOK
    <3> QED
      BY <1>7, <3>1, <3>2, <3>3 DEF Absorb
  <2> QED
    BY <1>1, <2>1, <2>2, <2>3 DEF OfThisLink
<1> QED
  BY <1>1, <1>3, <1>4, <1>5, <1>6, <1>7 DEF Answered

LEMMA PollStep == PollInv /\ [Next]_vars => PollInv'
<1> SUFFICES ASSUME TypeInv, OfThisLink, [Next]_vars PROVE OfThisLink'
  BY StepType DEF PollInv
<1>1. CASE Send \/ Accept \/ LinkConnects
  BY <1>1, SendKeeps, AcceptKeeps, ConnectKeeps
<1>2. ASSUME UNCHANGED <<requests, frames, links, reading>>,
             at' = at \/ Resting' \/ (Polls /\ Polls')
      PROVE  OfThisLink'
  BY <1>2, SameWay, QuietStep
<1>3. CASE Try \/ LinkFails \/ Replaced
  BY <1>2, <1>3 DEF Try, LinkFails, Replaced, Loses, Rests, Resting, air
<1>4. CASE TakeCommand \/ AskNext
  BY <1>2, <1>4 DEF TakeCommand, AskNext, Calls, Polls, air
<1>5. CASE Give \/ UNCHANGED vars
  BY <1>2, <1>5 DEF Give, vars, task, air
<1>6. CASE SetAside
  <2>1. Thinned(Way', Way) /\ UNCHANGED <<at, links, reading>>
    BY <1>6, TakenIsThinned DEF SetAside, task
  <2> QED
    BY <2>1, QuietStep
<1>7. CASE TimesOut
  <2>1. UNCHANGED <<requests, frames, links>>
    BY <1>7 DEF TimesOut, air
  <2>2. reading' = reading /\ (at' = at \/ Resting' \/ (Polls /\ Polls'))
    BY <1>7 DEF TimesOut, Unanswered, Loses, Rests, Resting, Polls
  <2> QED
    BY <1>2, <2>1, <2>2
<1>8. CASE LinkDoesNotConnect
  <2>1. Resting' /\ ~Polls' /\ at' = "waiting"
    BY <1>8 DEF LinkDoesNotConnect, Loses, Rests, Resting, Polls
  <2>2. CASE UNCHANGED air
    BY <1>2, <1>8, <2>1, <2>2 DEF LinkDoesNotConnect, air
  <2>3. CASE links' = 0 /\ requests' = <<>> /\ frames' = <<>>
    <3>1. DOMAIN Way' = {}
      BY <2>3 DEF Way, WayOf
    <3>2. Fresh'
      BY <2>1, <3>1 DEF Fresh, Apart, Only
    <3> QED
      BY <2>1, <2>3, <3>2 DEF OfThisLink
  <2> QED
    BY <1>8, <2>2, <2>3 DEF LinkDoesNotConnect
<1>9. CASE Drops
  <2>1. Thinned(Way', Way)
    BY <1>9, AirTypes, RequestsGone DEF Drops, Way
  <2> QED
    BY <1>9, <2>1, QuietStep DEF Drops, task
<1>10. CASE Answer
  <2>1. requests # <<>> /\ requests' = Tail(requests) /\ UNCHANGED <<at, links, reading>>
    BY <1>10 DEF Answer, task
  <2>2. CASE frames' = frames
    <3>1. Without(Way', Way, Len(frames) + Len(requests), Len(frames) + 1)
      BY <2>1, <2>2, AirTypes, RequestLost DEF Way
    <3> QED
      BY <2>1, <3>1, OneGone, QuietStep
  <2>3. CASE frames' = Append(frames, Reply(Head(requests)))
    <3>1. Way' = Way
      BY <2>1, <2>3, AirTypes, RequestAnswered DEF Way
    <3>2. Thinned(Way', Way)
      BY <3>1, AirTypes, SameIsThinned
    <3> QED
      BY <2>1, <3>2, QuietStep
  <2> QED
    BY <1>10, <2>2, <2>3 DEF Answer, Reply
<1> QED
  BY <1>1, <1>3, <1>4, <1>5, <1>6, <1>7, <1>8, <1>9, <1>10 DEF Next, Step

LEMMA InitPoll == Init => PollInv
<1> SUFFICES ASSUME Init PROVE PollInv
  OBVIOUS
<1>1. at = "new" /\ requests = <<>> /\ frames = <<>> /\ links = 0
  BY DEF Init
<1>2. DOMAIN Way = {}
  BY <1>1 DEF Way, WayOf
<1>3. ~Polls
  BY <1>1 DEF Polls
<1>4. Fresh
  BY <1>1, <1>2, <1>3 DEF Fresh, Apart, Only
<1> QED
  BY <1>1, <1>3, <1>4, InitType DEF PollInv, OfThisLink

\* What poll files was asked for over this link, although what the link before
\* it left on the air arrives on it, as long as it is one link only: an answer
\* to a bind and an answer to a query are never both left over.
THEOREM FiledIsOfThisLink == Spec => []NothingFromBefore
<1>1. PollInv => NothingFromBefore
  BY DEF PollInv, OfThisLink, NothingFromBefore
<1> QED
  BY <1>1, InitPoll, PollStep, PTL DEF Spec
=============================================================================
