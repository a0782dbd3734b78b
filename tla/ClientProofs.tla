---------------------------- MODULE ClientProofs ----------------------------
(***************************************************************************)
(* Proofs about Client, for every set of requests, every RETRIES, and      *)
(* every number of calls and frames.                                       *)
(* ResendBound, TimeoutMeansAllTried: copies follow attempts.              *)
(* DeadlineStands: a wait begins before its deadline, and a frame taken    *)
(* after it ends the attempt.                                              *)
(* FeedInOrder: the three queues a frame passes through are each in order, *)
(* and every frame of one precedes every frame of the next: the program's  *)
(* own queue, the channel, the air.                                        *)
(* ImplementsExchange: every frame was sent by the charger for a call      *)
(* that draws its word, and each step moves frames as Exchange allows.     *)
(* StaleOnlyAfterTrouble: a call that was sent once and took its own       *)
(* answer leaves nothing behind that another call could take.              *)
(***************************************************************************)
EXTENDS Client, TLAPS, SequenceTheorems

\* Every command word is a byte.
LEMMA CommandWordType ==
  \A k \in RequestKinds : CommandWord[k] \in 0 .. 255
  BY DEF RequestKinds, CommandWord

\* Whatever word answers a request, it is a byte.
LEMMA AnswerWordsType ==
  ASSUME NEW k \in Kinds PROVE AnswerWords(k) \subseteq Words
<1>1. k \in RequestKinds
  BY KindsAssumption
<1>2. CommandWord[k] \in 0 .. 255
  BY <1>1, CommandWordType
<1>3. CASE k = "Identify"
  BY <1>3 DEF AnswerWords, Words
<1>4. CASE k = "Raw"
  <2>1. \A j \in Kinds \ Wildcards : CommandWord[j] \in 0 .. 255
    BY KindsAssumption, CommandWordType
  <2> QED
    BY <1>4, <2>1 DEF AnswerWords, ReplyWord, Words
<1>5. CASE k \notin Wildcards
  BY <1>2, <1>5 DEF AnswerWords, ReplyWord, Wildcards, Words
<1> QED
  BY <1>3, <1>4, <1>5 DEF Wildcards

\* An attempt counter never needs to exceed RETRIES + 1.
LEMMA AttemptsType ==
  ASSUME NEW k PROVE /\ Attempts(k) \in 1 .. RETRIES + 1
                     /\ k \in NotRetryable => Attempts(k) = 1
  BY RetriesAssumption DEF Attempts, IsRetryable

\* A call that ends with its write, whether it failed, was dropped, or had
\* nothing to wait for.
CutShort == SendEnds({"closed", "transport", "sent", "dropped"})

LEMMA EndsWithTheWrite ==
  /\ SendFails \/ SendAlone => CutShort
  /\ Drop => CutShort \/ StopWaiting
  BY DEF SendFails, SendAlone, Drop, CutShort, SendEnds
-----------------------------------------------------------------------------
(* Types, and the bounds on resending                                      *)

RetryInv == TypeOK /\ CopiesFollowAttempts /\ ResendBound /\ TimeoutMeansAllTried

LEMMA InitRetryInv == Init => RetryInv
<1> SUFFICES ASSUME Init PROVE RetryInv
  OBVIOUS
<1>1. TypeOK
  <2>1. <<>> \in Seq(Frame) /\ <<>> \in Seq(Copy) /\ <<>> \in Seq(LogEntry)
    BY EmptySeq
  <2>2. attempt \in 1 .. RETRIES + 1
    BY RetriesAssumption DEF Init
  <2>3. phase = "idle" /\ pump = "running" /\ expired = FALSE /\ linkUp = TRUE
    BY DEF Init
  <2>4. /\ pending = <<>> /\ frames = <<>> /\ fromCharger = <<>>
        /\ toCharger = <<>> /\ log = <<>>
    BY DEF Init
  <2>5. late \in Nat /\ copies \in Nat /\ surfaced \in Nat /\ minted \in Nat
    BY DEF Init
  <2> QED
    BY <2>1, <2>2, <2>3, <2>4, <2>5 DEF TypeOK
<1>2. DOMAIN log = {}
  BY DEF Init
<1> QED
  BY <1>1, <1>2
  DEF Init, RetryInv, CopiesFollowAttempts, ResendBound, TimeoutMeansAllTried

\* The entry a call leaves in the log when it ends.
Entry(outcome, f, n) ==
  [kind |-> kind, copies |-> n, outcome |-> outcome, reply |-> f]

\* A call that ends keeps the log well-formed, if the copies it made are
\* within its bound, and use it up when it timed out.
LEMMA ReturnKeepsLog ==
  ASSUME RetryInv, phase # "idle",
         NEW o \in Outcomes, NEW f \in Frame \union {NoFrame},
         copies' \in Nat, copies' <= Attempts(kind),
         o = "timeout" => copies' = Attempts(kind),
         Return(o, f)
  PROVE  /\ phase' = "idle"
         /\ log' \in Seq(LogEntry)
         /\ \A i \in DOMAIN log' :
              /\ log'[i].copies <= RETRIES + 1
              /\ log'[i].kind \in NotRetryable => log'[i].copies <= 1
              /\ log'[i].outcome = "timeout" => log'[i].copies = Attempts(log'[i].kind)
<1> DEFINE e == Entry(o, f, copies')
<1>1. log' = Append(log, e) /\ phase' = "idle"
  BY DEF Return, Entry
<1>2. kind \in Kinds /\ log \in Seq(LogEntry)
  BY DEF RetryInv, TypeOK
<1>3. e \in LogEntry
  BY <1>2 DEF LogEntry, Entry
<1>4. log' \in Seq(LogEntry)
  BY <1>1, <1>2, <1>3
<1>5. /\ e.copies <= RETRIES + 1
      /\ e.kind \in NotRetryable => e.copies <= 1
      /\ e.outcome = "timeout" => e.copies = Attempts(e.kind)
  BY AttemptsType, RetriesAssumption DEF Entry
<1>6. ASSUME NEW i \in DOMAIN log'
      PROVE  \/ i \in DOMAIN log /\ log'[i] = log[i]
             \/ log'[i] = e
  BY <1>1, <1>2
<1>7. QED
  BY <1>1, <1>4, <1>5, <1>6 DEF RetryInv, ResendBound, TimeoutMeansAllTried

\* An ending that leaves the queues, the link and the air typed keeps RetryInv.
LEMMA EndingKeepsRetryInv ==
  ASSUME RetryInv, phase # "idle",
         NEW o \in Outcomes, NEW f \in Frame \union {NoFrame},
         copies' \in Nat, copies' <= Attempts(kind),
         o = "timeout" => copies' = Attempts(kind),
         Return(o, f),
         attempt' = attempt, expired' = expired, late' \in Nat, surfaced' = surfaced,
         pending' \in Seq(Frame), frames' \in Seq(Frame),
         fromCharger' = fromCharger, toCharger' \in Seq(Copy),
         minted' = minted, pump' = pump, linkUp' = linkUp
  PROVE  RetryInv'
<1>1. /\ phase' = "idle" /\ log' \in Seq(LogEntry)
      /\ \A i \in DOMAIN log' :
           /\ log'[i].copies <= RETRIES + 1
           /\ log'[i].kind \in NotRetryable => log'[i].copies <= 1
           /\ log'[i].outcome = "timeout" => log'[i].copies = Attempts(log'[i].kind)
  BY ReturnKeepsLog
<1>2. TypeOK'
  BY <1>1 DEF RetryInv, TypeOK
<1>3. CopiesFollowAttempts'
  BY <1>1 DEF CopiesFollowAttempts
<1>4. ResendBound' /\ TimeoutMeansAllTried'
  BY <1>1 DEF ResendBound, TimeoutMeansAllTried
<1> QED
  BY <1>2, <1>3, <1>4 DEF RetryInv

\* A step that adds nothing to the log keeps RetryInv when it keeps the rest.
LEMMA SameLogKeepsRetryInv ==
  ASSUME RetryInv, log' = log, TypeOK', CopiesFollowAttempts'
  PROVE  RetryInv'
<1>1. phase' # "idle" => copies' <= Attempts(kind')
  <2>1. Attempts(kind') \in 1 .. RETRIES + 1
    BY AttemptsType
  <2>2. phase' # "idle" => attempt' <= Attempts(kind')
    BY DEF TypeOK
  <2>3. attempt' \in 1 .. RETRIES + 1 /\ phase' \in {"idle", "send", "top", "recv"}
    BY DEF TypeOK
  <2>4. phase' # "idle" => copies' \in {attempt' - 1, attempt'}
    BY <2>3 DEF CopiesFollowAttempts
  <2> QED
    BY <2>1, <2>2, <2>3, <2>4, RetriesAssumption
<1>2. ResendBound'
  <2>1. ASSUME phase' # "idle"
        PROVE  copies' <= RETRIES + 1 /\ (kind' \in NotRetryable => copies' <= 1)
    BY <1>1, <2>1, AttemptsType, RetriesAssumption DEF TypeOK
  <2> QED
    BY <2>1 DEF RetryInv, ResendBound
<1> QED
  BY <1>2 DEF RetryInv, TimeoutMeansAllTried

LEMMA TimedOutKeepsRetryInv ==
  ASSUME RetryInv, phase \in {"top", "recv"}, TimedOut
  PROVE  RetryInv'
<1> USE DEF TimedOut, RetryUpTo
<1>1. copies = attempt /\ copies' = copies /\ attempt <= Attempts(kind) /\ kind \in Kinds
  BY DEF RetryInv, CopiesFollowAttempts, TypeOK
<1>2. Attempts(kind) \in 1 .. RETRIES + 1
  BY AttemptsType
<1>3. CASE attempt < Attempts(kind)
  <2>1. phase' = "send" /\ attempt' = attempt + 1 /\ log' = log /\ kind' = kind
    BY <1>2, <1>3 DEF RetryInv, TypeOK
  <2>2. TypeOK'
    BY <1>1, <1>2, <1>3, <2>1, RetriesAssumption
    DEF RetryInv, TypeOK, link, air, Attempts
  <2>3. CopiesFollowAttempts'
    BY <1>1, <2>1 DEF RetryInv, TypeOK, CopiesFollowAttempts
  <2> QED
    BY <2>1, <2>2, <2>3, SameLogKeepsRetryInv
<1>4. CASE ~ (attempt < Attempts(kind))
  <2>1. attempt = Attempts(kind)
    BY <1>1, <1>2, <1>4 DEF RetryInv, TypeOK
  <2>2. Return("timeout", NoFrame) /\ attempt' = attempt
    BY <1>2, <2>1 DEF RetryInv, TypeOK
  <2> QED
    BY <1>1, <2>1, <2>2, EndingKeepsRetryInv
    DEF RetryInv, TypeOK, Outcomes, link, air
<1> QED
  BY <1>3, <1>4

\* Putting one more copy of the request on its way keeps the types.
LEMMA OneMoreCopy ==
  ASSUME RetryInv, phase = "send"
  PROVE  /\ Append(toCharger, [kind |-> kind, call |-> This]) \in Seq(Copy)
         /\ copies + 1 \in Nat /\ copies + 1 = attempt
         /\ copies + 1 <= Attempts(kind)
<1>1. kind \in Kinds /\ This \in Nat
  BY DEF RetryInv, TypeOK, This
<1> QED
  BY <1>1, RetriesAssumption DEF RetryInv, TypeOK, CopiesFollowAttempts, Copy

LEMMA CutShortKeepsRetryInv ==
  ASSUME RetryInv, CutShort PROVE RetryInv'
<1>1. PICK o \in {"closed", "transport", "sent", "dropped"} : Return(o, NoFrame)
  BY DEF CutShort, SendEnds
<1>2. phase = "send" /\ copies' = copies + 1 /\ toCharger' \in Seq(Copy)
  BY OneMoreCopy DEF CutShort, SendEnds, RetryInv, TypeOK
<1> QED
  BY <1>1, <1>2, OneMoreCopy, EndingKeepsRetryInv
  DEF CutShort, SendEnds, RetryInv, TypeOK, Outcomes, link

LEMMA ClientStepKeepsRetryInv ==
  ASSUME RetryInv, ClientStep PROVE RetryInv'
<1> USE DEF link, air
<1>1. ASSUME Send PROVE RetryInv'
  <2>1. TypeOK' /\ CopiesFollowAttempts' /\ log' = log
    BY <1>1, OneMoreCopy DEF Send, RetryInv, TypeOK, CopiesFollowAttempts
  <2> QED
    BY <2>1, SameLogKeepsRetryInv
<1>2. ASSUME SendFails \/ SendAlone PROVE RetryInv'
  BY <1>2, EndsWithTheWrite, CutShortKeepsRetryInv
<1>3. ASSUME SendTooLong PROVE RetryInv'
  <2>1. copies' = copies /\ copies \in Nat /\ copies <= Attempts(kind) /\ phase = "send"
    BY <1>3, OneMoreCopy, AttemptsType, RetriesAssumption
    DEF SendTooLong, RetryInv, TypeOK
  <2> QED
    BY <1>3, <2>1, EndingKeepsRetryInv
    DEF SendTooLong, RetryInv, TypeOK, Outcomes
<1>4. ASSUME DeadlinePassed PROVE RetryInv'
  BY <1>4, TimedOutKeepsRetryInv DEF DeadlinePassed
<1>5. ASSUME phase \in {"top", "recv"}
      PROVE  copies \in Nat /\ copies <= Attempts(kind)
  BY <1>5 DEF RetryInv, TypeOK, CopiesFollowAttempts
<1>6. ASSUME RecvClosed PROVE RetryInv'
  BY <1>5, <1>6, EndingKeepsRetryInv DEF RecvClosed, RetryInv, TypeOK, Outcomes
<1>7. ASSUME RecvStarts PROVE RetryInv'
  BY <1>7, SameLogKeepsRetryInv DEF RecvStarts, RetryInv, TypeOK, CopiesFollowAttempts
<1>8. ASSUME RecvFrame PROVE RetryInv'
  <2> DEFINE f == Head(frames)
  <2>a. late' \in Nat
    BY <1>8 DEF RecvFrame, RetryInv, TypeOK
  <2>1. f \in Frame /\ Tail(frames) \in Seq(Frame) /\ frames' = Tail(frames)
    BY <1>8 DEF RecvFrame, RetryInv, TypeOK
  <2>2. CASE Matches(f, kind)
    <3>1. Return("ok", f) /\ pending' = pending
      BY <1>8, <2>2 DEF RecvFrame
    <3> QED
      BY <1>5, <1>8, <2>a, <2>1, <3>1, EndingKeepsRetryInv
      DEF RecvFrame, RetryInv, TypeOK, Outcomes
  <2>3. CASE ~Matches(f, kind)
    <3>1. phase' = "top" /\ log' = log /\ pending' = Append(pending, f)
      BY <1>8, <2>3 DEF RecvFrame
    <3>2. pending' \in Seq(Frame)
      BY <2>1, <3>1 DEF RetryInv, TypeOK
    <3> QED
      BY <1>8, <2>a, <2>1, <3>1, <3>2, SameLogKeepsRetryInv
      DEF RecvFrame, RetryInv, TypeOK, CopiesFollowAttempts
  <2> QED
    BY <2>2, <2>3
<1>9. ASSUME RecvNothing PROVE RetryInv'
  BY <1>9, TimedOutKeepsRetryInv DEF RecvNothing
<1> QED
  BY <1>1, <1>2, <1>3, <1>4, <1>6, <1>7, <1>8, <1>9 DEF ClientStep

\* Both ends of a queue of frames are frames.
LEMMA QueueOfFrames ==
  ASSUME NEW s \in Seq(Frame), s # <<>>
  PROVE  /\ Head(s) \in Frame /\ s[Len(s)] \in Frame /\ Tail(s) \in Seq(Frame)
         /\ Head(s).seq \in Nat /\ s[Len(s)].seq \in Nat
<1>1. Head(s) \in Frame /\ s[Len(s)] \in Frame /\ Tail(s) \in Seq(Frame)
  OBVIOUS
<1>2. ASSUME NEW f \in Frame PROVE f.seq \in Nat
  BY DEF Frame
<1> QED
  BY <1>1, <1>2

\* A frame the charger sends is well-formed.
LEMMA EmitKeepsTypes ==
  ASSUME RetryInv, NEW word \in Words, NEW body \in Bodies, NEW to \in Nat,
         Emit(word, body, to), toCharger' \in Seq(Copy)
  PROVE  RetryInv'
<1> DEFINE f == [word |-> word, body |-> body, to |-> to, seq |-> minted']
<1>1. minted' = minted + 1 /\ minted' \in Nat /\ fromCharger' = Append(fromCharger, f)
  BY DEF Emit, RetryInv, TypeOK
<1>2. f \in Frame
  BY <1>1 DEF Frame
<1>3. fromCharger' \in Seq(Frame)
  BY <1>1, <1>2 DEF RetryInv, TypeOK
<1>4. TypeOK'
  BY <1>1, <1>3 DEF Emit, RetryInv, TypeOK, client, link
<1>5. CopiesFollowAttempts' /\ log' = log
  BY DEF Emit, RetryInv, CopiesFollowAttempts, client
<1> QED
  BY <1>4, <1>5, SameLogKeepsRetryInv

\* Calling, reading the feed, the pump, the radio and the charger.
LEMMA OtherStepKeepsRetryInv ==
  ASSUME RetryInv, [Next]_vars, ~ClientStep PROVE RetryInv'
<1> USE DEF client, link, air
<1>1. ASSUME NEW k \in Kinds, Call(k) PROVE RetryInv'
  <2>1. Attempts(k) \in 1 .. RETRIES + 1
    BY AttemptsType
  <2>2. phase' = "send" /\ kind' = k /\ attempt' = 1 /\ copies' = 0 /\ log' = log
    BY <1>1 DEF Call
  <2>3. TypeOK'
    BY <1>1, <2>1, <2>2, RetriesAssumption DEF Call, RetryInv, TypeOK
  <2> QED
    BY <2>2, <2>3, SameLogKeepsRetryInv DEF CopiesFollowAttempts
<1>2. ASSUME Expire PROVE RetryInv'
  BY <1>2, SameLogKeepsRetryInv DEF Expire, RetryInv, TypeOK, CopiesFollowAttempts
<1>3. ASSUME NextFrame PROVE RetryInv'
  <2>1. /\ pending' \in Seq(Frame) /\ frames' \in Seq(Frame) /\ surfaced' \in Nat
    BY <1>3, QueueOfFrames DEF NextFrame, NextPending, NextRecv, RetryInv, TypeOK
  <2> QED
    BY <1>3, <2>1, SameLogKeepsRetryInv
    DEF NextFrame, RetryInv, TypeOK, CopiesFollowAttempts
<1>4. ASSUME TakePending PROVE RetryInv'
  <2>1. pending' = <<>> /\ pending' \in Seq(Frame) /\ surfaced' \in Nat
    BY <1>4, EmptySeq, QueueOfFrames DEF TakePending, RetryInv, TypeOK
  <2> QED
    BY <1>4, <2>1, SameLogKeepsRetryInv
    DEF TakePending, RetryInv, TypeOK, CopiesFollowAttempts
<1>5. ASSUME Notify PROVE RetryInv'
  <2>1. frames' \in Seq(Frame) /\ fromCharger' \in Seq(Frame)
    BY <1>5 DEF Notify, RetryInv, TypeOK
  <2> QED
    BY <1>5, <2>1, SameLogKeepsRetryInv
    DEF Notify, RetryInv, TypeOK, CopiesFollowAttempts
<1>6. ASSUME NotificationLost PROVE RetryInv'
  BY <1>6, SameLogKeepsRetryInv
  DEF NotificationLost, RetryInv, TypeOK, CopiesFollowAttempts
<1>7. ASSUME LinkDrops PROVE RetryInv'
  <2>1. toCharger' \in Seq(Copy)
    BY <1>7, EmptySeq DEF LinkDrops
  <2> QED
    BY <1>7, <2>1, SameLogKeepsRetryInv
    DEF LinkDrops, RetryInv, TypeOK, CopiesFollowAttempts
<1>8. ASSUME PumpEnds PROVE RetryInv'
  BY <1>8, SameLogKeepsRetryInv DEF PumpEnds, RetryInv, TypeOK, CopiesFollowAttempts
<1>9. ASSUME Answer PROVE RetryInv'
  <2> DEFINE q == Head(toCharger)
  <2>1. q \in Copy /\ toCharger' \in Seq(Copy)
    BY <1>9 DEF Answer, RetryInv, TypeOK
  <2>2. PICK word \in AnswerWords(q.kind), body \in Bodies : Emit(word, body, q.call)
    BY <1>9 DEF Answer
  <2>3. q.kind \in Kinds /\ q.call \in Nat
    BY <2>1 DEF Copy
  <2>4. word \in Words
    BY <2>3, AnswerWordsType
  <2> HIDE DEF q
  <2> QED
    BY <2>1, <2>2, <2>3, <2>4, EmitKeepsTypes
<1>10. ASSUME Swallow PROVE RetryInv'
  BY <1>10, SameLogKeepsRetryInv DEF Swallow, RetryInv, TypeOK, CopiesFollowAttempts
<1>11. ASSUME SpeakUnprompted PROVE RetryInv'
  <2>1. PICK word \in Unsolicited : Emit(word, "good", 0)
    BY <1>11 DEF SpeakUnprompted
  <2>2. word \in Words /\ "good" \in Bodies
    BY WordsAssumption, BodiesAssumption DEF Words
  <2>3. toCharger' \in Seq(Copy)
    BY <1>11 DEF SpeakUnprompted, RetryInv, TypeOK
  <2> QED
    BY <2>1, <2>2, <2>3, EmitKeepsTypes
<1>12. ASSUME Drop PROVE RetryInv'
  <2>1. CASE CutShort
    BY <2>1, CutShortKeepsRetryInv
  <2>2. CASE StopWaiting
    <3>1. copies \in Nat /\ copies <= Attempts(kind)
      BY <2>2 DEF StopWaiting, RetryInv, TypeOK, CopiesFollowAttempts
    <3> QED
      BY <2>2, <3>1, EndingKeepsRetryInv DEF StopWaiting, RetryInv, TypeOK, Outcomes
  <2> QED
    BY <1>12, <2>1, <2>2, EndsWithTheWrite
<1>13. ASSUME UNCHANGED vars PROVE RetryInv'
  BY <1>13, SameLogKeepsRetryInv DEF vars, RetryInv, TypeOK, CopiesFollowAttempts
<1> QED
  BY <1>1, <1>2, <1>3, <1>4, <1>5, <1>6, <1>7, <1>8, <1>9, <1>10, <1>11, <1>12,
     <1>13
  DEF Next

\* Types and bounds on resending hold of every state of every behaviour.
THEOREM RetryInvariant == Spec => []RetryInv
<1>1. Init => RetryInv
  BY InitRetryInv
<1>2. RetryInv /\ [Next]_vars => RetryInv'
  BY ClientStepKeepsRetryInv, OtherStepKeepsRetryInv
<1> QED
  BY <1>1, <1>2, PTL DEF Spec

\* The types of Client's variables, and the range of the attempt counter.
THEOREM TypeCorrect == Spec => []TypeOK
<1>1. RetryInv => TypeOK
  BY DEF RetryInv
<1> QED
  BY <1>1, RetryInvariant, PTL

\* No firmware operation, reboot or raw request is ever put on the air twice
\* by one call, and nothing else more than RETRIES + 1 times.
THEOREM NothingIsResentTooOften == Spec => []ResendBound
<1>1. RetryInv => ResendBound
  BY DEF RetryInv
<1> QED
  BY <1>1, RetryInvariant, PTL

\* A call that reports a timeout has used every attempt it is allowed.
THEOREM TimeoutsAreExhausted == Spec => []TimeoutMeansAllTried
<1>1. RetryInv => TimeoutMeansAllTried
  BY DEF RetryInv
<1> QED
  BY <1>1, RetryInvariant, PTL

LEMMA StepKeepsLate ==
  ASSUME RetryInv, LateFollowsDeadline, DeadlineStands, [Next]_vars
  PROVE  (LateFollowsDeadline /\ DeadlineStands)'
<1> USE DEF LateFollowsDeadline, DeadlineStands, client
<1>1. CASE RecvFrame
  BY <1>1 DEF RecvFrame, Return, RetryInv, TypeOK
<1>2. CASE CutShort \/ StopWaiting
  BY <1>2 DEF CutShort, SendEnds, StopWaiting, Return
<1>3. CASE ClientStep /\ ~RecvFrame /\ ~SendAlone /\ ~SendFails
  BY <1>3 DEF ClientStep, Send, SendTooLong, DeadlinePassed, RecvClosed, RecvStarts,
     RecvNothing, TimedOut, RetryUpTo, Return
<1>4. CASE ~ClientStep /\ ~Drop
  BY <1>4 DEF Next, Call, Expire, NextFrame, TakePending, Notify, NotificationLost,
     LinkDrops, PumpEnds, Answer, Emit, Swallow, SpeakUnprompted, vars
<1> QED
  BY <1>1, <1>2, <1>3, <1>4, EndsWithTheWrite

\* However many frames the charger sends, a call takes at most one after the
\* deadline of its attempt: nothing that comes renews it.
THEOREM FramesRenewNoDeadline == Spec => []DeadlineStands
<1>1. Init => LateFollowsDeadline /\ DeadlineStands
  BY DEF Init, LateFollowsDeadline, DeadlineStands
<1>2. /\ RetryInv /\ LateFollowsDeadline /\ DeadlineStands /\ [Next]_vars
      => (LateFollowsDeadline /\ DeadlineStands)'
  BY StepKeepsLate
<1> QED
  BY <1>1, <1>2, RetryInvariant, PTL DEF Spec
-----------------------------------------------------------------------------
(* The feed                                                                *)


Rising(s) == \A i, j \in DOMAIN s : i < j => s[i].seq < s[j].seq
Over(s, n) == \A i \in DOMAIN s : n < s[i].seq
Under(s, n) == \A i \in DOMAIN s : s[i].seq <= n
Before(s, t) == \A i \in DOMAIN s, j \in DOMAIN t : s[i].seq < t[j].seq

FeedParts ==
  /\ Rising(pending) /\ Rising(frames) /\ Rising(fromCharger)
  /\ Before(pending, frames) /\ Before(pending, fromCharger)
  /\ Before(frames, fromCharger)
  /\ Over(pending, surfaced) /\ Over(frames, surfaced) /\ Over(fromCharger, surfaced)
  /\ Under(pending, minted) /\ Under(frames, minted) /\ Under(fromCharger, minted)
  /\ surfaced <= minted

FeedInv == RetryInv /\ FeedParts

\* The number of a frame in a queue is a number.
LEMMA SeqNumbers ==
  ASSUME NEW s \in Seq(Frame), NEW i \in DOMAIN s PROVE s[i].seq \in Nat
<1>1. s[i] \in Frame
  OBVIOUS
<1> QED
  BY <1>1 DEF Frame

\* Nothing is out of order in an empty queue.
LEMMA EmptyQueue ==
  ASSUME NEW n \in Nat, NEW t \in Seq(Frame)
  PROVE  /\ Rising(<<>>) /\ Over(<<>>, n) /\ Under(<<>>, n)
         /\ Before(<<>>, t) /\ Before(t, <<>>)
  BY DEF Rising, Over, Under, Before

\* Taking the first frame off a queue.
LEMMA TailOfQueue ==
  ASSUME NEW s \in Seq(Frame), s # <<>>, NEW t \in Seq(Frame), NEW n \in Nat
  PROVE  /\ Rising(s) => Rising(Tail(s)) /\ Over(Tail(s), Head(s).seq)
         /\ Over(s, n) => Over(Tail(s), n) /\ n < Head(s).seq
         /\ Under(s, n) => Under(Tail(s), n) /\ Head(s).seq <= n
         /\ Before(s, t) => Before(Tail(s), t) /\ Over(t, Head(s).seq)
         /\ Before(t, s) => Before(t, Tail(s)) /\ \A i \in DOMAIN t : t[i].seq < Head(s).seq
<1>1. /\ Len(s) \in Nat /\ Len(s) >= 1 /\ 1 \in DOMAIN s /\ Head(s) = s[1]
      /\ \A i \in DOMAIN Tail(s) : i \in Nat /\ i + 1 \in DOMAIN s /\ Tail(s)[i] = s[i + 1] /\ 1 < i + 1
  OBVIOUS
<1>2. \A i, j \in DOMAIN Tail(s) : i < j => i + 1 < j + 1
  BY <1>1
<1> QED
  BY <1>1, <1>2 DEF Rising, Over, Under, Before

\* Adding a frame behind a queue.
LEMMA QueueAndOne ==
  ASSUME NEW s \in Seq(Frame), NEW f \in Frame, NEW t \in Seq(Frame), NEW n \in Nat
  PROVE  /\ Rising(s) /\ (\A i \in DOMAIN s : s[i].seq < f.seq) => Rising(Append(s, f))
         /\ Over(s, n) /\ n < f.seq => Over(Append(s, f), n)
         /\ Under(s, n) /\ f.seq <= n => Under(Append(s, f), n)
         /\ Before(s, t) /\ Over(t, f.seq) => Before(Append(s, f), t)
         /\ Before(t, s) /\ (\A i \in DOMAIN t : t[i].seq < f.seq) => Before(t, Append(s, f))
<1>1. \A i \in DOMAIN Append(s, f) :
        \/ i \in DOMAIN s /\ Append(s, f)[i] = s[i]
        \/ i = Len(s) + 1 /\ Append(s, f)[i] = f
  OBVIOUS
<1>2. \A i \in DOMAIN s : i \in Nat /\ i < Len(s) + 1 /\ ~(Len(s) + 1 < i)
  OBVIOUS
<1>3. Len(s) + 1 \in Nat /\ ~(Len(s) + 1 < Len(s) + 1)
  OBVIOUS
<1> QED
  BY <1>1, <1>2, <1>3 DEF Rising, Over, Under, Before

\* A bound on a queue may be weakened.
LEMMA WeakerBounds ==
  ASSUME NEW s \in Seq(Frame), NEW m \in Nat, NEW n \in Nat, m <= n
  PROVE  /\ Under(s, m) => Under(s, n)
         /\ Over(s, n) => Over(s, m)
  BY SeqNumbers DEF Under, Over

\* A number above a bound is above every frame the bound holds for.
LEMMA AboveBound ==
  ASSUME NEW s \in Seq(Frame), NEW n \in Nat
  PROVE  Under(s, n) => \A i \in DOMAIN s : s[i].seq < n + 1
<1>1. ASSUME NEW a \in Nat, a <= n PROVE a < n + 1
  BY <1>1
<1> QED
  BY <1>1, SeqNumbers DEF Under

\* Two queues in order, the first before the second, are in order end to end.
LEMMA JoinRising ==
  ASSUME NEW s \in Seq(Frame), NEW t \in Seq(Frame),
         Rising(s), Rising(t), Before(s, t)
  PROVE  Rising(s \o t)
<1> DEFINE u == s \o t
           From(i) == i - Len(s)
<1>1. /\ Len(s) \in Nat /\ Len(t) \in Nat
      /\ DOMAIN s = 1 .. Len(s) /\ DOMAIN t = 1 .. Len(t)
      /\ DOMAIN u = 1 .. Len(s) + Len(t)
  BY ConcatProperties, LenProperties
<1>2. \A i \in DOMAIN u :
        \/ i \in DOMAIN s /\ u[i] = s[i]
        \/ From(i) \in DOMAIN t /\ u[i] = t[From(i)] /\ i > Len(s)
  BY <1>1, ConcatProperties
<1>3. ASSUME NEW i \in DOMAIN u, NEW j \in DOMAIN u, i < j
      PROVE  u[i].seq < u[j].seq
  <2>1. CASE i \in DOMAIN s /\ u[i] = s[i] /\ j \in DOMAIN s /\ u[j] = s[j]
    BY <1>3, <2>1 DEF Rising
  <2>2. CASE /\ i \in DOMAIN s /\ u[i] = s[i]
             /\ From(j) \in DOMAIN t /\ u[j] = t[From(j)]
    BY <2>2 DEF Before
  <2>3. CASE /\ From(i) \in DOMAIN t /\ u[i] = t[From(i)]
             /\ From(j) \in DOMAIN t /\ u[j] = t[From(j)]
    <3>1. From(i) < From(j)
      BY <1>1, <1>3
    <3> HIDE DEF From
    <3> QED
      BY <2>3, <3>1 DEF Rising
  <2>4. CASE From(i) \in DOMAIN t /\ i > Len(s) /\ j \in DOMAIN s
    BY <1>1, <1>3, <2>4
  <2> HIDE DEF From, u
  <2> QED
    BY <1>2, <2>1, <2>2, <2>3, <2>4
<1> QED
  BY <1>3 DEF Rising

\* What holds of both ends of a joined queue holds of it.
LEMMA JoinBounds ==
  ASSUME NEW s \in Seq(Frame), NEW t \in Seq(Frame), NEW r \in Seq(Frame), NEW n \in Nat
  PROVE  /\ Over(s, n) /\ Over(t, n) => Over(s \o t, n)
         /\ Under(s, n) /\ Under(t, n) => Under(s \o t, n)
         /\ Before(s, r) /\ Before(t, r) => Before(s \o t, r)
<1> DEFINE u == s \o t
<1>1. \A i \in DOMAIN u :
        \/ i \in DOMAIN s /\ u[i] = s[i]
        \/ i - Len(s) \in DOMAIN t /\ u[i] = t[i - Len(s)]
  BY ConcatProperties, LenProperties
<1> HIDE DEF u
<1>2. /\ Over(s, n) /\ Over(t, n) => Over(u, n)
      /\ Under(s, n) /\ Under(t, n) => Under(u, n)
      /\ Before(s, r) /\ Before(t, r) => Before(u, r)
  BY <1>1 DEF Over, Under, Before
<1> QED
  BY <1>2 DEF u

\* The three queues in order, one after the other, are the property.
LEMMA PartsGiveFeed == FeedInv => FeedInOrder
<1> SUFFICES ASSUME FeedInv PROVE FeedInOrder
  OBVIOUS
<1>1. pending \in Seq(Frame) /\ frames \in Seq(Frame) /\ fromCharger \in Seq(Frame)
  BY DEF FeedInv, RetryInv, TypeOK
<1>2. surfaced \in Nat /\ minted \in Nat
  BY DEF FeedInv, RetryInv, TypeOK
<1> DEFINE near == pending \o frames
<1>3. near \in Seq(Frame) /\ near \o fromCharger \in Seq(Frame)
  BY <1>1
<1>4. Feed = near \o fromCharger
  BY DEF Feed
<1>5. Rising(near)
  BY <1>1, JoinRising DEF FeedInv, FeedParts
<1>6. Over(near, surfaced) /\ Under(near, minted) /\ Before(near, fromCharger)
  BY <1>1, <1>2, JoinBounds DEF FeedInv, FeedParts
<1> HIDE DEF near
<1>7. Rising(Feed)
  BY <1>1, <1>3, <1>4, <1>5, <1>6, JoinRising DEF FeedInv, FeedParts
<1>8. Over(Feed, surfaced) /\ Under(Feed, minted)
  BY <1>1, <1>2, <1>3, <1>4, <1>6, JoinBounds DEF FeedInv, FeedParts
<1> QED
  BY <1>7, <1>8 DEF FeedInOrder, Rising, Over, Under
-----------------------------------------------------------------------------
(* Every step keeps the queues in order                                    *)

LEMMA InitFeed == Init => FeedInv
<1> SUFFICES ASSUME Init PROVE FeedInv
  OBVIOUS
<1>1. pending = <<>> /\ frames = <<>> /\ fromCharger = <<>>
  BY DEF Init
<1>2. surfaced = 0 /\ minted = 0
  BY DEF Init
<1>3. <<>> \in Seq(Frame) /\ 0 \in Nat
  BY EmptySeq
<1>4. surfaced <= minted
  BY <1>2
<1>5. /\ Rising(<<>>) /\ Over(<<>>, 0) /\ Under(<<>>, 0) /\ Before(<<>>, <<>>)
  BY <1>3, EmptyQueue
<1>6. FeedParts
  BY <1>1, <1>2, <1>4, <1>5, Zenon DEF FeedParts
<1> QED
  BY <1>6, InitRetryInv DEF FeedInv

\* What the steps below need to know of the state they start from.
LEMMA FeedTypes ==
  ASSUME FeedInv
  PROVE  /\ pending \in Seq(Frame) /\ frames \in Seq(Frame) /\ fromCharger \in Seq(Frame)
         /\ surfaced \in Nat /\ minted \in Nat
         /\ <<>> \in Seq(Frame)
  BY EmptySeq DEF FeedInv, RetryInv, TypeOK

\* A step that leaves the queues alone.
LEMMA SameQueues ==
  ASSUME FeedParts,
         UNCHANGED <<pending, frames, fromCharger, surfaced, minted>>
  PROVE  FeedParts'
  BY DEF FeedParts, Rising, Over, Under, Before

\* call_once takes a frame off the channel, and keeps it aside or returns it.
LEMMA RecvFrameKeepsOrder ==
  ASSUME FeedInv, RecvFrame PROVE FeedParts'
<1> DEFINE f == Head(frames)
           rest == Tail(frames)
<1>1. /\ frames # <<>> /\ frames' = rest
      /\ surfaced' = surfaced /\ minted' = minted /\ fromCharger' = fromCharger
      /\ pending' = pending \/ pending' = Append(pending, f)
  BY DEF RecvFrame, Return, air
<1>2. f \in Frame /\ rest \in Seq(Frame)
  BY <1>1, FeedTypes, QueueOfFrames
<1>3. /\ Rising(rest) /\ Over(rest, f.seq)
      /\ Over(rest, surfaced) /\ surfaced < f.seq
      /\ Under(rest, minted) /\ f.seq <= minted
  BY <1>1, FeedTypes, TailOfQueue DEF FeedInv, FeedParts
<1>4. /\ Before(rest, fromCharger) /\ Over(fromCharger, f.seq)
      /\ Before(pending, rest) /\ \A i \in DOMAIN pending : pending[i].seq < f.seq
  BY <1>1, FeedTypes, TailOfQueue DEF FeedInv, FeedParts
<1> HIDE DEF f, rest
<1>5. CASE pending' = pending
  BY <1>1, <1>3, <1>4, <1>5 DEF FeedInv, FeedParts, Rising, Over, Under, Before
<1>6. CASE pending' = Append(pending, f)
  <2> DEFINE more == Append(pending, f)
  <2>1. /\ Rising(more) /\ Over(more, surfaced) /\ Under(more, minted)
        /\ Before(more, rest) /\ Before(more, fromCharger)
    BY <1>2, <1>3, <1>4, FeedTypes, QueueAndOne DEF FeedInv, FeedParts
  <2> HIDE DEF more
  <2>2. pending' = more
    BY <1>6 DEF more
  <2> QED
    BY <1>1, <1>3, <1>4, <2>1, <2>2
    DEF FeedInv, FeedParts, Rising, Over, Under, Before
<1> QED
  BY <1>1, <1>5, <1>6

\* next_frame hands out the oldest frame there is.
LEMMA NextFrameKeepsOrder ==
  ASSUME FeedInv, NextFrame PROVE FeedParts'
<1>1. minted' = minted /\ fromCharger' = fromCharger
  BY DEF NextFrame, air
<1>2. CASE NextPending
  <2>1. /\ pending # <<>> /\ surfaced' = Head(pending).seq
        /\ pending' = Tail(pending) /\ frames' = frames
    BY <1>2 DEF NextPending
  <2>2. /\ Rising(Tail(pending)) /\ Over(Tail(pending), Head(pending).seq)
        /\ Under(Tail(pending), minted) /\ Head(pending).seq <= minted
        /\ Before(Tail(pending), frames) /\ Over(frames, Head(pending).seq)
        /\ Before(Tail(pending), fromCharger) /\ Over(fromCharger, Head(pending).seq)
    BY <2>1, FeedTypes, TailOfQueue DEF FeedInv, FeedParts
  <2> QED
    BY <1>1, <2>1, <2>2 DEF FeedInv, FeedParts, Rising, Over, Under, Before
<1>3. CASE pending = <<>> /\ NextRecv
  <2>1. /\ frames # <<>> /\ surfaced' = Head(frames).seq
        /\ frames' = Tail(frames) /\ pending' = <<>>
    BY <1>3 DEF NextRecv
  <2>2. /\ Rising(Tail(frames)) /\ Over(Tail(frames), Head(frames).seq)
        /\ Under(Tail(frames), minted) /\ Head(frames).seq <= minted
        /\ Before(Tail(frames), fromCharger) /\ Over(fromCharger, Head(frames).seq)
    BY <2>1, FeedTypes, TailOfQueue DEF FeedInv, FeedParts
  <2>3. Tail(frames) \in Seq(Frame) /\ Head(frames).seq \in Nat
    BY <2>1, FeedTypes, QueueOfFrames
  <2>4. /\ Rising(<<>>) /\ Over(<<>>, Head(frames).seq) /\ Under(<<>>, minted)
        /\ Before(<<>>, Tail(frames)) /\ Before(<<>>, fromCharger)
    BY <2>3, FeedTypes, EmptyQueue
  <2> QED
    BY <1>1, <2>1, <2>2, <2>4 DEF FeedInv, FeedParts, Rising, Over, Under, Before
<1> QED
  BY <1>2, <1>3 DEF NextFrame

\* take_pending hands out all the frames set aside at once.
LEMMA TakePendingKeepsOrder ==
  ASSUME FeedInv, TakePending PROVE FeedParts'
<1> DEFINE last == pending[Len(pending)]
<1>1. /\ pending # <<>> /\ pending' = <<>> /\ surfaced' = last.seq
      /\ minted' = minted /\ fromCharger' = fromCharger /\ frames' = frames
  BY DEF TakePending, link, air
<1>2. Len(pending) \in DOMAIN pending /\ last.seq \in Nat
  BY <1>1, FeedTypes, QueueOfFrames
<1>3. Over(frames, last.seq) /\ Over(fromCharger, last.seq) /\ last.seq <= minted
  BY <1>2 DEF FeedInv, FeedParts, Before, Under, Over
<1>4. /\ Rising(<<>>) /\ Over(<<>>, last.seq) /\ Under(<<>>, minted)
      /\ Before(<<>>, frames) /\ Before(<<>>, fromCharger)
  BY <1>2, FeedTypes, EmptyQueue
<1> HIDE DEF last
<1> QED
  BY <1>1, <1>3, <1>4 DEF FeedInv, FeedParts, Rising, Over, Under, Before

\* The pump queues the notification the radio has had longest.
LEMMA NotifyKeepsOrder ==
  ASSUME FeedInv, Notify PROVE FeedParts'
<1> DEFINE f == Head(fromCharger)
           rest == Tail(fromCharger)
           more == Append(frames, f)
<1>1. /\ fromCharger # <<>> /\ fromCharger' = rest /\ frames' = more
      /\ surfaced' = surfaced /\ minted' = minted /\ pending' = pending
  BY DEF Notify, client
<1>2. f \in Frame /\ rest \in Seq(Frame)
  BY <1>1, FeedTypes, QueueOfFrames
<1>3. /\ Rising(rest) /\ Over(rest, f.seq)
      /\ Over(rest, surfaced) /\ surfaced < f.seq
      /\ Under(rest, minted) /\ f.seq <= minted
      /\ Before(frames, rest) /\ \A i \in DOMAIN frames : frames[i].seq < f.seq
      /\ Before(pending, rest) /\ \A i \in DOMAIN pending : pending[i].seq < f.seq
  BY <1>1, FeedTypes, TailOfQueue DEF FeedInv, FeedParts
<1> HIDE DEF f, rest
<1>4. /\ Rising(more) /\ Over(more, surfaced) /\ Under(more, minted)
      /\ Before(more, rest) /\ Before(pending, more)
  BY <1>2, <1>3, FeedTypes, QueueAndOne DEF FeedInv, FeedParts
<1> HIDE DEF more
<1> QED
  BY <1>1, <1>3, <1>4 DEF FeedInv, FeedParts, Rising, Over, Under, Before

\* The radio loses a notification.
LEMMA LossKeepsOrder ==
  ASSUME FeedInv, NotificationLost PROVE FeedParts'
<1> DEFINE rest == Tail(fromCharger)
<1>1. /\ fromCharger # <<>> /\ fromCharger' = rest /\ frames' = frames
      /\ surfaced' = surfaced /\ minted' = minted /\ pending' = pending
  BY DEF NotificationLost, client, link
<1>2. /\ Rising(rest) /\ Over(rest, surfaced) /\ Under(rest, minted)
      /\ Before(frames, rest) /\ Before(pending, rest)
  BY <1>1, FeedTypes, TailOfQueue DEF FeedInv, FeedParts
<1> HIDE DEF rest
<1> QED
  BY <1>1, <1>2 DEF FeedInv, FeedParts, Rising, Over, Under, Before

\* The charger sends a frame with the next number.
LEMMA EmitKeepsOrder ==
  ASSUME FeedInv, NEW word \in Words, NEW body \in Bodies, NEW to \in Nat,
         Emit(word, body, to)
  PROVE  FeedParts'
<1> DEFINE f == [word |-> word, body |-> body, to |-> to, seq |-> minted']
           more == Append(fromCharger, f)
<1>1. /\ minted' = minted + 1 /\ fromCharger' = more
      /\ surfaced' = surfaced /\ pending' = pending /\ frames' = frames
  BY DEF Emit, client, link
<1>2. f.seq = minted + 1 /\ minted + 1 \in Nat /\ minted <= minted + 1
  BY <1>1, FeedTypes
<1>3. f \in Frame
  BY <1>1, <1>2 DEF Frame
<1>4. /\ \A i \in DOMAIN pending : pending[i].seq < f.seq
      /\ \A i \in DOMAIN frames : frames[i].seq < f.seq
      /\ \A i \in DOMAIN fromCharger : fromCharger[i].seq < f.seq
  BY <1>2, FeedTypes, AboveBound DEF FeedInv, FeedParts
<1>5. surfaced < f.seq /\ f.seq <= minted + 1 /\ surfaced <= minted + 1
  BY <1>2, FeedTypes DEF FeedInv, FeedParts
<1>6. /\ Under(pending, minted + 1) /\ Under(frames, minted + 1)
      /\ Under(fromCharger, minted + 1)
  BY <1>2, FeedTypes, WeakerBounds DEF FeedInv, FeedParts
<1> HIDE DEF f
<1>7. /\ Rising(more) /\ Over(more, surfaced) /\ Under(more, minted + 1)
      /\ Before(pending, more) /\ Before(frames, more)
  BY <1>2, <1>3, <1>4, <1>5, <1>6, FeedTypes, QueueAndOne DEF FeedInv, FeedParts
<1> HIDE DEF more
<1> QED
  BY <1>1, <1>5, <1>6, <1>7 DEF FeedInv, FeedParts, Rising, Over, Under, Before

\* Calling, sending, timing out and waiting move no frame.
LEMMA QuietStepKeepsOrder ==
  ASSUME FeedInv,
         \/ \E k \in Kinds : Call(k)
         \/ Send \/ CutShort \/ StopWaiting \/ SendTooLong
         \/ DeadlinePassed \/ RecvClosed \/ RecvStarts \/ RecvNothing
         \/ Expire \/ LinkDrops \/ PumpEnds \/ Swallow
         \/ UNCHANGED vars
  PROVE  FeedParts'
<1>1. UNCHANGED <<pending, frames, fromCharger, surfaced, minted>>
  BY DEF Call, Send, CutShort, SendEnds, StopWaiting, SendTooLong, DeadlinePassed,
         RecvClosed, RecvStarts, RecvNothing, TimedOut, RetryUpTo, Expire, LinkDrops, PumpEnds, Swallow,
         vars, client, link, air
<1> QED
  BY <1>1, SameQueues DEF FeedInv

LEMMA NextKeepsOrder ==
  ASSUME FeedInv, [Next]_vars PROVE FeedParts'
<1>1. ASSUME Answer PROVE FeedParts'
  <2> DEFINE q == Head(toCharger)
  <2>1. q \in Copy
    BY <1>1 DEF Answer, FeedInv, RetryInv, TypeOK
  <2>2. PICK word \in AnswerWords(q.kind), body \in Bodies : Emit(word, body, q.call)
    BY <1>1 DEF Answer
  <2>3. q.kind \in Kinds /\ q.call \in Nat
    BY <2>1 DEF Copy
  <2>4. word \in Words
    BY <2>3, AnswerWordsType
  <2> HIDE DEF q
  <2> QED
    BY <2>2, <2>3, <2>4, EmitKeepsOrder
<1>2. ASSUME SpeakUnprompted PROVE FeedParts'
  <2>1. PICK word \in Unsolicited : Emit(word, "good", 0)
    BY <1>2 DEF SpeakUnprompted
  <2>2. word \in Words /\ "good" \in Bodies
    BY WordsAssumption, BodiesAssumption DEF Words
  <2> QED
    BY <2>1, <2>2, EmitKeepsOrder
<1> QED
  BY <1>1, <1>2, RecvFrameKeepsOrder, NextFrameKeepsOrder, TakePendingKeepsOrder,
     NotifyKeepsOrder, LossKeepsOrder, QuietStepKeepsOrder, EndsWithTheWrite
  DEF Next, ClientStep

\* next_frame and take_pending hand out the charger's frames in the order it
\* sent them, each at most once, whatever call did in between.
THEOREM FeedIsInOrder == Spec => []FeedInOrder
<1>1. Init => FeedInv
  BY InitFeed
<1>2. FeedInv /\ [Next]_vars => FeedInv'
  BY NextKeepsOrder, ClientStepKeepsRetryInv, OtherStepKeepsRetryInv DEF FeedInv
<1>3. FeedInv => FeedInOrder
  BY PartsGiveFeed
<1> QED
  BY <1>1, <1>2, <1>3, PTL DEF Spec
-----------------------------------------------------------------------------
(* Where copies and frames come from                                       *)

\* The calls made so far, the one under way among them, and their kinds.
Calls == 1 .. Len(log) + (IF phase = "idle" THEN 0 ELSE 1)
KindIn(ended, now, n) == IF n <= Len(ended) THEN ended[n].kind ELSE now
KindOf(n) == KindIn(log, kind, n)

Made(q) ==
  \A i \in DOMAIN q : q[i].call \in Calls /\ q[i].kind = KindOf(q[i].call)

Sourced(s) ==
  \A i \in DOMAIN s :
    \/ s[i].to = 0 /\ s[i].word \in Unsolicited
    \/ s[i].to \in Calls /\ s[i].word \in AnswerWords(KindOf(s[i].to))

Traced == Made(toCharger) /\ Sourced(frames) /\ Sourced(fromCharger)

\* A step makes calls, and leaves those made what they were.
CallsStay ==
  Calls \subseteq Calls' /\ \A n \in Calls : KindIn(log', kind', n) = KindOf(n)

LEMMA StepKeepsCalls ==
  ASSUME FeedInv, [Next]_vars PROVE CallsStay
<1>1. Len(log) \in Nat /\ DOMAIN log = 1 .. Len(log) /\ log \in Seq(LogEntry)
  BY DEF FeedInv, RetryInv, TypeOK
<1>2. CASE log' = log /\ phase = "idle"
  BY <1>1, <1>2 DEF CallsStay, Calls, KindOf, KindIn
<1>3. CASE log' = log /\ phase' # "idle" /\ kind' = kind
  BY <1>1, <1>3 DEF CallsStay, Calls, KindOf, KindIn
<1>4. ASSUME NEW e, log' = Append(log, e), e.kind = kind, phase # "idle" PROVE CallsStay
  <2>1. /\ Len(log') = Len(log) + 1 /\ log'[Len(log) + 1] = e
        /\ \A i \in 1 .. Len(log) : log'[i] = log[i]
    BY <1>1, <1>4, AppendProperties
  <2>2. Calls = 1 .. Len(log) + 1 /\ Calls \subseteq Calls'
    BY <1>1, <1>4, <2>1 DEF Calls
  <2>3. ASSUME NEW n \in Calls PROVE KindIn(log', kind', n) = KindOf(n)
    BY <1>1, <1>4, <2>1, <2>2 DEF KindOf, KindIn
  <2> QED
    BY <2>2, <2>3 DEF CallsStay
<1>5. CASE ClientStep \/ Drop
  BY <1>3, <1>4, <1>5, EndsWithTheWrite
  DEF ClientStep, Send, CutShort, SendEnds, StopWaiting, SendTooLong, DeadlinePassed, RecvClosed,
     RecvStarts, RecvFrame, RecvNothing, TimedOut, RetryUpTo, Return
<1>6. CASE ~ClientStep /\ ~Drop
  BY <1>2, <1>3, <1>6 DEF Next, Call, Expire, NextFrame, TakePending, Notify, NotificationLost,
     LinkDrops, PumpEnds, Answer, Emit, Swallow, SpeakUnprompted, client, vars
<1> QED
  BY <1>5, <1>6
OneOf(x, s) == \E j \in DOMAIN s : x = s[j]

LEMMA EndsOfQueue ==
  ASSUME NEW S, NEW s \in Seq(S)
  PROVE  /\ s # <<>> => OneOf(Head(s), s) /\ \A i \in DOMAIN Tail(s) : OneOf(Tail(s)[i], s)
         /\ \A e \in S : \A i \in DOMAIN Append(s, e) :
              OneOf(Append(s, e)[i], s) \/ Append(s, e)[i] = e
<1>1. s # <<>> => /\ 1 \in DOMAIN s /\ Head(s) = s[1]
                  /\ \A i \in DOMAIN Tail(s) : i + 1 \in DOMAIN s /\ Tail(s)[i] = s[i + 1]
  OBVIOUS
<1>2. \A e \in S : \A i \in DOMAIN Append(s, e) :
        \/ i \in DOMAIN s /\ Append(s, e)[i] = s[i]
        \/ Append(s, e)[i] = e
  OBVIOUS
<1> QED
  BY <1>1, <1>2 DEF OneOf

\* Whatever moves, comes from where it was; whatever is new, is of a call.
LEMMA MovesKeepTraced ==
  ASSUME Traced, CallsStay,
         \A i \in DOMAIN toCharger' :
           \/ OneOf(toCharger'[i], toCharger)
           \/ toCharger'[i].call \in Calls /\ toCharger'[i].kind = KindOf(toCharger'[i].call),
         \A i \in DOMAIN frames' : OneOf(frames'[i], frames) \/ OneOf(frames'[i], fromCharger),
         \A i \in DOMAIN fromCharger' :
           \/ OneOf(fromCharger'[i], fromCharger)
           \/ Sourced(<<fromCharger'[i]>>)
  PROVE  Traced'
<1> DEFINE Right(x) == \/ x.to = 0 /\ x.word \in Unsolicited
                       \/ x.to \in Calls /\ x.word \in AnswerWords(KindOf(x.to))
           RightThen(x) == \/ x.to = 0 /\ x.word \in Unsolicited
                           \/ x.to \in Calls' /\ x.word \in AnswerWords(KindIn(log', kind', x.to))
<1>1. \A x : Right(x) => RightThen(x)
  BY DEF CallsStay
<1>2. /\ \A j \in DOMAIN frames : Right(frames[j])
      /\ \A j \in DOMAIN fromCharger : Right(fromCharger[j])
      /\ \A x : Sourced(<<x>>) => Right(x)
  BY DEF Traced, Sourced
<1>3. /\ (\A i \in DOMAIN frames' : RightThen(frames'[i])) => Sourced(frames)'
      /\ (\A i \in DOMAIN fromCharger' : RightThen(fromCharger'[i])) => Sourced(fromCharger)'
  BY DEF Sourced, KindOf
<1> HIDE DEF Right, RightThen
<1>4. /\ \A i \in DOMAIN frames' : Right(frames'[i])
      /\ \A i \in DOMAIN fromCharger' : Right(fromCharger'[i])
  BY <1>2 DEF OneOf
<1>5. Sourced(frames)' /\ Sourced(fromCharger)'
  BY <1>1, <1>3, <1>4
<1>6. \A i \in DOMAIN toCharger' :
        toCharger'[i].call \in Calls /\ toCharger'[i].kind = KindOf(toCharger'[i].call)
  BY DEF Traced, Made, OneOf
<1>7. \A i \in DOMAIN toCharger' :
        /\ toCharger'[i].call \in Calls'
        /\ toCharger'[i].kind = KindIn(log', kind', toCharger'[i].call)
  BY <1>6 DEF CallsStay
<1>8. Made(toCharger)'
  BY <1>7 DEF Made, KindOf
<1> QED
  BY <1>5, <1>8 DEF Traced

LEMMA NextKeepsTraced ==
  ASSUME FeedInv, Traced, [Next]_vars PROVE Traced'
<1> USE DEF client, link, air
<1>1. /\ toCharger \in Seq(Copy) /\ frames \in Seq(Frame) /\ fromCharger \in Seq(Frame)
      /\ CallsStay /\ Len(log) \in Nat
  BY StepKeepsCalls DEF FeedInv, RetryInv, TypeOK
<1> DEFINE CopiesMove == \A i \in DOMAIN toCharger' : OneOf(toCharger'[i], toCharger)
           FramesMove == \A i \in DOMAIN frames' :
                           OneOf(frames'[i], frames) \/ OneOf(frames'[i], fromCharger)
           AnswersMove == \A i \in DOMAIN fromCharger' : OneOf(fromCharger'[i], fromCharger)
<1>2. /\ toCharger' = toCharger => CopiesMove
      /\ frames' = frames => FramesMove
      /\ fromCharger' = fromCharger => AnswersMove
  BY DEF OneOf
<1>3. CopiesMove /\ FramesMove /\ AnswersMove => Traced'
  BY <1>1, MovesKeepTraced
<1>4. /\ toCharger # <<>> /\ toCharger' = Tail(toCharger) => CopiesMove
      /\ frames # <<>> /\ frames' = Tail(frames) => FramesMove
      /\ fromCharger # <<>> /\ fromCharger' = Tail(fromCharger) => AnswersMove
  BY <1>1, EndsOfQueue
<1>5. ASSUME phase = "send",
             \/ toCharger' = toCharger
             \/ toCharger' = Append(toCharger, [kind |-> kind, call |-> This]),
             frames' = frames, fromCharger' = fromCharger
      PROVE  Traced'
  <2> DEFINE q == [kind |-> kind, call |-> This]
  <2>1. q \in Copy /\ q.call \in Calls /\ q.kind = KindOf(q.call)
    BY <1>1, <1>5 DEF FeedInv, RetryInv, TypeOK, Copy, This, Calls, KindOf, KindIn
  <2> HIDE DEF q
  <2>a. toCharger' = toCharger \/ toCharger' = Append(toCharger, q)
    BY <1>5 DEF q
  <2>2. \A i \in DOMAIN toCharger' : OneOf(toCharger'[i], toCharger) \/ toCharger'[i] = q
    BY <1>1, <1>2, <2>1, <2>a, EndsOfQueue
  <2> QED
    BY <1>1, <1>2, <1>5, <2>1, <2>2, MovesKeepTraced
<1>6. ASSUME NEW word \in Words, NEW body \in Bodies, NEW to \in Nat, Emit(word, body, to),
             \/ to = 0 /\ word \in Unsolicited
             \/ to \in Calls /\ word \in AnswerWords(KindOf(to)),
             CopiesMove
      PROVE  Traced'
  <2> DEFINE f == [word |-> word, body |-> body, to |-> to, seq |-> minted']
  <2>1. /\ fromCharger' = Append(fromCharger, f) /\ frames' = frames
        /\ minted' \in Nat
    BY <1>6 DEF Emit, FeedInv, RetryInv, TypeOK
  <2>2. f \in Frame /\ Sourced(<<f>>)
    BY <1>6, <2>1 DEF Frame, Sourced
  <2> HIDE DEF f
  <2>3. \A i \in DOMAIN fromCharger' : OneOf(fromCharger'[i], fromCharger) \/ fromCharger'[i] = f
    BY <1>1, <2>1, <2>2, EndsOfQueue
  <2> QED
    BY <1>1, <1>2, <1>6, <2>1, <2>2, <2>3, MovesKeepTraced
<1>7. CASE Send \/ CutShort
  BY <1>5, <1>7 DEF Send, CutShort, SendEnds
<1>8. CASE RecvFrame \/ NextFrame
  BY <1>2, <1>3, <1>4, <1>8 DEF RecvFrame, NextFrame, NextPending, NextRecv
<1>9. CASE Notify
  <2>1. /\ fromCharger # <<>> /\ frames' = Append(frames, Head(fromCharger))
        /\ fromCharger' = Tail(fromCharger) /\ toCharger' = toCharger
    BY <1>9 DEF Notify
  <2>2. Head(fromCharger) \in Frame /\ OneOf(Head(fromCharger), fromCharger)
    BY <1>1, <2>1, EndsOfQueue
  <2>3. \A i \in DOMAIN frames' : OneOf(frames'[i], frames) \/ frames'[i] = Head(fromCharger)
    BY <1>1, <2>1, <2>2, EndsOfQueue
  <2> QED
    BY <1>2, <1>3, <1>4, <2>1, <2>2, <2>3
<1>10. CASE NotificationLost \/ Swallow
  BY <1>2, <1>3, <1>4, <1>10 DEF NotificationLost, Swallow
<1>11. CASE LinkDrops
  <2>1. CopiesMove
    BY <1>11 DEF LinkDrops
  <2> QED
    BY <1>2, <1>3, <1>11, <2>1 DEF LinkDrops
<1>12. CASE Answer
  <2> DEFINE q == Head(toCharger)
  <2>1. /\ toCharger # <<>> /\ toCharger' = Tail(toCharger) /\ q \in Copy /\ OneOf(q, toCharger)
    BY <1>1, <1>12, EndsOfQueue DEF Answer
  <2>2. PICK word \in AnswerWords(q.kind), body \in Bodies : Emit(word, body, q.call)
    BY <1>12 DEF Answer
  <2>3. q.kind \in Kinds /\ q.call \in Nat /\ q.call \in Calls /\ q.kind = KindOf(q.call)
    BY <2>1 DEF Traced, Made, OneOf, Copy
  <2>4. word \in Words
    BY <2>3, AnswerWordsType
  <2> HIDE DEF q
  <2> QED
    BY <1>4, <1>6, <2>1, <2>2, <2>3, <2>4
<1>13. CASE SpeakUnprompted
  <2>1. PICK word \in Unsolicited : Emit(word, "good", 0)
    BY <1>13 DEF SpeakUnprompted
  <2>2. word \in Words /\ "good" \in Bodies
    BY WordsAssumption, BodiesAssumption DEF Words
  <2> QED
    BY <1>2, <1>6, <1>13, <2>1, <2>2 DEF SpeakUnprompted
<1>14. CASE UNCHANGED <<toCharger, frames, fromCharger>>
  BY <1>2, <1>3, <1>14
<1> QED
  BY <1>7, <1>8, <1>9, <1>10, <1>11, <1>12, <1>13, <1>14, EndsWithTheWrite
  DEF Next, ClientStep, Call, StopWaiting, SendTooLong, DeadlinePassed, RecvClosed, RecvStarts, RecvNothing,
      TimedOut, RetryUpTo, Expire, TakePending, PumpEnds, vars
LEMMA AtFirst == Init => FeedInv /\ Traced
<1> SUFFICES ASSUME Init PROVE FeedInv /\ Traced
  OBVIOUS
<1>1. toCharger = <<>> /\ frames = <<>> /\ fromCharger = <<>>
  BY DEF Init
<1>2. Traced
  BY <1>1 DEF Traced, Made, Sourced
<1> QED
  BY <1>2, InitFeed

LEMMA FramesAreTraced == Spec => [](FeedInv /\ Traced)
<1>1. FeedInv /\ Traced /\ [Next]_vars => (FeedInv /\ Traced)'
  BY NextKeepsOrder, NextKeepsTraced, ClientStepKeepsRetryInv, OtherStepKeepsRetryInv DEF FeedInv
<1> QED
  BY AtFirst, <1>1, PTL DEF Spec
-----------------------------------------------------------------------------
(* Client implements Exchange                                              *)

\* What the mapping at the end of Client makes of the state.
Open == IF phase = "idle" THEN "no call" ELSE kind
Brief(e) == [kind |-> e.kind, outcome |-> e.outcome, reply |-> e.reply]
Ended(ended) == [i \in DOMAIN ended |-> Brief(ended[i])]
OnAir == ToSet(frames) \union ToSet(fromCharger)

LEMMA EndedType ==
  ASSUME NEW s \in Seq(LogEntry)
  PROVE  /\ Len(Ended(s)) = Len(s)
         /\ \A e \in LogEntry : Ended(Append(s, e)) = Append(Ended(s), Brief(e))
<1>1. Len(s) \in Nat /\ DOMAIN s = 1 .. Len(s)
  OBVIOUS
<1>2. DOMAIN Ended(s) = 1 .. Len(s) /\ Ended(s) = [i \in 1 .. Len(s) |-> Brief(s[i])]
  BY <1>1 DEF Ended
<1>3. Ended(s) \in Seq({Brief(x) : x \in LogEntry}) /\ Len(Ended(s)) = Len(s)
  <2>1. \A i \in 1 .. Len(s) : Brief(s[i]) \in {Brief(x) : x \in LogEntry}
    OBVIOUS
  <2>2. [i \in 1 .. Len(s) |-> Brief(s[i])] \in Seq({Brief(x) : x \in LogEntry})
    BY <1>1, <2>1, IsASeq
  <2> QED
    BY <1>1, <1>2, <2>2
<1>4. ASSUME NEW e \in LogEntry PROVE Ended(Append(s, e)) = Append(Ended(s), Brief(e))
  <2> DEFINE t == Append(Ended(s), Brief(e))
             u == Ended(Append(s, e))
             B == {Brief(x) : x \in LogEntry}
  <2>1. /\ Append(s, e) \in Seq(LogEntry) /\ DOMAIN Append(s, e) = 1 .. Len(s) + 1
        /\ Append(s, e)[Len(s) + 1] = e /\ \A i \in 1 .. Len(s) : Append(s, e)[i] = s[i]
    BY <1>1, AppendProperties
  <2>2. /\ t \in Seq(B) /\ Len(t) = Len(s) + 1 /\ t[Len(s) + 1] = Brief(e)
        /\ \A i \in 1 .. Len(s) : t[i] = Ended(s)[i]
    <3>1. Brief(e) \in B
      OBVIOUS
    <3> QED
      BY <1>3, <3>1, AppendProperties
  <2>3. u = [i \in 1 .. Len(s) + 1 |-> Brief(Append(s, e)[i])]
    BY <2>1 DEF Ended
  <2>4. u \in Seq(B) /\ Len(u) = Len(s) + 1
    <3>1. \A i \in 1 .. Len(s) + 1 : Brief(Append(s, e)[i]) \in B
      BY <2>1
    <3>2. [i \in 1 .. Len(s) + 1 |-> Brief(Append(s, e)[i])] \in Seq(B)
      BY <1>1, <3>1, IsASeq
    <3>3. Len([i \in 1 .. Len(s) + 1 |-> Brief(Append(s, e)[i])]) = Len(s) + 1
      BY <1>1
    <3> QED
      BY <2>3, <3>2, <3>3
  <2>5. /\ \A i \in 1 .. Len(s) + 1 : u[i] = Brief(Append(s, e)[i])
        /\ \A i \in 1 .. Len(s) : Ended(s)[i] = Brief(s[i])
        /\ \A i \in 1 .. Len(s) + 1 : i \in 1 .. Len(s) \/ i = Len(s) + 1
    BY <1>1, <1>2, <2>3
  <2>6. \A i \in 1 .. Len(s) + 1 : u[i] = t[i]
    BY <2>1, <2>2, <2>5
  <2> HIDE DEF t, u, B
  <2>7. t = u
    BY <2>2, <2>4, <2>6, SeqEqual
  <2> QED
    BY <2>7 DEF t, u
<1> QED
  BY <1>3, <1>4

LEMMA NothingQueued == ToSet(<<>>) = {}
  BY DEF ToSet

\* What is in a queue when its first frame is taken, or one added.
LEMMA SetOfQueue ==
  ASSUME NEW s \in Seq(Frame)
  PROVE  /\ s # <<>> => /\ ToSet(s) = {Head(s)} \union ToSet(Tail(s))
                        /\ Rising(s) => Head(s) \notin ToSet(Tail(s))
         /\ \A f \in Frame : ToSet(Append(s, f)) = ToSet(s) \union {f}
         /\ \A t \in Seq(Frame) : s # <<>> /\ Before(s, t) => Head(s) \notin ToSet(t)
<1>1. ASSUME s # <<>>
      PROVE  /\ ToSet(s) = {Head(s)} \union ToSet(Tail(s))
             /\ Rising(s) => Head(s) \notin ToSet(Tail(s))
             /\ \A t \in Seq(Frame) : Before(s, t) => Head(s) \notin ToSet(t)
  <2>1. /\ Len(s) \in Nat /\ 1 \in DOMAIN s /\ Head(s) = s[1] /\ Head(s).seq \in Nat
        /\ DOMAIN s = 1 .. Len(s) /\ DOMAIN Tail(s) = 1 .. Len(s) - 1
        /\ \A i \in DOMAIN Tail(s) : i + 1 \in DOMAIN s /\ Tail(s)[i] = s[i + 1] /\ 1 < i + 1
    BY <1>1, SeqNumbers
  <2>2. \A i \in DOMAIN s : i = 1 \/ (i - 1 \in DOMAIN Tail(s) /\ Tail(s)[i - 1] = s[i])
    BY <2>1
  <2>3. ToSet(s) = {Head(s)} \union ToSet(Tail(s))
    <3>1. \A x : x \in ToSet(s) <=> \E i \in DOMAIN s : s[i] = x
      BY DEF ToSet
    <3>2. \A x : x \in ToSet(Tail(s)) <=> \E i \in DOMAIN Tail(s) : Tail(s)[i] = x
      BY DEF ToSet
    <3>3. ASSUME NEW x \in ToSet(s) PROVE x \in {Head(s)} \union ToSet(Tail(s))
      BY <2>1, <2>2, <3>1, <3>2
    <3>4. ASSUME NEW x \in {Head(s)} \union ToSet(Tail(s)) PROVE x \in ToSet(s)
      BY <2>1, <3>1, <3>2
    <3> QED
      BY <3>3, <3>4
  <2>4. Rising(s) => Head(s) \notin ToSet(Tail(s))
    BY <2>1 DEF Rising, ToSet
  <2>5. \A t \in Seq(Frame) : Before(s, t) => Head(s) \notin ToSet(t)
    BY <2>1 DEF Before, ToSet
  <2> QED
    BY <2>3, <2>4, <2>5
<1>2. ASSUME NEW f \in Frame PROVE ToSet(Append(s, f)) = ToSet(s) \union {f}
  <2>1. /\ Len(s) \in Nat /\ DOMAIN s = 1 .. Len(s) /\ DOMAIN Append(s, f) = 1 .. Len(s) + 1
        /\ Append(s, f)[Len(s) + 1] = f /\ \A i \in 1 .. Len(s) : Append(s, f)[i] = s[i]
    BY AppendProperties
  <2>2. /\ Len(s) + 1 \in 1 .. Len(s) + 1
        /\ \A i \in 1 .. Len(s) : i \in 1 .. Len(s) + 1
        /\ \A i \in 1 .. Len(s) + 1 : i \in 1 .. Len(s) \/ i = Len(s) + 1
    BY <2>1
  <2> QED
    BY <2>1, <2>2 DEF ToSet
<1> QED
  BY <1>1, <1>2
\* The variables of Exchange under the mapping.
LEMMA Mapped ==
  /\ Abstract!vars = <<Open, Ended(log), OnAir, ToSet(pending), minted, surfaced>>
  /\ Abstract!NoCall = "no call" /\ Abstract!NoFrame = NoFrame
  /\ \A f, k : Abstract!Matches(f, k) <=> Matches(f, k)
  /\ \A k \in Kinds : k # "no call"
<1>1. "no call" \notin RequestKinds
  BY DEF RequestKinds, CommandWord
<1>2. /\ Abstract!NoWord = NoWord /\ Abstract!Wildcards = Wildcards
      /\ Abstract!CommandWord = CommandWord
  BY DEF Abstract!NoWord, NoWord, Abstract!Wildcards, Wildcards, Abstract!CommandWord, CommandWord
<1>3. \A k : Abstract!ReplyWord(k) = ReplyWord(k)
  BY <1>2 DEF Abstract!ReplyWord, ReplyWord
<1>4. \A f, k : Abstract!Matches(f, k) <=> Matches(f, k)
  BY <1>2, <1>3 DEF Abstract!Matches, Matches
<1>5. Abstract!vars = <<Open, Ended(log), OnAir, ToSet(pending), minted, surfaced>>
  BY DEF Abstract!vars, Open, Ended, Brief, OnAir
<1> QED
  BY <1>1, <1>2, <1>4, <1>5, KindsAssumption DEF Abstract!NoCall, Abstract!NoFrame, NoFrame
\* A call that ends, ends in Exchange.
LEMMA EndingMaps ==
  ASSUME FeedInv, FeedInv', phase # "idle", NEW o, NEW f, Return(o, f)
  PROVE  /\ Open = kind /\ Open # "no call" /\ Open' = "no call"
         /\ Ended(log)' = Append(Ended(log), [kind |-> Open, outcome |-> o, reply |-> f])
<1> DEFINE e == Entry(o, f, copies')
<1>1. log' = Append(log, e) /\ phase' = "idle"
  BY DEF Return, Entry
<1>2. log \in Seq(LogEntry) /\ log' \in Seq(LogEntry) /\ kind \in Kinds
  BY DEF FeedInv, RetryInv, TypeOK
<1>3. e \in LogEntry
  <2>1. Len(log) \in Nat /\ Len(log') = Len(log) + 1 /\ log'[Len(log) + 1] = e
    BY <1>1, <1>2
  <2>2. Len(log) + 1 \in 1 .. Len(log')
    BY <2>1
  <2> QED
    BY <1>2, <2>1, <2>2, ElementOfSeq
<1>4. Open = kind /\ Open # "no call" /\ Open' = "no call"
  BY <1>1, <1>2, Mapped DEF Open
<1>5. Brief(e) = [kind |-> Open, outcome |-> o, reply |-> f]
  BY <1>4 DEF Brief, Entry
<1> HIDE DEF e
<1>6. Ended(Append(log, e)) = Append(Ended(log), Brief(e))
  BY <1>2, <1>3, EndedType
<1> QED
  BY <1>1, <1>4, <1>5, <1>6

LEMMA FailureMaps ==
  ASSUME FeedInv, FeedInv', phase # "idle", NEW o \in Outcomes \ {"ok"}, Return(o, NoFrame),
         UNCHANGED <<pending, frames, fromCharger, minted, surfaced>>
  PROVE  Abstract!Next
<1>1. /\ Open # "no call" /\ Open' = "no call"
      /\ Ended(log)' = Append(Ended(log), [kind |-> Open, outcome |-> o, reply |-> NoFrame])
  BY EndingMaps
<1>2. UNCHANGED <<OnAir, ToSet(pending), minted, surfaced>>
  BY DEF OnAir
<1>3. Abstract!Fail(o)
  BY <1>1, <1>2, Mapped DEF Abstract!Fail, Abstract!End, Open, Ended, Brief, OnAir
<1> QED
  BY <1>3 DEF Abstract!Next

\* A call that goes on, and the queues that move, are not seen.
LEMMA StutterMaps ==
  ASSUME Open' = Open, log' = log, OnAir' = OnAir, UNCHANGED <<pending, minted, surfaced>>
  PROVE  UNCHANGED Abstract!vars
  BY DEF Abstract!vars, Open, OnAir

LEMMA RetryMaps ==
  ASSUME FeedInv, FeedInv', phase # "idle", TimedOut
  PROVE  Abstract!Next \/ UNCHANGED Abstract!vars
<1>1. UNCHANGED <<kind, pending, frames, fromCharger, minted, surfaced>>
  BY DEF TimedOut, RetryUpTo, link, air
<1>2. CASE phase' = "send" /\ log' = log
  BY <1>1, <1>2, StutterMaps DEF Open, OnAir
<1>3. CASE Return("timeout", NoFrame)
  BY <1>1, <1>3, FailureMaps DEF Outcomes
<1> QED
  BY <1>2, <1>3 DEF TimedOut, RetryUpTo

\* A frame the call waits for, or one it sets aside.
LEMMA RecvFrameMaps ==
  ASSUME FeedInv, FeedInv', RecvFrame PROVE Abstract!Next
<1> DEFINE f == Head(frames)
<1>1. /\ frames # <<>> /\ phase = "recv" /\ frames' = Tail(frames)
      /\ fromCharger' = fromCharger /\ kind' = kind /\ minted' = minted /\ surfaced' = surfaced
  BY DEF RecvFrame, air
<1>2. f \in Frame /\ f \in OnAir /\ OnAir' = OnAir \ {f}
  <2>1. /\ frames \in Seq(Frame) /\ fromCharger \in Seq(Frame)
        /\ Rising(frames) /\ Before(frames, fromCharger)
    BY DEF FeedInv, RetryInv, TypeOK, FeedParts
  <2>2. /\ ToSet(frames) = {f} \union ToSet(Tail(frames))
        /\ f \notin ToSet(Tail(frames)) /\ f \notin ToSet(fromCharger)
    BY <1>1, <2>1, SetOfQueue
  <2> QED
    BY <1>1, <2>1, <2>2 DEF OnAir
<1>3. Open = kind /\ Open # "no call"
  BY <1>1, Mapped DEF Open, FeedInv, RetryInv, TypeOK
<1> HIDE DEF f
<1>4. CASE Matches(f, kind) /\ Return("ok", f) /\ pending' = pending
  <2>1. /\ Open' = "no call"
        /\ Ended(log)' = Append(Ended(log), [kind |-> Open, outcome |-> "ok", reply |-> f])
    BY <1>1, <1>4, EndingMaps
  <2>2. Abstract!Answer(f)
    BY <1>1, <1>2, <1>3, <1>4, <2>1, Mapped
    DEF Abstract!Answer, Abstract!End, Open, Ended, Brief, OnAir
  <2> QED
    BY <1>2, <2>2 DEF Abstract!Next, OnAir
<1>5. CASE ~Matches(f, kind) /\ phase' = "top" /\ log' = log /\ pending' = Append(pending, f)
  <2>1. ToSet(pending') = ToSet(pending) \union {f} /\ Open' = Open
    BY <1>1, <1>2, <1>5, SetOfQueue DEF FeedInv, RetryInv, TypeOK, Open
  <2>2. Abstract!SetAside(f)
    BY <1>1, <1>2, <1>3, <1>5, <2>1, Mapped DEF Abstract!SetAside, Open, OnAir
  <2> QED
    BY <1>2, <2>2 DEF Abstract!Next, OnAir
<1> QED
  BY <1>4, <1>5 DEF RecvFrame, f
\* The feed, read from the frames set aside first.
LEMMA NextFrameMaps ==
  ASSUME FeedInv, NextFrame PROVE Abstract!Next
<1>1. /\ pending \in Seq(Frame) /\ frames \in Seq(Frame) /\ fromCharger \in Seq(Frame)
      /\ Rising(pending) /\ Rising(frames)
      /\ Before(pending, frames) /\ Before(pending, fromCharger) /\ Before(frames, fromCharger)
  BY DEF FeedInv, RetryInv, TypeOK, FeedParts
<1>2. /\ Open = "no call" /\ Open' = Open /\ log' = log /\ minted' = minted
      /\ fromCharger' = fromCharger
  BY DEF NextFrame, Open, air
<1>3. CASE NextPending
  <2> DEFINE f == Head(pending)
  <2>1. /\ pending # <<>> /\ surfaced' = f.seq /\ pending' = Tail(pending) /\ frames' = frames
    BY <1>3 DEF NextPending
  <2>2. /\ ToSet(pending) = {f} \union ToSet(Tail(pending)) /\ f \notin ToSet(Tail(pending))
        /\ f \notin ToSet(frames) /\ f \notin ToSet(fromCharger)
    BY <1>1, <2>1, SetOfQueue
  <2>3. f.seq > surfaced /\ \A g \in ToSet(pending) : f.seq <= g.seq
    <3>1. /\ 1 \in DOMAIN pending /\ f = pending[1]
          /\ \A i \in DOMAIN pending : i = 1 \/ 1 < i
      BY <1>1, <2>1
    <3>2. surfaced < f.seq /\ f.seq \in Nat /\ surfaced \in Nat
      BY <3>1, <1>1, SeqNumbers DEF FeedInv, RetryInv, TypeOK, FeedParts, Over
    <3>3. \A i \in DOMAIN pending : f.seq <= pending[i].seq
      <4> SUFFICES ASSUME NEW i \in DOMAIN pending PROVE f.seq <= pending[i].seq
        OBVIOUS
      <4>1. pending[i].seq \in Nat
        BY <1>1, SeqNumbers
      <4>2. i = 1 \/ f.seq < pending[i].seq
        BY <1>1, <3>1 DEF Rising
      <4> QED
        BY <3>1, <3>2, <4>1, <4>2
    <3> QED
      BY <3>2, <3>3 DEF ToSet
  <2>4. OnAir' = OnAir \ {f} /\ ToSet(pending') = ToSet(pending) \ {f} /\ f \in ToSet(pending)
    BY <1>2, <2>1, <2>2 DEF OnAir
  <2> HIDE DEF f
  <2>5. Abstract!Surface(f)
    BY <1>2, <2>1, <2>3, <2>4, Mapped DEF Abstract!Surface, Open, OnAir
  <2> QED
    BY <2>4, <2>5 DEF Abstract!Next
<1>4. CASE pending = <<>> /\ NextRecv
  <2> DEFINE f == Head(frames)
  <2>1. /\ frames # <<>> /\ surfaced' = f.seq /\ frames' = Tail(frames)
        /\ pending = <<>> /\ pending' = pending
    BY <1>4 DEF NextRecv
  <2>2. /\ ToSet(frames) = {f} \union ToSet(Tail(frames)) /\ f \notin ToSet(Tail(frames))
        /\ f \notin ToSet(fromCharger)
    BY <1>1, <2>1, SetOfQueue
  <2>3. f.seq > surfaced
    <3>1. 1 \in DOMAIN frames /\ f = frames[1]
      BY <1>1, <2>1
    <3> QED
      BY <3>1, <1>1, SeqNumbers DEF FeedInv, RetryInv, TypeOK, FeedParts, Over
  <2>4. OnAir' = OnAir \ {f} /\ f \in OnAir /\ ToSet(pending) = {} /\ ToSet(pending') = {}
    BY <1>2, <2>1, <2>2, NothingQueued DEF OnAir
  <2> HIDE DEF f
  <2>5. Abstract!Surface(f)
    BY <1>2, <2>1, <2>3, <2>4, Mapped DEF Abstract!Surface, Open, OnAir
  <2> QED
    BY <2>4, <2>5 DEF Abstract!Next, OnAir
<1> QED
  BY <1>3, <1>4 DEF NextFrame

LEMMA TakePendingMaps ==
  ASSUME FeedInv, TakePending PROVE Abstract!Next
<1> DEFINE n == Len(pending)
           f == pending[n]
<1>1. /\ pending \in Seq(Frame) /\ pending # <<>> /\ Rising(pending)
      /\ n \in Nat /\ n \in DOMAIN pending /\ \A i \in DOMAIN pending : i = n \/ i < n
  BY DEF FeedInv, RetryInv, TypeOK, FeedParts, TakePending
<1>2. /\ Open = "no call" /\ Open' = Open /\ log' = log /\ minted' = minted /\ OnAir' = OnAir
      /\ surfaced' = f.seq /\ pending' = <<>>
  BY DEF TakePending, Open, OnAir, link, air
<1>3. \A i \in DOMAIN pending : pending[i].seq <= f.seq
  <2> SUFFICES ASSUME NEW i \in DOMAIN pending PROVE pending[i].seq <= f.seq
    OBVIOUS
  <2>1. pending[i].seq \in Nat /\ f.seq \in Nat
    BY <1>1, SeqNumbers
  <2>2. i = n \/ pending[i].seq < f.seq
    BY <1>1 DEF Rising
  <2> QED
    BY <2>1, <2>2
<1>4. f \in ToSet(pending) /\ (\A g \in ToSet(pending) : g.seq <= f.seq) /\ ToSet(pending') = {}
  <2>1. \A x : x \in ToSet(pending) <=> \E i \in DOMAIN pending : pending[i] = x
    BY DEF ToSet
  <2> QED
    BY <1>1, <1>2, <1>3, <2>1, NothingQueued
<1> HIDE DEF f
<1>5. Abstract!SurfaceAll
  BY <1>2, <1>4, Mapped DEF Abstract!SurfaceAll, Open, OnAir
<1> QED
  BY <1>5 DEF Abstract!Next

\* A notification that the pump queues stays on the way; one that is lost does not.
LEMMA NotifyMaps ==
  ASSUME FeedInv, Notify PROVE UNCHANGED Abstract!vars
<1>1. /\ frames \in Seq(Frame) /\ fromCharger \in Seq(Frame) /\ fromCharger # <<>>
      /\ frames' = Append(frames, Head(fromCharger)) /\ fromCharger' = Tail(fromCharger)
  BY DEF FeedInv, RetryInv, TypeOK, Notify
<1>2. Head(fromCharger) \in Frame
  BY <1>1, QueueOfFrames
<1>3. OnAir' = OnAir
  BY <1>1, <1>2, SetOfQueue DEF OnAir
<1> QED
  BY <1>3, StutterMaps DEF Notify, client, Open

LEMMA LossMaps ==
  ASSUME FeedInv, NotificationLost PROVE Abstract!Next \/ UNCHANGED Abstract!vars
<1> DEFINE f == Head(fromCharger)
<1>1. /\ frames \in Seq(Frame) /\ fromCharger \in Seq(Frame) /\ fromCharger # <<>>
      /\ fromCharger' = Tail(fromCharger) /\ UNCHANGED <<client, link, minted>>
      /\ Rising(fromCharger) /\ Before(frames, fromCharger)
  BY DEF FeedInv, RetryInv, TypeOK, FeedParts, NotificationLost
<1>2. /\ ToSet(fromCharger) = {f} \union ToSet(Tail(fromCharger))
      /\ f \notin ToSet(Tail(fromCharger))
  BY <1>1, SetOfQueue
<1>3. f \notin ToSet(frames)
  <2>1. 1 \in DOMAIN fromCharger /\ f = fromCharger[1] /\ f.seq \in Nat
    BY <1>1, SeqNumbers
  <2> QED
    BY <1>1, <2>1 DEF Before, ToSet
<1>4. OnAir' = OnAir \ {f} /\ f \in OnAir
  BY <1>1, <1>2, <1>3 DEF OnAir, link
<1> HIDE DEF f
<1>5. Abstract!Lose(f)
  BY <1>1, <1>4, Mapped DEF Abstract!Lose, client, link, Open, OnAir
<1> QED
  BY <1>4, <1>5 DEF Abstract!Next, OnAir

\* The charger answers a call that was made, or speaks unprompted.
LEMMA EmitMaps ==
  ASSUME FeedInv, NEW word, NEW body \in Bodies, NEW to \in Calls \union {0},
         word \in Unsolicited \union UNION { AnswerWords(k) : k \in Kinds },
         word \in Words, Emit(word, body, to)
  PROVE  Abstract!Next
<1> DEFINE f == [word |-> word, body |-> body, to |-> to, seq |-> minted + 1]
<1>1. /\ minted' = minted + 1 /\ fromCharger' = Append(fromCharger, f)
      /\ UNCHANGED <<client, link>>
  BY DEF Emit
<1>2. /\ log \in Seq(LogEntry) /\ Len(log) \in Nat /\ Len(Ended(log)) = Len(log)
      /\ minted \in Nat /\ fromCharger \in Seq(Frame)
  BY EndedType DEF FeedInv, RetryInv, TypeOK
<1>3. f \in Frame
  BY <1>2 DEF Frame, Calls
<1>4. OnAir' = OnAir \union {f}
  BY <1>1, <1>2, <1>3, SetOfQueue DEF OnAir, link
<1>5. /\ to <= Len(Ended(log)) + (IF Open = "no call" THEN 0 ELSE 1)
      /\ to \in 0 .. Len(Ended(log)) + 1
  <2>1. phase = "idle" <=> Open = "no call"
    BY Mapped DEF Open, FeedInv, RetryInv, TypeOK
  <2>2. to <= Len(log) + (IF phase = "idle" THEN 0 ELSE 1) /\ to \in 0 .. Len(log) + 1
    BY <1>2 DEF Calls
  <2> QED
    BY <1>2, <2>1, <2>2
<1> HIDE DEF f
<1>6. Abstract!Speak(word, body, to)
  BY <1>1, <1>4, <1>5, Mapped DEF Abstract!Speak, client, link, Open, OnAir, Ended, Brief, f
<1> QED
  BY <1>5, <1>6 DEF Abstract!Next, Ended, Brief
LEMMA NextMaps ==
  ASSUME FeedInv, Traced, FeedInv', [Next]_vars PROVE Abstract!Next \/ UNCHANGED Abstract!vars
<1>1. ASSUME NEW k \in Kinds, Call(k) PROVE Abstract!Next
  <2>1. /\ Open = "no call" /\ Open' = k /\ log' = log /\ OnAir' = OnAir
        /\ UNCHANGED <<pending, minted, surfaced>>
    BY <1>1 DEF Call, Open, OnAir, link, air
  <2>2. Abstract!Begin(k)
    BY <2>1, Mapped DEF Abstract!Begin, Open, OnAir
  <2> QED
    BY <2>2 DEF Abstract!Next
<1>2. CASE Send \/ RecvStarts \/ Expire \/ LinkDrops \/ PumpEnds \/ Swallow \/ UNCHANGED vars
  BY <1>2, StutterMaps DEF Send, RecvStarts, Expire, LinkDrops, PumpEnds, Swallow, vars,
     client, link, air, Open, OnAir
<1>3. CASE CutShort
  <2>1. PICK o \in {"closed", "transport", "sent", "dropped"} : Return(o, NoFrame)
    BY <1>3 DEF CutShort, SendEnds
  <2> QED
    BY <1>3, <2>1, FailureMaps DEF CutShort, SendEnds, Outcomes, link
<1>4. CASE SendTooLong \/ RecvClosed \/ StopWaiting
  BY <1>4, FailureMaps DEF SendTooLong, RecvClosed, StopWaiting, Outcomes, link, air
<1>5. CASE DeadlinePassed \/ RecvNothing
  BY <1>5, RetryMaps DEF DeadlinePassed, RecvNothing
<1>6. CASE RecvFrame
  BY <1>6, RecvFrameMaps
<1>7. CASE NextFrame \/ TakePending
  BY <1>7, NextFrameMaps, TakePendingMaps
<1>8. CASE Notify \/ NotificationLost
  BY <1>8, NotifyMaps, LossMaps
<1>9. CASE Answer
  <2> DEFINE q == Head(toCharger)
  <2>1. q \in Copy /\ OneOf(q, toCharger)
    BY <1>9, EndsOfQueue DEF Answer, FeedInv, RetryInv, TypeOK
  <2>2. PICK word \in AnswerWords(q.kind), body \in Bodies : Emit(word, body, q.call)
    BY <1>9 DEF Answer
  <2>3. q.kind \in Kinds /\ q.call \in Calls
    BY <2>1 DEF Traced, Made, OneOf, Copy
  <2>4. word \in Words
    BY <2>3, AnswerWordsType
  <2> HIDE DEF q
  <2> QED
    BY <2>2, <2>3, <2>4, EmitMaps
<1>10. CASE SpeakUnprompted
  <2>1. PICK word \in Unsolicited : Emit(word, "good", 0)
    BY <1>10 DEF SpeakUnprompted
  <2>2. word \in Words /\ "good" \in Bodies
    BY WordsAssumption, BodiesAssumption DEF Words
  <2> QED
    BY <2>1, <2>2, EmitMaps
<1> QED
  BY <1>1, <1>2, <1>3, <1>4, <1>5, <1>6, <1>7, <1>8, <1>9, <1>10,
     EndsWithTheWrite
  DEF Next, ClientStep

LEMMA InitMaps == Init => Abstract!Init
<1> SUFFICES ASSUME Init PROVE Abstract!Init
  OBVIOUS
<1>1. /\ pending = <<>> /\ frames = <<>> /\ fromCharger = <<>> /\ log = <<>>
      /\ phase = "idle" /\ minted = 0 /\ surfaced = 0
  BY DEF Init
<1>2. [i \in DOMAIN log |-> [kind |-> log[i].kind, outcome |-> log[i].outcome,
                             reply |-> log[i].reply]] = <<>>
  BY <1>1
<1> QED
  BY <1>1, <1>2, NothingQueued DEF Abstract!Init, Abstract!NoCall

\* Client implements Exchange: every behaviour of the attempts, deadlines, pump
\* and queues is, to the program that owns the client, a behaviour of a call
\* that ends once, with a failure or with a frame really sent under a word it
\* waits for, and of a feed in the order of sending.
THEOREM ClientImplementsExchange == Spec => ImplementsExchange
<1>1. FeedInv /\ Traced /\ FeedInv' /\ [Next]_vars => [Abstract!Next]_(Abstract!vars)
  BY NextMaps
<1> QED
  BY InitMaps, <1>1, FramesAreTraced, PTL DEF Spec, ImplementsExchange, Abstract!Spec
-----------------------------------------------------------------------------
(* An answer belongs to the call that accepts it                           *)

NoCopy(q, c) == \A i \in DOMAIN q : q[i].call # c
OneCopy(q, c) == \A i, j \in DOMAIN q : (q[i].call = c /\ q[j].call = c) => i = j
NoAnswer(s, c) == \A i \in DOMAIN s : s[i].to # c
OneAnswer(s, c) == \A i, j \in DOMAIN s : (s[i].to = c /\ s[j].to = c) => i = j

\* Of call c, nothing is on its way, or one thing: its copy or the answer to it.
NothingOf(q, d, s, c) == NoCopy(q, c) /\ NoAnswer(d, c) /\ NoAnswer(s, c)
OneThingOf(q, d, s, c) ==
  /\ OneCopy(q, c) /\ OneAnswer(d, c) /\ OneAnswer(s, c)
  /\ NoCopy(q, c) \/ (NoAnswer(d, c) /\ NoAnswer(s, c))
  /\ NoAnswer(d, c) \/ NoAnswer(s, c)

\* A call that wrote its request once has at most one thing on its way, and none
\* once it has its answer.
Settled ==
  /\ phase # "idle" =>
       /\ copies = 0 => NothingOf(toCharger, fromCharger, frames, This)
       /\ copies = 1 => OneThingOf(toCharger, fromCharger, frames, This)
  /\ \A j \in DOMAIN log :
       (log[j].outcome = "ok" /\ log[j].copies <= 1 /\ log[j].reply.to = j)
         => NothingOf(toCharger, fromCharger, frames, j)

LEMMA CopyQueue ==
  ASSUME NEW q \in Seq(Copy), NEW c
  PROVE  /\ q # <<>> => /\ NoCopy(q, c) => NoCopy(Tail(q), c) /\ Head(q).call # c
                        /\ OneCopy(q, c) => OneCopy(Tail(q), c)
                        /\ OneCopy(q, c) /\ Head(q).call = c => NoCopy(Tail(q), c)
         /\ \A e \in Copy : /\ NoCopy(q, c) => OneCopy(Append(q, e), c)
                            /\ e.call # c => /\ NoCopy(q, c) => NoCopy(Append(q, e), c)
                                             /\ OneCopy(q, c) => OneCopy(Append(q, e), c)
<1>1. ASSUME q # <<>>
      PROVE  /\ NoCopy(q, c) => NoCopy(Tail(q), c) /\ Head(q).call # c
             /\ OneCopy(q, c) => OneCopy(Tail(q), c)
             /\ OneCopy(q, c) /\ Head(q).call = c => NoCopy(Tail(q), c)
  <2>1. /\ 1 \in DOMAIN q /\ Head(q) = q[1]
        /\ \A i \in DOMAIN Tail(q) : /\ i \in Nat /\ i + 1 \in DOMAIN q /\ i + 1 # 1
                                     /\ Tail(q)[i] = q[i + 1]
        /\ \A i, j \in DOMAIN Tail(q) : i + 1 = j + 1 => i = j
    BY <1>1
  <2> QED
    BY <2>1 DEF NoCopy, OneCopy
<1>2. ASSUME NEW e \in Copy
      PROVE  /\ NoCopy(q, c) => OneCopy(Append(q, e), c)
             /\ e.call # c => /\ NoCopy(q, c) => NoCopy(Append(q, e), c)
                              /\ OneCopy(q, c) => OneCopy(Append(q, e), c)
  <2>1. \A i \in DOMAIN Append(q, e) : \/ i \in DOMAIN q /\ Append(q, e)[i] = q[i]
                                       \/ i = Len(q) + 1 /\ Append(q, e)[i] = e
    OBVIOUS
  <2> QED
    BY <2>1 DEF NoCopy, OneCopy
<1> QED
  BY <1>1, <1>2

LEMMA AnswerQueue ==
  ASSUME NEW q \in Seq(Frame), NEW c
  PROVE  /\ q # <<>> => /\ NoAnswer(q, c) => NoAnswer(Tail(q), c) /\ Head(q).to # c
                        /\ OneAnswer(q, c) => OneAnswer(Tail(q), c)
                        /\ OneAnswer(q, c) /\ Head(q).to = c => NoAnswer(Tail(q), c)
         /\ \A e \in Frame : /\ NoAnswer(q, c) => OneAnswer(Append(q, e), c)
                             /\ e.to # c => /\ NoAnswer(q, c) => NoAnswer(Append(q, e), c)
                                            /\ OneAnswer(q, c) => OneAnswer(Append(q, e), c)
<1>1. ASSUME q # <<>>
      PROVE  /\ NoAnswer(q, c) => NoAnswer(Tail(q), c) /\ Head(q).to # c
             /\ OneAnswer(q, c) => OneAnswer(Tail(q), c)
             /\ OneAnswer(q, c) /\ Head(q).to = c => NoAnswer(Tail(q), c)
  <2>1. /\ 1 \in DOMAIN q /\ Head(q) = q[1]
        /\ \A i \in DOMAIN Tail(q) : /\ i \in Nat /\ i + 1 \in DOMAIN q /\ i + 1 # 1
                                     /\ Tail(q)[i] = q[i + 1]
        /\ \A i, j \in DOMAIN Tail(q) : i + 1 = j + 1 => i = j
    BY <1>1
  <2> QED
    BY <2>1 DEF NoAnswer, OneAnswer
<1>2. ASSUME NEW e \in Frame
      PROVE  /\ NoAnswer(q, c) => OneAnswer(Append(q, e), c)
             /\ e.to # c => /\ NoAnswer(q, c) => NoAnswer(Append(q, e), c)
                            /\ OneAnswer(q, c) => OneAnswer(Append(q, e), c)
  <2>1. \A i \in DOMAIN Append(q, e) : \/ i \in DOMAIN q /\ Append(q, e)[i] = q[i]
                                       \/ i = Len(q) + 1 /\ Append(q, e)[i] = e
    OBVIOUS
  <2> QED
    BY <2>1 DEF NoAnswer, OneAnswer
<1> QED
  BY <1>1, <1>2

\* Of call c, no more is on its way after a step than before it.
NoMoreOf(c) ==
  /\ NothingOf(toCharger, fromCharger, frames, c)
       => NothingOf(toCharger', fromCharger', frames', c)
  /\ OneThingOf(toCharger, fromCharger, frames, c)
       => OneThingOf(toCharger', fromCharger', frames', c)

\* The steps that write no request: of a call, they add nothing.
LEMMA NothingIsAdded ==
  ASSUME FeedInv, [Next]_vars, ~Send, ~CutShort, NEW c \in Nat \ {0}
  PROVE  NoMoreOf(c)
<1> USE DEF client, link, air
<1>1. /\ toCharger \in Seq(Copy) /\ frames \in Seq(Frame) /\ fromCharger \in Seq(Frame)
      /\ minted \in Nat
  BY DEF FeedInv, RetryInv, TypeOK
<1>2. CASE RecvFrame \/ NextFrame
  <2>1. /\ toCharger' = toCharger /\ fromCharger' = fromCharger
        /\ frames' = frames \/ (frames # <<>> /\ frames' = Tail(frames))
    BY <1>2 DEF RecvFrame, NextFrame, NextPending, NextRecv
  <2> QED
    BY <1>1, <2>1, AnswerQueue DEF NoMoreOf, NothingOf, OneThingOf
<1>3. CASE Notify
  <2>1. /\ toCharger' = toCharger /\ fromCharger # <<>> /\ fromCharger' = Tail(fromCharger)
        /\ frames' = Append(frames, Head(fromCharger)) /\ Head(fromCharger) \in Frame
    BY <1>1, <1>3, QueueOfFrames DEF Notify
  <2> QED
    BY <1>1, <2>1, AnswerQueue DEF NoMoreOf, NothingOf, OneThingOf, NoAnswer
<1>4. CASE NotificationLost
  <2>1. /\ toCharger' = toCharger /\ fromCharger # <<>> /\ fromCharger' = Tail(fromCharger)
        /\ frames' = frames
    BY <1>4 DEF NotificationLost
  <2> QED
    BY <1>1, <2>1, AnswerQueue DEF NoMoreOf, NothingOf, OneThingOf
<1>5. CASE Swallow
  <2>1. /\ toCharger # <<>> /\ toCharger' = Tail(toCharger) /\ fromCharger' = fromCharger
        /\ frames' = frames
    BY <1>5 DEF Swallow
  <2> QED
    BY <1>1, <2>1, CopyQueue DEF NoMoreOf, NothingOf, OneThingOf
<1>6. CASE LinkDrops
  BY <1>6 DEF LinkDrops, NoMoreOf, NothingOf, OneThingOf, NoCopy, OneCopy
<1>7. ASSUME NEW word \in Words, NEW body \in Bodies, NEW to \in Nat, Emit(word, body, to)
      PROVE  \E f \in Frame : /\ f.to = to /\ fromCharger' = Append(fromCharger, f)
                              /\ frames' = frames
  <2> DEFINE f == [word |-> word, body |-> body, to |-> to, seq |-> minted + 1]
  <2>1. f \in Frame
    BY <1>1 DEF Frame
  <2> QED
    BY <1>7, <2>1 DEF Emit
<1>8. CASE Answer
  <2> DEFINE q == Head(toCharger)
  <2>1. toCharger # <<>> /\ toCharger' = Tail(toCharger) /\ q \in Copy
    BY <1>1, <1>8 DEF Answer
  <2>2. PICK word \in AnswerWords(q.kind), body \in Bodies : Emit(word, body, q.call)
    BY <1>8 DEF Answer
  <2>3. q.kind \in Kinds /\ q.call \in Nat
    BY <2>1 DEF Copy
  <2>4. word \in Words
    BY <2>3, AnswerWordsType
  <2>5. PICK f \in Frame : f.to = q.call /\ fromCharger' = Append(fromCharger, f) /\ frames' = frames
    BY <1>7, <2>2, <2>3, <2>4
  <2>6. CASE q.call = c
    <3>1. /\ ~NoCopy(toCharger, c)
          /\ OneCopy(toCharger, c) => NoCopy(Tail(toCharger), c)
          /\ OneCopy(toCharger, c) => OneCopy(Tail(toCharger), c)
      BY <1>1, <2>1, <2>6, CopyQueue
    <3>2. NoAnswer(fromCharger, c) => OneAnswer(fromCharger', c)
      BY <1>1, <2>5, AnswerQueue
    <3> QED
      BY <2>1, <2>5, <3>1, <3>2 DEF NoMoreOf, NothingOf, OneThingOf
  <2>7. CASE q.call # c
    <3>1. /\ NoCopy(toCharger, c) => NoCopy(toCharger', c)
          /\ OneCopy(toCharger, c) => OneCopy(toCharger', c)
      BY <1>1, <2>1, CopyQueue
    <3>2. /\ NoAnswer(fromCharger, c) => NoAnswer(fromCharger', c)
          /\ OneAnswer(fromCharger, c) => OneAnswer(fromCharger', c)
      BY <1>1, <2>5, <2>7, AnswerQueue
    <3> QED
      BY <2>5, <3>1, <3>2 DEF NoMoreOf, NothingOf, OneThingOf
  <2> QED
    BY <2>6, <2>7
<1>9. CASE SpeakUnprompted
  <2>1. PICK word \in Unsolicited : Emit(word, "good", 0)
    BY <1>9 DEF SpeakUnprompted
  <2>2. word \in Words /\ "good" \in Bodies /\ toCharger' = toCharger
    BY <1>9, WordsAssumption, BodiesAssumption DEF Words, SpeakUnprompted
  <2>3. PICK f \in Frame : f.to = 0 /\ fromCharger' = Append(fromCharger, f) /\ frames' = frames
    BY <1>7, <2>1, <2>2
  <2>4. /\ NoAnswer(fromCharger, c) => NoAnswer(fromCharger', c)
        /\ OneAnswer(fromCharger, c) => OneAnswer(fromCharger', c)
    BY <1>1, <2>3, AnswerQueue
  <2> QED
    BY <2>2, <2>3, <2>4 DEF NoMoreOf, NothingOf, OneThingOf
<1>10. CASE UNCHANGED <<toCharger, frames, fromCharger>>
  BY <1>10 DEF NoMoreOf
<1> QED
  BY <1>2, <1>3, <1>4, <1>5, <1>6, <1>8, <1>9, <1>10, EndsWithTheWrite
  DEF Next, ClientStep, Call, StopWaiting, SendTooLong, DeadlinePassed, RecvClosed, RecvStarts, RecvNothing,
      TimedOut, RetryUpTo, Expire, TakePending, PumpEnds, vars
\* A copy that is written belongs to the call under way.
LEMMA CopyIsAdded ==
  ASSUME FeedInv, Send \/ CutShort
  PROVE  /\ \A c \in Nat \ {0} : c # This => NoMoreOf(c)
         /\ NothingOf(toCharger, fromCharger, frames, This)
              => OneThingOf(toCharger', fromCharger', frames', This)
<1> DEFINE q == [kind |-> kind, call |-> This]
<1>1. /\ toCharger \in Seq(Copy) /\ phase = "send" /\ q \in Copy /\ q.call = This
      /\ frames' = frames /\ fromCharger' = fromCharger
  BY DEF FeedInv, RetryInv, TypeOK, Send, CutShort, SendEnds, link, Copy, This
<1>2. toCharger' = toCharger \/ toCharger' = Append(toCharger, q)
  BY DEF Send, CutShort, SendEnds
<1> HIDE DEF q
<1>a. \A c : /\ NoCopy(toCharger, c) => OneCopy(Append(toCharger, q), c)
             /\ c # This => /\ NoCopy(toCharger, c) => NoCopy(Append(toCharger, q), c)
                            /\ OneCopy(toCharger, c) => OneCopy(Append(toCharger, q), c)
  BY <1>1, CopyQueue
<1>3. ASSUME NEW c \in Nat \ {0}, c # This PROVE NoMoreOf(c)
  <2>1. /\ NoCopy(toCharger, c) => NoCopy(toCharger', c)
        /\ OneCopy(toCharger, c) => OneCopy(toCharger', c)
    BY <1>2, <1>3, <1>a
  <2> QED
    BY <1>1, <2>1 DEF NoMoreOf, NothingOf, OneThingOf
<1>4. ASSUME NothingOf(toCharger, fromCharger, frames, This)
      PROVE  OneThingOf(toCharger', fromCharger', frames', This)
  <2>1. NoCopy(toCharger, This) => OneCopy(toCharger', This)
    <3>1. NoCopy(toCharger, This) => OneCopy(toCharger, This)
      BY DEF NoCopy, OneCopy
    <3> QED
      BY <1>2, <1>a, <3>1
  <2>2. \A s, c : NoAnswer(s, c) => OneAnswer(s, c)
    BY DEF NoAnswer, OneAnswer
  <2> QED
    BY <1>1, <1>4, <2>1, <2>2 DEF NothingOf, OneThingOf
<1> QED
  BY <1>3, <1>4

\* The answer taken, nothing is left of a call that had one thing on its way.
LEMMA AnswerIsTaken ==
  ASSUME FeedInv, RecvFrame, OneThingOf(toCharger, fromCharger, frames, Head(frames).to)
  PROVE  NothingOf(toCharger', fromCharger', frames', Head(frames).to)
<1> DEFINE c == Head(frames).to
<1>1. /\ frames \in Seq(Frame) /\ frames # <<>> /\ frames' = Tail(frames)
      /\ toCharger' = toCharger /\ fromCharger' = fromCharger
  BY DEF FeedInv, RetryInv, TypeOK, RecvFrame, air
<1>2. ~NoAnswer(frames, c)
  BY <1>1, AnswerQueue
<1>3. NoAnswer(Tail(frames), c)
  BY <1>1, AnswerQueue DEF OneThingOf
<1> QED
  BY <1>1, <1>2, <1>3 DEF OneThingOf, NothingOf

\* A call that ends in this step, and what it took.
Ends == phase # "idle" /\ \E o \in Outcomes, f \in Frame \union {NoFrame} :
          /\ log' = Append(log, Entry(o, f, copies')) /\ phase' = "idle"
          /\ o = "ok" => /\ RecvFrame /\ f = Head(frames) /\ Matches(f, kind)
                         /\ copies' = copies

LEMMA EndsOrGoesOn ==
  ASSUME FeedInv, [Next]_vars
  PROVE  \/ Ends
         \/ log' = log /\ phase = "idle" /\ phase' # "idle" /\ copies' = 0
         \/ log' = log /\ phase = "idle" /\ phase' = "idle"
         \/ log' = log /\ phase # "idle" /\ phase' # "idle" /\ Send /\ copies' = copies + 1
         \/ log' = log /\ phase # "idle" /\ phase' # "idle" /\ ~Send /\ copies' = copies
<1> USE DEF client
<1>1. CASE CutShort
  <2>1. PICK o \in {"closed", "transport", "sent", "dropped"} : Return(o, NoFrame)
    BY <1>1 DEF CutShort, SendEnds
  <2> QED
    BY <1>1, <2>1 DEF CutShort, SendEnds, Return, Ends, Entry, Outcomes
<1>2. CASE SendTooLong \/ RecvClosed \/ StopWaiting
  BY <1>2 DEF SendTooLong, RecvClosed, StopWaiting, Return, Ends, Entry, Outcomes
<1>3. CASE DeadlinePassed \/ RecvNothing
  <2>1. ~Send
    BY <1>3 DEF DeadlinePassed, RecvNothing, Send
  <2> QED
    BY <1>3, <2>1 DEF DeadlinePassed, RecvNothing, TimedOut, RetryUpTo, Return, Ends, Entry, Outcomes
<1>4. CASE RecvFrame
  <2>1. Head(frames) \in Frame /\ phase = "recv" /\ copies' = copies
    BY <1>4, QueueOfFrames DEF RecvFrame, FeedInv, RetryInv, TypeOK
  <2>2. CASE Matches(Head(frames), kind) /\ Return("ok", Head(frames))
    BY <1>4, <2>1, <2>2 DEF Return, Ends, Entry, Outcomes
  <2>3. CASE phase' = "top" /\ log' = log
    BY <2>1, <2>3 DEF Send
  <2> QED
    BY <1>4, <2>2, <2>3 DEF RecvFrame
<1>5. CASE /\ ~CutShort /\ ~StopWaiting /\ ~SendTooLong /\ ~RecvClosed
           /\ ~DeadlinePassed /\ ~RecvNothing /\ ~RecvFrame
  BY <1>5, EndsWithTheWrite DEF Next, ClientStep, Call, Send, RecvStarts, Expire, NextFrame, TakePending, Notify,
     NotificationLost, LinkDrops, PumpEnds, Answer, Emit, Swallow, SpeakUnprompted, vars
<1> QED
  BY <1>1, <1>2, <1>3, <1>4, <1>5
LEMMA NextKeepsSettled ==
  ASSUME FeedInv, Traced, Settled, [Next]_vars PROVE Settled'
<1> DEFINE t == This
           Nothing(c) == NothingOf(toCharger, fromCharger, frames, c)
           NothingThen(c) == NothingOf(toCharger', fromCharger', frames', c)
           OneThing(c) == OneThingOf(toCharger, fromCharger, frames, c)
           OneThingThen(c) == OneThingOf(toCharger', fromCharger', frames', c)
<1>1. /\ log \in Seq(LogEntry) /\ Len(log) \in Nat /\ DOMAIN log = 1 .. Len(log)
      /\ t \in Nat \ {0} /\ t = Len(log) + 1 /\ copies \in Nat
  BY DEF FeedInv, RetryInv, TypeOK, This
<1>2. /\ phase # "idle" /\ copies = 0 => Nothing(t)
      /\ phase # "idle" /\ copies = 1 => OneThing(t)
      /\ \A j \in DOMAIN log :
           (log[j].outcome = "ok" /\ log[j].copies <= 1 /\ log[j].reply.to = j) => Nothing(j)
  BY DEF Settled
<1>3. \A j \in DOMAIN log : Nothing(j) => NothingThen(j)
  <2> SUFFICES ASSUME NEW j \in DOMAIN log PROVE NoMoreOf(j)
    BY DEF NoMoreOf
  <2>1. j \in Nat \ {0} /\ j # t
    BY <1>1
  <2> QED
    BY <2>1, NothingIsAdded, CopyIsAdded
<1>4. \/ phase' = "idle" /\ log' = log
      \/ /\ phase' # "idle" /\ log' = log
         /\ copies' = 0 => NothingThen(t)
         /\ copies' = 1 => OneThingThen(t)
      \/ Ends
  <2>1. CASE log' = log /\ phase = "idle" /\ phase' # "idle" /\ copies' = 0
    <3>1. Calls = 1 .. Len(log)
      BY <1>1, <2>1 DEF Calls
    <3>2. /\ \A i \in DOMAIN toCharger : toCharger[i].call # t
          /\ \A i \in DOMAIN fromCharger : fromCharger[i].to # t
          /\ \A i \in DOMAIN frames : frames[i].to # t
      BY <1>1, <3>1 DEF Traced, Made, Sourced
    <3>3. Nothing(t)
      BY <3>2 DEF NothingOf, NoCopy, NoAnswer
    <3>4. NoMoreOf(t)
      BY <1>1, <2>1, NothingIsAdded DEF Send, CutShort, SendEnds
    <3> QED
      BY <2>1, <3>3, <3>4 DEF NoMoreOf
  <2>2. CASE log' = log /\ phase # "idle" /\ phase' # "idle" /\ Send /\ copies' = copies + 1
    BY <1>1, <1>2, <2>2, CopyIsAdded
  <2>3. CASE log' = log /\ phase # "idle" /\ phase' # "idle" /\ ~Send /\ copies' = copies
    <3>1. ~CutShort
      BY <2>3 DEF CutShort, SendEnds, Return
    <3> QED
      BY <1>1, <1>2, <2>3, <3>1, NothingIsAdded DEF NoMoreOf
  <2> QED
    BY <2>1, <2>2, <2>3, EndsOrGoesOn
<1>5. CASE phase' = "idle" /\ log' = log
  BY <1>2, <1>3, <1>5 DEF Settled
<1>6. CASE /\ phase' # "idle" /\ log' = log
           /\ copies' = 0 => NothingThen(t)
           /\ copies' = 1 => OneThingThen(t)
  <2>1. This' = t
    BY <1>6 DEF This
  <2> QED
    BY <1>2, <1>3, <1>6, <2>1 DEF Settled
<1>7. CASE Ends
  <2>1. PICK o \in Outcomes, f \in Frame \union {NoFrame} :
          /\ log' = Append(log, Entry(o, f, copies')) /\ phase' = "idle"
          /\ o = "ok" => /\ RecvFrame /\ f = Head(frames) /\ Matches(f, kind)
                         /\ copies' = copies
    BY <1>7 DEF Ends
  <2> DEFINE e == Entry(o, f, copies')
  <2>2. /\ e.outcome = o /\ e.copies = copies' /\ e.reply = f
    BY DEF Entry
  <2> HIDE DEF e
  <2>3. /\ DOMAIN log' = 1 .. Len(log) + 1 /\ log'[Len(log) + 1] = e
        /\ \A j \in DOMAIN log : log'[j] = log[j]
        /\ \A j \in 1 .. Len(log) + 1 : j = t \/ j \in DOMAIN log
    BY <1>1, <2>1 DEF e
  <2>4. (o = "ok" /\ copies' <= 1 /\ f.to = t) => NothingThen(t)
    <3> HAVE o = "ok" /\ copies' <= 1 /\ f.to = t
    <3>1. RecvFrame /\ f = Head(frames) /\ copies' = copies /\ phase = "recv"
      BY <2>1 DEF RecvFrame
    <3>2. CASE copies = 0
      BY <1>1, <1>2, <3>1, <3>2, NothingIsAdded DEF NoMoreOf, Send, CutShort, SendEnds
    <3>3. CASE copies = 1
      BY <1>2, <3>1, <3>3, AnswerIsTaken
    <3> QED
      BY <1>1, <3>1, <3>2, <3>3
  <2>5. ASSUME NEW j \in DOMAIN log', log'[j].outcome = "ok", log'[j].copies <= 1,
               log'[j].reply.to = j
        PROVE  NothingThen(j)
    BY <1>1, <1>2, <1>3, <2>2, <2>3, <2>4, <2>5
  <2> QED
    BY <2>1, <2>5 DEF Settled
<1> QED
  BY <1>4, <1>5, <1>6, <1>7

\* No request but Identify and Raw is answered under the words of an identity.
LEMMA IdentityWords ==
  \A k \in RequestKinds \ Wildcards : ReplyWord(k) \notin {\h01, \h13}
  BY DEF RequestKinds, CommandWord, Wildcards, ReplyWord

LEMMA NextKeepsStale ==
  ASSUME FeedInv, FeedInv', Traced, Settled, StaleOnlyAfterTrouble, [Next]_vars
  PROVE  StaleOnlyAfterTrouble'
<1>1. CASE log' = log
  BY <1>1 DEF StaleOnlyAfterTrouble, Untidy
<1>2. CASE Ends
  <2>1. PICK o \in Outcomes, f \in Frame \union {NoFrame} :
          /\ log' = Append(log, Entry(o, f, copies')) /\ phase' = "idle"
          /\ o = "ok" => /\ RecvFrame /\ f = Head(frames) /\ Matches(f, kind)
                         /\ copies' = copies
    BY <1>2 DEF Ends
  <2> DEFINE e == Entry(o, f, copies')
             t == Len(log) + 1
             Trouble(lg, i, w) ==
               \/ w \in Unsolicited
               \/ \E j \in 1 .. i - 1 :
                    \/ ReplyWord(lg[j].kind) = w /\ (lg[j].copies > 1 \/ lg[j].outcome # "ok")
                    \/ lg[j].kind = "Raw"
             Fair(lg, i) ==
               (lg[i].outcome = "ok" /\ ReplyWord(lg[i].kind) # NoWord /\ lg[i].reply.to # i)
                 => Trouble(lg, i, ReplyWord(lg[i].kind))
  <2>2. e.outcome = o /\ e.reply = f /\ e.kind = kind
    BY DEF Entry
  <2> HIDE DEF e
  <2>3. /\ log \in Seq(LogEntry) /\ Len(log) \in Nat /\ DOMAIN log = 1 .. Len(log)
        /\ DOMAIN log' = 1 .. t /\ log'[t] = e
        /\ \A j \in 1 .. Len(log) : log'[j] = log[j]
        /\ \A i \in 1 .. t : i = t \/ i \in 1 .. Len(log)
    <3> HIDE DEF Trouble, Fair
    <3>1. log \in Seq(LogEntry)
      BY DEF FeedInv, RetryInv, TypeOK
    <3>2. Len(log) \in Nat /\ DOMAIN log = 1 .. Len(log)
      BY <3>1
    <3>3. log' = Append(log, e)
      BY <2>1 DEF e
    <3>4. DOMAIN log' = 1 .. t /\ log'[t] = e
      BY <3>1, <3>3
    <3>5. \A j \in 1 .. Len(log) : log'[j] = log[j]
      BY <3>1, <3>3
    <3>6. \A i \in 1 .. t : i = t \/ i \in 1 .. Len(log)
      BY <3>2
    <3> QED
      BY <3>1, <3>2, <3>4, <3>5, <3>6
  <2>4. \A i \in 1 .. Len(log) : Fair(log, i)
    BY <2>3 DEF StaleOnlyAfterTrouble, Untidy
  <2>5. \A i \in 1 .. t : \A w : Trouble(log, i, w) => Trouble(log', i, w)
    BY <2>3
  <2>6. \A i \in 1 .. Len(log) : Fair(log', i)
    BY <2>3, <2>4, <2>5
  <2>7. ASSUME o = "ok", ReplyWord(kind) # NoWord, f.to # t
        PROVE  Trouble(log, t, ReplyWord(kind))
    <3> DEFINE w == ReplyWord(kind)
               j == f.to
    <3>1. /\ frames \in Seq(Frame) /\ frames # <<>> /\ f = Head(frames) /\ f.word = w
          /\ phase # "idle"
      BY <2>1, <2>7 DEF FeedInv, RetryInv, TypeOK, RecvFrame, Matches
    <3>2. 1 \in DOMAIN frames /\ frames[1] = f
      BY <3>1
    <3>3. \/ f.word \in Unsolicited
          \/ j \in Calls /\ f.word \in AnswerWords(KindOf(j))
      BY <3>2 DEF Traced, Sourced
    <3>4. CASE j \in Calls /\ f.word \in AnswerWords(KindOf(j))
      <4>1. j \in 1 .. Len(log) /\ KindOf(j) = log[j].kind
        BY <2>3, <2>7, <3>1, <3>4 DEF Calls, KindOf, KindIn
      <4>2. log[j] \in LogEntry
        BY <2>3, <4>1
      <4>3. log[j].kind \in RequestKinds /\ kind \in RequestKinds \ Wildcards /\ log[j].copies \in Nat
        BY <2>7, <3>1, <4>2, KindsAssumption DEF LogEntry, FeedInv, RetryInv, TypeOK, ReplyWord
      <4>4. CASE log[j].kind = "Raw"
        BY <2>3, <4>1, <4>4
      <4>5. CASE log[j].kind = "Identify"
        BY <3>1, <3>4, <4>1, <4>3, <4>5, IdentityWords DEF AnswerWords
      <4>6. CASE log[j].kind \notin {"Raw", "Identify"}
        <5>1. ReplyWord(log[j].kind) = w
          BY <3>1, <3>4, <4>1, <4>6 DEF AnswerWords
        <5>2. CASE log[j].copies > 1 \/ log[j].outcome # "ok"
          BY <2>3, <4>1, <5>1, <5>2
        <5>3. CASE log[j].copies <= 1 /\ log[j].outcome = "ok"
          <6>1. log[j].reply.to # j
            BY <2>3, <3>2, <4>1, <5>3 DEF Settled, NothingOf, NoAnswer
          <6>2. Trouble(log, j, w)
            BY <2>4, <2>7, <4>1, <5>1, <5>3, <6>1
          <6>3. \A i \in 1 .. j - 1 : i \in 1 .. t - 1
            BY <2>3, <4>1
          <6> QED
            BY <6>2, <6>3
        <5> QED
          BY <4>3, <5>2, <5>3
      <4> QED
        BY <4>4, <4>5, <4>6
    <3> QED
      BY <3>1, <3>3, <3>4
  <2>8. Fair(log', t)
    <3>1. t \in 1 .. t
      BY <2>3
    <3> QED
      BY <2>2, <2>3, <2>5, <2>7, <3>1
  <2>9. \A i \in DOMAIN log' : Fair(log', i)
    BY <2>3, <2>6, <2>8
  <2> QED
    BY <2>9 DEF StaleOnlyAfterTrouble, Untidy
<1> QED
  BY <1>1, <1>2, EndsOrGoesOn

\* The answer a call accepts was drawn by that call, unless the charger speaks
\* the word unprompted or an earlier call may have left an answer behind: one
\* that was resent, failed or dropped, or a Raw one.  call_once looks at nothing but the
\* word, and the link is never drained; this is what that leaves.
THEOREM AnswersBelong == Spec => []StaleOnlyAfterTrouble
<1> DEFINE Inv == FeedInv /\ Traced /\ Settled /\ StaleOnlyAfterTrouble
<1>1. Init => Inv
  <2> SUFFICES ASSUME Init PROVE Inv
    OBVIOUS
  <2>1. phase = "idle" /\ log = <<>>
    BY DEF Init
  <2> QED
    BY <2>1, AtFirst DEF Settled, StaleOnlyAfterTrouble
<1>2. Inv /\ [Next]_vars => Inv'
  <2>1. FeedInv /\ Traced /\ [Next]_vars => (FeedInv /\ Traced)'
    BY NextKeepsOrder, NextKeepsTraced, ClientStepKeepsRetryInv, OtherStepKeepsRetryInv DEF FeedInv
  <2> QED
    BY <2>1, NextKeepsSettled, NextKeepsStale
<1> QED
  BY <1>1, <1>2, PTL DEF Spec
=============================================================================
