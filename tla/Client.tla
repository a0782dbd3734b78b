------------------------------- MODULE Client -------------------------------
(***************************************************************************)
(* A client talking to one charger: Client::call and Client::call_once     *)
(* with their attempts, deadline and queue of frames set aside             *)
(* (client.rs), the frame channel and the notification pump of BleLink     *)
(* (ble.rs), and, outside the code, the air and the charger.               *)
(*                                                                         *)
(* Time is one flag: expired says that the deadline of the attempt has     *)
(* passed.  Each wait of the client is an atomic step boundary, and the    *)
(* pump, the radio and the charger move in between.  Frames carry two      *)
(* numbers no real frame has, so that properties can tell them apart: the  *)
(* call they answer (0: none) and the order the charger sent them in.      *)
(***************************************************************************)
EXTENDS Request, SequencesExt

CONSTANTS Kinds,        \* the request kinds the program issues
          Unsolicited,  \* the words the charger sends without being asked
          Bodies,       \* what a frame may say, apart from its word
          RETRIES,      \* extra attempts of a retryable request (3 in the code)
          MaxCalls,     \* bound: calls the program makes
          MaxFrames     \* bound: frames the charger sends

ASSUME KindsAssumption == Kinds \subseteq RequestKinds
ASSUME RetriesAssumption == RETRIES \in Nat
ASSUME BoundsAssumption == MaxCalls \in Nat /\ MaxFrames \in Nat
ASSUME WordsAssumption == Unsolicited \subseteq 0 .. 255
ASSUME BodiesAssumption == "good" \in Bodies

VARIABLES
  \* the client
  phase,       \* "idle", "send", "top" of the receive loop, "recv"
  kind,        \* the request being called
  attempt,     \* the attempt under way, counted from one
  expired,     \* has the deadline of this attempt passed?
  late,        \* history: frames this attempt took after its deadline
  pending,     \* frames set aside while waiting for another
  copies,      \* history: copies of this request that may have reached the air
  log,         \* history: the calls that ended
  surfaced,    \* history: the last frame taken off the feed
  \* the link
  frames,      \* decoded frames the pump queued and nobody read
  pump,        \* "running", "ended" (its sender dropped), "finished"
  linkUp,      \* is the peripheral connected?
  \* the air and the charger
  toCharger,   \* copies of requests on their way
  fromCharger, \* notifications on their way
  minted       \* history: frames the charger has sent

client == <<phase, kind, attempt, expired, late, pending, copies, log, surfaced>>
link == <<frames, pump, linkUp>>
air == <<toCharger, fromCharger, minted>>
vars == <<client, link, air>>
-----------------------------------------------------------------------------
NoFrame == [word |-> NoWord, body |-> "none", to |-> 0, seq |-> 0]
Words == 0 .. 255
Frame == [word : Words, body : Bodies, to : Nat, seq : Nat]

\* How a call ends: with a frame, with an error, or, "dropped", because the
\* program stopped waiting; "sent" is a request that waits for nothing.
Outcomes == {"ok", "timeout", "closed", "transport", "frame", "sent", "dropped"}

\* The number of the call under way, or of the next one.
This == Len(log) + 1

Attempts(k) == IF IsRetryable(k) THEN RETRIES + 1 ELSE 1

\* (mutant: the first frame that comes answers)
MatchesAnything(f, k) == f.word \in Words

Matches(f, k) == ReplyWord(k) \in {NoWord, f.word}

Init ==
  /\ phase = "idle" /\ kind = "Identify" /\ attempt = 1 /\ expired = FALSE /\ late = 0
  /\ pending = <<>> /\ copies = 0 /\ log = <<>> /\ surfaced = 0
  /\ frames = <<>> /\ pump = "running" /\ linkUp = TRUE
  /\ toCharger = <<>> /\ fromCharger = <<>> /\ minted = 0
-----------------------------------------------------------------------------
(* Client::call and Client::call_once                                      *)

Call(k) ==
  /\ phase = "idle"
  /\ Len(log) < MaxCalls
  /\ phase' = "send" /\ kind' = k /\ attempt' = 1 /\ copies' = 0
  /\ UNCHANGED <<expired, late, pending, log, surfaced, link, air>>

Return(outcome, f) ==
  /\ phase' = "idle"
  /\ log' = Append(log, [kind |-> kind, copies |-> copies', outcome |-> outcome,
                         reply |-> f])

\* The radio takes the frame; the bridge behind it may still swallow it.
Send ==
  /\ phase = "send" /\ linkUp
  /\ phase' = "top" /\ expired' = FALSE /\ late' = 0 /\ copies' = copies + 1
  /\ \/ toCharger' = Append(toCharger, [kind |-> kind, call |-> This])
     \/ UNCHANGED toCharger
  /\ UNCHANGED <<kind, attempt, pending, log, surfaced, link, fromCharger, minted>>

\* The call ends with its write: the charger may have had the frame, or not.
SendEnds(outcomes) ==
  /\ phase = "send"
  /\ copies' = copies + 1
  /\ \/ linkUp /\ toCharger' = Append(toCharger, [kind |-> kind, call |-> This])
     \/ UNCHANGED toCharger
  /\ \E o \in outcomes : Return(o, NoFrame)
  /\ UNCHANGED <<kind, attempt, expired, late, pending, surfaced, link, fromCharger, minted>>

\* The write errors, or is not confirmed in WRITE_TIMEOUT.
SendFails == SendEnds({"closed", "transport"})

\* Client::send: the command line writes the bytes it was given and reads the
\* feed, so nobody waits for the answer.
SendAlone == kind = "Raw" /\ linkUp /\ SendEnds({"sent"})

\* Only the bytes of a Raw request can outgrow the length field.
SendTooLong ==
  /\ phase = "send" /\ kind = "Raw"
  /\ copies' = copies
  /\ Return("frame", NoFrame)
  /\ UNCHANGED <<kind, attempt, expired, late, pending, surfaced, link, air>>

\* A timeout is the one error that is retried, and only while attempts last.
RetryUpTo(attempts) ==
  /\ copies' = copies
  /\ \/ /\ attempt < attempts
        /\ phase' = "send" /\ attempt' = attempt + 1 /\ log' = log
     \/ /\ attempt >= attempts
        /\ Return("timeout", NoFrame) /\ attempt' = attempt
  /\ UNCHANGED <<kind, expired, late, pending, surfaced, link, air>>

\* (mutants: the loop makes one attempt fewer, or one more)
TimedOutEarly == RetryUpTo(Attempts(kind) - 1)
TimedOutLate == RetryUpTo(Attempts(kind) + 1)

TimedOut == RetryUpTo(Attempts(kind))

\* The top of the receive loop: the deadline first, even with frames queued.
DeadlinePassed == phase = "top" /\ expired /\ TimedOut

LinkIsClosed == pump = "finished" /\ frames = <<>>

RecvClosed ==
  /\ phase = "top" /\ ~expired /\ LinkIsClosed
  /\ copies' = copies
  /\ Return("closed", NoFrame)
  /\ UNCHANGED <<kind, attempt, expired, late, pending, surfaced, link, air>>

RecvStarts ==
  /\ phase = "top" /\ ~expired /\ ~LinkIsClosed
  /\ phase' = "recv"
  /\ UNCHANGED <<kind, attempt, expired, late, pending, copies, log, surfaced, link, air>>

\* (mutant: every frame is set aside, the answer too)
RecvFrameKeepsAll ==
  /\ phase = "recv" /\ frames # <<>>
  /\ frames' = Tail(frames) /\ copies' = copies
  /\ LET f == Head(frames) IN
       /\ pending' = Append(pending, f)
       /\ IF Matches(f, kind) THEN Return("ok", f) ELSE phase' = "top" /\ log' = log
  /\ late' = late + (IF expired THEN 1 ELSE 0)
  /\ UNCHANGED <<kind, attempt, expired, surfaced, pump, linkUp, air>>

\* (mutant: every frame renews the deadline)
RecvFrameRenews ==
  /\ phase = "recv" /\ frames # <<>>
  /\ frames' = Tail(frames) /\ copies' = copies
  /\ LET f == Head(frames) IN
       IF Matches(f, kind)
       THEN Return("ok", f) /\ pending' = pending
       ELSE /\ phase' = "top" /\ log' = log
            /\ pending' = Append(pending, f)
  /\ late' = late + (IF expired THEN 1 ELSE 0)
  /\ expired' = FALSE
  /\ UNCHANGED <<kind, attempt, surfaced, pump, linkUp, air>>

\* A queued frame wins over the deadline: the channel is polled first.
RecvFrame ==
  /\ phase = "recv" /\ frames # <<>>
  /\ frames' = Tail(frames) /\ copies' = copies
  /\ LET f == Head(frames) IN
       IF Matches(f, kind)
       THEN Return("ok", f) /\ pending' = pending
       ELSE /\ phase' = "top" /\ log' = log
            /\ pending' = Append(pending, f)
  /\ late' = late + (IF expired THEN 1 ELSE 0)
  /\ UNCHANGED <<kind, attempt, expired, surfaced, pump, linkUp, air>>

\* (mutant: the wait has no deadline)
RecvNothingEver ==
  /\ phase = "recv" /\ frames = <<>>
  /\ pump # "running"
  /\ TimedOut

\* The wait ran out, or the pump dropped its sender during it: both are None.
RecvNothing ==
  /\ phase = "recv" /\ frames = <<>>
  /\ expired \/ pump # "running"
  /\ TimedOut

\* The program drops a call where it awaits, in the write or in the wait for a
\* frame: watch races its calls against ctrl-c, and the session it runs in goes
\* on with the same client.
StopWaiting ==
  /\ phase = "recv"
  /\ copies' = copies
  /\ Return("dropped", NoFrame)
  /\ UNCHANGED <<kind, attempt, expired, late, pending, surfaced, link, air>>

Drop == SendEnds({"dropped"}) \/ StopWaiting

\* The clock, for a client that waits.
Expire ==
  /\ phase \in {"top", "recv"} /\ ~expired
  /\ expired' = TRUE
  /\ UNCHANGED <<phase, kind, attempt, late, pending, copies, log, surfaced, link, air>>
-----------------------------------------------------------------------------
(* Client::next_frame and Client::take_pending: reading the feed           *)

NextPending == /\ pending # <<>>
               /\ surfaced' = Head(pending).seq
               /\ pending' = Tail(pending) /\ frames' = frames
NextRecv == /\ frames # <<>>
            /\ surfaced' = Head(frames).seq
            /\ frames' = Tail(frames) /\ pending' = pending

\* (mutant: the link is read before the frames set aside)
NextFrameSkips ==
  /\ phase = "idle"
  /\ NextRecv \/ (frames = <<>> /\ NextPending)
  /\ UNCHANGED <<phase, kind, attempt, expired, late, copies, log, pump, linkUp, air>>

\* A wait that ends with nothing changes nothing.
NextFrame ==
  /\ phase = "idle"
  /\ NextPending \/ (pending = <<>> /\ NextRecv)
  /\ UNCHANGED <<phase, kind, attempt, expired, late, copies, log, pump, linkUp, air>>

TakePending ==
  /\ phase = "idle" /\ pending # <<>>
  /\ surfaced' = pending[Len(pending)].seq
  /\ pending' = <<>>
  /\ UNCHANGED <<phase, kind, attempt, expired, late, copies, log, link, air>>
-----------------------------------------------------------------------------
(* The notification pump of BleLink, and the radio under it                *)

Notify ==
  /\ pump = "running" /\ fromCharger # <<>>
  /\ frames' = Append(frames, Head(fromCharger))
  /\ fromCharger' = Tail(fromCharger)
  /\ UNCHANGED <<client, pump, linkUp, toCharger, minted>>

\* A notification that is lost, or whose checksum the decoder refuses.
NotificationLost ==
  /\ fromCharger # <<>>
  /\ fromCharger' = Tail(fromCharger)
  /\ UNCHANGED <<client, link, toCharger, minted>>

LinkDrops ==
  /\ linkUp
  /\ linkUp' = FALSE /\ toCharger' = <<>>
  /\ UNCHANGED <<client, frames, pump, fromCharger, minted>>

\* The stream of notifications ends: the pump drops its sender, and only
\* then counts as finished.
PumpEnds ==
  /\ \/ pump = "running" /\ ~linkUp /\ fromCharger = <<>> /\ pump' = "ended"
     \/ pump = "ended" /\ pump' = "finished"
  /\ UNCHANGED <<client, frames, linkUp, air>>
-----------------------------------------------------------------------------
(* The charger, from how the code uses it                                  *)

\* Identify draws an identity or a Bluetooth mode.  Raw may hold the bytes of any
\* request, and draws what that would.
AnswerWords(k) ==
  CASE k = "Identify" -> {\h01, \h13}
    [] k = "Raw"      -> {\h01} \union { ReplyWord(j) : j \in Kinds \ Wildcards }
    [] OTHER          -> {ReplyWord(k)}

Emit(word, body, to) ==
  /\ linkUp /\ minted < MaxFrames
  /\ minted' = minted + 1
  /\ fromCharger' = Append(fromCharger,
       [word |-> word, body |-> body, to |-> to, seq |-> minted'])
  /\ UNCHANGED <<client, link>>

Answer ==
  /\ toCharger # <<>>
  /\ LET q == Head(toCharger) IN
       \E word \in AnswerWords(q.kind), body \in Bodies : Emit(word, body, q.call)
  /\ toCharger' = Tail(toCharger)

\* A charger swallows the first control frame after a bind, and others.
Swallow ==
  /\ toCharger # <<>>
  /\ toCharger' = Tail(toCharger)
  /\ UNCHANGED <<client, link, fromCharger, minted>>

SpeakUnprompted ==
  /\ \E word \in Unsolicited : Emit(word, "good", 0)
  /\ UNCHANGED toCharger
-----------------------------------------------------------------------------
ClientStep == \/ Send \/ SendAlone \/ SendFails \/ SendTooLong
              \/ DeadlinePassed \/ RecvClosed \/ RecvStarts
              \/ RecvFrame \/ RecvNothing

Next == \/ \E k \in Kinds : Call(k)
        \/ ClientStep \/ Expire \/ Drop
        \/ NextFrame \/ TakePending
        \/ Notify \/ NotificationLost \/ LinkDrops \/ PumpEnds
        \/ Answer \/ Swallow \/ SpeakUnprompted

Spec == Init /\ [][Next]_vars

\* The runtime keeps polling a task that can move, and its clock advances.
\* Nothing is assumed of the charger, the radio or the calling program.
Fairness == WF_vars(ClientStep) /\ WF_vars(Expire)
FairSpec == Spec /\ Fairness
-----------------------------------------------------------------------------
(* Properties                                                              *)

LogEntry == [kind : Kinds, copies : Nat, outcome : Outcomes,
             reply : Frame \union {NoFrame}]
Copy == [kind : Kinds, call : Nat]

\* The variables of the client, the link and the air keep their types, and the
\* attempt counter of Client::call stays in 1..=attempts.
TypeOK ==
  /\ phase \in {"idle", "send", "top", "recv"}
  /\ attempt \in 1 .. RETRIES + 1
  /\ phase # "idle" => kind \in Kinds /\ attempt <= Attempts(kind)
  /\ expired \in BOOLEAN /\ linkUp \in BOOLEAN
  /\ pending \in Seq(Frame) /\ frames \in Seq(Frame) /\ fromCharger \in Seq(Frame)
  /\ toCharger \in Seq(Copy)
  /\ late \in Nat /\ copies \in Nat /\ surfaced \in Nat /\ minted \in Nat
  /\ log \in Seq(LogEntry)
  /\ pump \in {"running", "ended", "finished"}

\* What holds TypeOK and the bounds on resending together: the copies written
\* so far follow the attempt counter.
CopiesFollowAttempts ==
  /\ phase = "send" => copies = attempt - 1
  /\ phase \in {"top", "recv"} => copies = attempt

\* A request that must not be repeated is put on the air at most once, however
\* many frames are lost and whatever the link does; any other at most
\* RETRIES + 1 times (Client::call against Request::is_retryable).
ResendBound ==
  /\ phase # "idle" => /\ copies <= RETRIES + 1
                       /\ kind \in NotRetryable => copies <= 1
  /\ \A i \in DOMAIN log :
       /\ log[i].copies <= RETRIES + 1
       /\ log[i].kind \in NotRetryable => log[i].copies <= 1

\* A call reports a timeout only when it has used every attempt it is allowed
\* (the loop of Client::call hands back any other error at once).
TimeoutMeansAllTried ==
  \A i \in DOMAIN log :
    log[i].outcome = "timeout" => log[i].copies = Attempts(log[i].kind)

\* Once the deadline of an attempt has passed, at most one more frame is taken
\* before the attempt ends, however many the charger sends and however many are
\* queued: the deadline of call_once is set once, when the request is written,
\* and no frame that comes renews it.
DeadlineStands == late <= 1

\* What holds DeadlineStands: the wait begins before the deadline, and a frame
\* taken after it leads to the top of the loop, which ends the attempt.
LateFollowsDeadline ==
  /\ phase = "top" /\ ~expired => late = 0
  /\ phase = "recv" => late = 0

\* The frames on their way to the program, oldest first.
Feed == pending \o frames \o fromCharger

\* next_frame and take_pending hand out frames in the order the charger sent
\* them, and each at most once, although two queues hold them and call takes
\* frames out of the middle.
FeedInOrder ==
  /\ \A i, j \in DOMAIN Feed : i < j => Feed[i].seq < Feed[j].seq
  /\ \A i \in DOMAIN Feed : surfaced < Feed[i].seq /\ Feed[i].seq <= minted

\* Did call i leave, or may it have left, an answer of its own unread?
Untidy(i) == log[i].copies > 1 \/ log[i].outcome # "ok"

\* A call that waits for a given word takes another call's reply, or an
\* unprompted frame, for its own only after the charger spoke that word
\* unprompted, an earlier call for the same word was resent, failed or dropped
\* while it waited, or a Raw request may have drawn it: with none of these, the
\* acceptance test of call_once is exact.  With any of them it is not:
\* Link::drain is documented to be "called before a request so a stale reply
\* cannot be mistaken for a fresh one" (link.rs), and Client never calls it.
StaleOnlyAfterTrouble ==
  \A i \in DOMAIN log :
    LET w == ReplyWord(log[i].kind) IN
      (log[i].outcome = "ok" /\ w # NoWord /\ log[i].reply.to # i)
         => \/ w \in Unsolicited
            \/ \E j \in 1 .. i - 1 : \/ ReplyWord(log[j].kind) = w /\ Untidy(j)
                                     \/ log[j].kind = "Raw"

\* Every call ends: neither a silent charger nor a link that dies during the
\* wait keeps it for ever.  (The run bounds the frames the charger sends; that
\* no number of them keeps a call is DeadlineStands.)
CallEnds == (phase # "idle") ~> (phase = "idle")
-----------------------------------------------------------------------------
(* The client implements Exchange                                          *)

Abstract == INSTANCE Exchange WITH
  Failures <- Outcomes \ {"ok"},
  Words    <- Unsolicited \union UNION { AnswerWords(k) : k \in Kinds },
  open     <- IF phase = "idle" THEN "no call" ELSE kind,
  log      <- [i \in DOMAIN log |-> [kind |-> log[i].kind, outcome |-> log[i].outcome,
                                    reply |-> log[i].reply]],
  air      <- ToSet(frames) \union ToSet(fromCharger),
  aside    <- ToSet(pending)

\* Attempts, deadlines, the pump and the two queues are invisible to the
\* program: what it sees of a client is what Exchange allows.
ImplementsExchange == Abstract!Spec
=============================================================================
