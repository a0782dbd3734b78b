------------------------------ MODULE Polling ------------------------------
(***************************************************************************)
(* One device task of the desktop program in detail: run_device and poll   *)
(* (gui backend.rs) over BleLink::connect (ble.rs).  Backend takes a       *)
(* connection and a pass of the poll cycle for one step each; here every   *)
(* request is sent, resent and answered on its own, and the charger may    *)
(* not know some of them.                                                  *)
(*                                                                         *)
(* Dropping the link object does not disconnect the peripheral, and a new  *)
(* link takes a peripheral that is still connected as it is: what the last *)
(* link left on the air arrives at the new one.  A frame is a word and,    *)
(* unseen by the program, whether it was asked for by this link or by one  *)
(* before it; a field of a reading is where its value came from.           *)
(***************************************************************************)
EXTENDS Request, SequencesExt

CONSTANTS Ignored,      \* the requests of the cycle the charger does not know
          Fields,       \* the fields of a reading that are followed
          RETRIES,      \* extra attempts of a request (3 in the code)
          MaxOnAir,     \* bound: requests and frames on their way
          MaxCommands   \* bound: task commands the window gives

\* The poll cycle without the query for the limits.
Query(word, channel) == [word |-> word, channel |-> channel]
Cycle == <<Query(\hE4, 0), Query(\hE8, 0), Query(\hE6, 0), Query(\hFA, 0), Query(\hFA, 1)>>

FieldOf == (\hE5 :> "electrical") @@ (\hE9 :> "temperature") @@ (\hE7 :> "work")
             @@ (\hFB :> "resistance")

ASSUME ConstantsAssumption ==
  /\ Ignored \subseteq ToSet(Cycle) /\ Fields \subseteq {FieldOf[w] : w \in DOMAIN FieldOf}
  /\ RETRIES \in Nat /\ MaxOnAir \in Nat /\ MaxCommands \in Nat

VARIABLES
  at,        \* "new", "connecting", "binding", "naming", "top", "asking",
             \* "applying" or "waiting"
  sent,      \* attempts made of the request under way, or 0
  due,       \* is the next attempt to be sent?
  next,      \* queries of this pass done so far
  reading,   \* per field: what poll holds
  shown,     \* per field: what the window was last sent
  told,      \* the last status the window was sent
  commands,  \* task commands waiting
  given,     \* history: task commands given
  connected, \* is the peripheral connected?
  links,     \* history: links before this one over the same connection (2: more)
  requests,  \* on their way to the charger
  frames     \* on their way to the host

task == <<at, sent, due, next, reading, told>>
air == <<requests, frames, links>>
vars == <<task, shown, commands, given, connected, air>>
-----------------------------------------------------------------------------
NoReading == [f \in Fields |-> "none"]

Init ==
  /\ at = "new" /\ sent = 0 /\ due = FALSE /\ next = 0
  /\ reading = NoReading /\ shown = NoReading /\ told = "none"
  /\ commands = 0 /\ given = 0
  /\ connected = FALSE /\ links = 0
  /\ requests = <<>> /\ frames = <<>>

\* Everything of this link becomes something of a link before it.
Before(list) == [i \in DOMAIN list |-> [list[i] EXCEPT !.link = "before"]]
Older(fields) == [f \in Fields |-> IF fields[f] = "none" THEN "none" ELSE "before"]

Calls(stage) == at' = stage /\ sent' = 0 /\ due' = TRUE
Rests(stage) == at' = stage /\ sent' = 0 /\ due' = FALSE
Tells(status) == told' = status
-----------------------------------------------------------------------------
(* run_device: connect, bind and ask the name                              *)

Try ==
  /\ at \in {"new", "waiting"}
  /\ Rests("connecting") /\ Tells("Connecting")
  /\ UNCHANGED <<next, reading, shown, commands, given, connected, air>>

\* A peripheral that is connected already is used as it is.  Frames the last
\* link had read, and did not pass on, are gone with it.
LinkConnects ==
  /\ at = "connecting"
  /\ Calls("binding")
  /\ connected' = TRUE
  /\ reading' = Older(reading) /\ shown' = Older(shown)
  /\ IF connected
     THEN /\ links' = IF links < 2 THEN links + 1 ELSE 2
          /\ requests' = Before(requests)
          /\ \E n \in 1 .. Len(frames) + 1 :
               frames' = Before(SubSeq(frames, n, Len(frames)))
     ELSE links' = 0 /\ requests' = <<>> /\ frames' = <<>>
  /\ UNCHANGED <<next, told, commands, given>>

Loses == Rests("waiting") /\ Tells("Lost")

LinkDoesNotConnect ==
  /\ at = "connecting"
  /\ Loses
  /\ \/ UNCHANGED <<connected, air>>
     \/ ~connected /\ connected' = TRUE /\ links' = 0 /\ requests' = <<>> /\ frames' = <<>>
  /\ UNCHANGED <<next, reading, shown, commands, given>>

\* (mutant: a new connection goes on with the reading of the last one)
StartsPollingOn ==
  /\ Rests("top") /\ Tells("Connected")
  /\ next' = 0 /\ reading' = reading

StartsPolling ==
  /\ Rests("top") /\ Tells("Connected")
  /\ next' = 0 /\ reading' = NoReading
-----------------------------------------------------------------------------
(* poll                                                                    *)

\* A command goes before the next query.
TakeCommand ==
  /\ at = "top" /\ commands > 0
  /\ commands' = commands - 1
  /\ Calls("applying")
  /\ UNCHANGED <<next, reading, told, shown, given, connected, air>>

AskNext ==
  /\ at = "top" /\ commands = 0
  /\ Calls("asking")
  /\ UNCHANGED <<next, reading, told, shown, commands, given, connected, air>>

\* absorb: both channels' resistances go to one field.
Absorb(f) ==
  IF FieldOf[f.word] \in Fields
  THEN [reading EXCEPT ![FieldOf[f.word]] = f.link]
  ELSE reading

\* (mutant: the index is compared with the length before it has advanced)
PassDoneTooSoon == next = Len(Cycle)

\* Is this the last query of a pass?
PassDone == next + 1 = Len(Cycle)

Advance == next' = (next + 1) % Len(Cycle)

Request == CASE at = "binding"  -> Query(\h18, 0)
             [] at = "naming"   -> Query(\hE0, 0)
             [] at = "applying" -> Query(\hEA, 0)
             [] OTHER           -> Cycle[next + 1]

InCall == at \in {"binding", "naming", "applying", "asking"}

\* What comes of an answer: a refused bind, or an answer too short to be read,
\* ends the connection before it polls; a refused task does not; and a query's
\* answer is filed, if it can be read, and shown at the end of a pass.
Answered(f) ==
  \/ at = "binding" /\ Calls("naming") /\ UNCHANGED <<next, reading, told, shown>>
  \/ /\ at \in {"binding", "naming"} /\ Loses
     /\ UNCHANGED <<next, reading, shown>>
  \/ at = "naming" /\ StartsPolling /\ UNCHANGED <<shown>>
  \/ at = "applying" /\ Rests("top") /\ UNCHANGED <<next, reading, told, shown>>
  \/ /\ at = "asking" /\ Rests("top") /\ Advance
     /\ reading' \in {Absorb(f), reading}
     /\ shown' = IF PassDone THEN reading' ELSE shown
     /\ UNCHANGED <<told>>

\* (mutant: one query without an answer ends the connection)
UnansweredIsFatal == Loses /\ UNCHANGED <<next, reading, shown>>

\* What comes of silence: only a connection that does not get as far as polling
\* is given up for it.
Unanswered ==
  \/ /\ at \in {"binding", "naming"} /\ Loses
     /\ UNCHANGED <<next, reading, shown>>
  \/ at = "applying" /\ Rests("top") /\ UNCHANGED <<next, reading, told, shown>>
  \/ at = "asking" /\ Rests("top") /\ Advance /\ UNCHANGED <<reading, told, shown>>
-----------------------------------------------------------------------------
(* Client::call, for whatever is under way                                 *)

Send ==
  /\ InCall /\ due
  /\ due' = FALSE /\ sent' = sent + 1
  /\ \/ /\ connected /\ Len(requests) + Len(frames) < MaxOnAir
        /\ requests' = Append(requests, [query |-> Request, link |-> "this"])
     \/ UNCHANGED requests
  /\ UNCHANGED <<at, next, reading, told, shown, commands, given, connected>>
  /\ UNCHANGED <<frames, links>>

Fits(f) == f.word = Request.word + 1

Accept ==
  /\ InCall /\ ~due /\ frames # <<>> /\ Fits(Head(frames))
  /\ frames' = Tail(frames)
  /\ Answered(Head(frames))
  /\ UNCHANGED <<commands, given, connected, requests, links>>

SetAside ==
  /\ InCall /\ ~due /\ frames # <<>> /\ ~Fits(Head(frames))
  /\ frames' = Tail(frames)
  /\ UNCHANGED <<task, shown, commands, given, connected, requests, links>>

\* (mutant: one attempt too many)
MayResendTwice == sent <= RETRIES + 1

MayResend == sent <= RETRIES

TimesOut ==
  /\ InCall /\ ~due
  /\ \/ /\ MayResend
        /\ due' = TRUE
        /\ UNCHANGED <<at, sent, next, reading, told, shown>>
     \/ ~MayResend /\ Unanswered
  /\ UNCHANGED <<commands, given, connected, air>>

\* A write that fails, or a link that is closed, is fatal wherever it happens.
\* The client is dropped; whether the peripheral is still connected does not
\* matter to it.
LinkFails ==
  /\ InCall
  /\ due \/ (~connected /\ frames = <<>>)
  /\ Loses
  /\ UNCHANGED <<next, reading, shown, commands, given, connected, air>>
-----------------------------------------------------------------------------
(* The supervisor and the window, the radio and the charger                *)

Give ==
  /\ given < MaxCommands
  /\ given' = given + 1 /\ commands' = commands + 1
  /\ UNCHANGED <<task, shown, connected, air>>

\* The task is aborted, wherever it waits, and another takes its place: the
\* user disconnected the charger and connected it again, or bound it again.
Replaced ==
  /\ Rests("new") /\ told' = "none" /\ commands' = 0
  /\ UNCHANGED <<next, reading, shown, given, connected, air>>

Drops ==
  /\ connected
  /\ connected' = FALSE /\ requests' = <<>>
  /\ UNCHANGED <<task, shown, commands, given, frames, links>>

Answer ==
  /\ requests # <<>>
  /\ requests' = Tail(requests)
  /\ LET r == Head(requests) IN
       \/ UNCHANGED frames
       \/ /\ r.query \notin Ignored
          /\ frames' = Append(frames, [word |-> r.query.word + 1, link |-> r.link])
  /\ UNCHANGED <<task, shown, commands, given, connected, links>>
-----------------------------------------------------------------------------
Step == Try \/ TakeCommand \/ AskNext \/ Send \/ Accept \/ SetAside

Next == \/ Step \/ LinkConnects \/ LinkDoesNotConnect \/ TimesOut \/ LinkFails
        \/ Give \/ Replaced \/ Drops \/ Answer

Spec == Init /\ [][Next]_vars

\* The runtime polls a task that can move, and its clock advances.
FairSpec == Spec /\ WF_vars(Step) /\ WF_vars(LinkConnects \/ LinkDoesNotConnect)
                 /\ WF_vars(TimesOut)
-----------------------------------------------------------------------------
(* Properties                                                              *)

Stages == {"new", "connecting", "binding", "naming", "top", "asking", "applying", "waiting"}
Value == {"none", "this", "before"}

\* The variables keep their types: no request is sent more often than the client
\* allows, and the index of the cycle stays within it.
TypeOK ==
  /\ at \in Stages /\ sent \in 0 .. RETRIES + 1 /\ due \in BOOLEAN
  /\ next \in 0 .. Len(Cycle) - 1
  /\ reading \in [Fields -> Value] /\ shown \in [Fields -> Value]
  /\ told \in {"none", "Connecting", "Connected", "Lost"}
  /\ commands \in 0 .. given /\ given \in 0 .. MaxCommands
  /\ links \in 0 .. 2
  /\ Len(requests) + Len(frames) <= MaxOnAir

Polls == at \in {"top", "asking", "applying"}

\* What poll files, and the window is shown next, was asked for over this link,
\* although late answers to the link before it may still arrive on it: binding
\* and asking the name have set them all aside.  That goes for one link before
\* it: each of two may leave an answer that the next takes for its own.
NothingFromBefore ==
  (Polls /\ links <= 1) => \A f \in Fields : reading[f] # "before"

\* "A charger that does not implement a packet simply stays quiet" (poll): once
\* its link works and the user leaves it alone, every query of the cycle comes
\* round for ever, whichever of them are never answered, answered too late or
\* answered with what cannot be read.
EveryQueryComesRound ==
  (<>[][~(LinkFails \/ Replaced)]_vars /\ []<>Polls)
    => \A n \in 0 .. Len(Cycle) - 1 : []<>(at = "asking" /\ next = n)

\* "A charger that never answers one query still leaves the rest usable"
\* (Reading, backend.rs): if every query the charger knows is answered again and
\* again, what is read of it reaches the window, unless the link is lost or the
\* task replaced.  With the last query of the cycle unknown the code breaks this.
RestUsable ==
  (\A q \in ToSet(Cycle) \ Ignored :
     []<><<Accept /\ at = "asking" /\ Cycle[next + 1] = q>>_vars)
    => \A f \in Fields :
         (Polls /\ reading[f] # "none") ~> (~Polls \/ shown[f] = "this")
=============================================================================
