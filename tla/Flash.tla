------------------------------- MODULE Flash -------------------------------
(***************************************************************************)
(* Writing firmware: Client::flash_firmware (client.rs), one request at a  *)
(* time and none of them repeated, as the command line runs it, several    *)
(* times over one connection if the user stays in the shell.               *)
(*                                                                         *)
(* An attempt that gives up leaves its last request, or the answer to it,  *)
(* on the air, and nothing takes it back before the next attempt: the      *)
(* client recognises an acknowledgement by its word alone, whatever        *)
(* address it names.  The charger is external.  Its memory is counted in   *)
(* blocks, a block and an address being one number each; a block written   *)
(* over another holds neither of them.                                     *)
(***************************************************************************)
EXTENDS Request, SequencesExt, FiniteSetsExt

CONSTANTS Images,      \* firmware images, as sequences of blocks
          Starts,      \* start addresses, in blocks
          FlashSize,   \* blocks of memory the charger has
          Addresses,   \* blocks a u32 can address
          Blank,       \* a block of erased memory
          Garbled,     \* a block written over another
          MaxAttempts  \* bound: attempts

ASSUME MemoryAssumption ==
  /\ FlashSize \in Nat /\ Addresses \in Nat /\ FlashSize <= Addresses
  /\ Blank \in Nat /\ Garbled \in Nat
ASSUME InputsAssumption ==
  Images \subseteq Seq(Nat) /\ Starts \subseteq 0 .. Addresses - 1
ASSUME BoundsAssumption == MaxAttempts \in Nat

VARIABLES
  \* the client
  phase,     \* "idle", "send" or "wait"
  step,      \* the request of flash_firmware under way
  index,     \* blocks written, as progress was told
  image, start,  \* what is being written, and where
  outcome,   \* how the last attempt on this connection ended
  attempts,  \* history: attempts made
  givenUp,   \* history: those on this connection that ended without a verdict
  \* the connection, in both directions
  toCharger, toHost,
  \* the charger
  mode,      \* "app" or "boot"
  memory

flashing == <<phase, step, index, image, start>>
history == <<attempts, givenUp>>
air == <<toCharger, toHost>>
charger == <<mode, memory>>
vars == <<flashing, outcome, history, air, charger>>
-----------------------------------------------------------------------------
FlashSteps == {"EnterBootloader", "EraseApp", "WriteApp", "ChecksumApp"}
Locations == 0 .. FlashSize - 1
Outcomes == {"none", "ok", "rejected", "timeout", "link"}

\* The wrapping sum of all bytes, which no order of the blocks changes.
Checksum(blocks) == FoldSeq(LAMBDA b, sum : b + sum, 0, blocks)

Init ==
  /\ phase = "idle" /\ step = "EnterBootloader" /\ index = 0
  /\ image = <<>> /\ start = 0 /\ outcome = "none"
  /\ attempts = 0 /\ givenUp = 0
  /\ toCharger = <<>> /\ toHost = <<>>
  /\ mode = "app" /\ memory = [a \in Locations |-> Garbled]

\* The command line asks for --yes and for whole blocks, at least one.
FlashFirmware(s, blocks) ==
  /\ phase = "idle" /\ attempts < MaxAttempts
  /\ blocks # <<>>
  /\ attempts' = attempts + 1
  /\ phase' = "send" /\ step' = "EnterBootloader" /\ index' = 0
  /\ image' = blocks /\ start' = s /\ outcome' = "none"
  /\ UNCHANGED <<givenUp, air, charger>>

\* (mutant: the offset is that of the block before)
AsksBlockBefore ==
  [kind |-> step,
   address |-> IF step = "WriteApp" /\ index > 0 THEN (start + index - 1) % Addresses ELSE start,
   size |-> Len(image),
   data |-> CASE step = "WriteApp" -> image[index + 1]
              [] step = "ChecksumApp" -> Checksum(image)
              [] OTHER -> 0]

\* The request of this step.  start_address + offset is a u32: a build with
\* overflow checks panics where this wraps.
Asks ==
  [kind |-> step,
   address |-> IF step = "WriteApp" THEN (start + index) % Addresses ELSE start,
   size |-> Len(image),
   data |-> CASE step = "WriteApp" -> image[index + 1]
              [] step = "ChecksumApp" -> Checksum(image)
              [] OTHER -> 0]

Send ==
  /\ phase = "send"
  /\ phase' = "wait"
  /\ toCharger' = Append(toCharger, Asks)
  /\ UNCHANGED <<step, index, image, start, outcome, history, toHost, charger>>

End(how) == phase' = "idle" /\ outcome' = how /\ UNCHANGED <<step, index, image, start>>

\* A request that nothing answered in time, or whose write failed, is not sent
\* again, and what is on its way stays there.
GiveUp(how) == End(how) /\ givenUp' = givenUp + 1 /\ attempts' = attempts

\* (mutant: the wait has no deadline)
NeverTimesOut == FALSE /\ UNCHANGED vars

TimesOut ==
  /\ phase = "wait"
  /\ GiveUp("timeout")
  /\ UNCHANGED <<air, charger>>

SendFails ==
  /\ phase = "send"
  /\ GiveUp("link")
  /\ toCharger' \in {toCharger, Append(toCharger, Asks)}
  /\ UNCHANGED <<toHost, charger>>

\* (mutant: writing goes on one block too long)
NextStepLate ==
  CASE step = "EnterBootloader" -> "EraseApp"
    [] step = "EraseApp" -> "WriteApp"
    [] step = "WriteApp" /\ index' <= Len(image) -> "WriteApp"
    [] OTHER -> "ChecksumApp"

\* The step after one that was acknowledged.
NextStep ==
  CASE step = "EnterBootloader" -> "EraseApp"
    [] step = "EraseApp" -> "WriteApp"
    [] step = "WriteApp" /\ index' < Len(image) -> "WriteApp"
    [] OTHER -> "ChecksumApp"

\* The first frame under the right word ends the wait; a state other than zero,
\* or a reply too short to have one, ends the attempt.
AcceptIf(good) ==
  /\ phase = "wait" /\ toHost # <<>>
  /\ Head(toHost).word = ReplyWord(step)
  /\ toHost' = Tail(toHost)
  /\ \/ /\ good /\ step # "ChecksumApp"
        /\ index' = IF step = "WriteApp" THEN index + 1 ELSE index
        /\ phase' = "send" /\ step' = NextStep
        /\ UNCHANGED <<image, start, outcome>>
     \/ /\ good /\ step = "ChecksumApp"
        /\ End("ok")
     \/ ~good /\ End("rejected")
  /\ UNCHANGED <<history, toCharger, charger>>

\* (mutant: the state of an acknowledgement is not looked at)
AcceptUnread == AcceptIf(TRUE)

Accept == AcceptIf(Head(toHost).good)

\* Any other frame is set aside and not looked at again.
SetAside ==
  /\ phase = "wait" /\ toHost # <<>>
  /\ Head(toHost).word # ReplyWord(step)
  /\ toHost' = Tail(toHost)
  /\ UNCHANGED <<flashing, outcome, history, toCharger, charger>>

\* The program is left, killed or crashes, at any moment, and is run again: a
\* new connection, on which nothing is under way.  The charger may restart.
Reconnect ==
  /\ phase' = "idle" /\ outcome' = "none" /\ givenUp' = 0
  /\ toCharger' = <<>> /\ toHost' = <<>>
  /\ mode' \in {mode, "app"}
  /\ UNCHANGED <<step, index, image, start, attempts, memory>>
-----------------------------------------------------------------------------
(* The charger and the air, external                                       *)

Fits(q) == q.address + q.size <= FlashSize
Region(s, blocks) == s .. s + Len(blocks) - 1

\* What a request does when it succeeds.
Written(a, block) ==
  [memory EXCEPT ![a] = IF memory[a] = Blank THEN block ELSE Garbled]
Effect(q) ==
  \/ /\ q.kind = "EnterBootloader"
     /\ mode' = "boot" /\ memory' = memory
  \/ /\ q.kind = "EraseApp" /\ mode = "boot" /\ Fits(q)
     /\ memory' = [a \in Locations |->
                     IF a \in q.address .. q.address + q.size - 1 THEN Blank ELSE memory[a]]
     /\ mode' = mode
  \/ /\ q.kind = "WriteApp" /\ mode = "boot" /\ q.address \in Locations
     /\ memory' = Written(q.address, q.data) /\ mode' = mode
  \/ /\ q.kind = "ChecksumApp" /\ mode = "boot" /\ Fits(q)
     /\ Checksum([i \in 1 .. q.size |-> memory[q.address + i - 1]]) = q.data
     /\ UNCHANGED charger

\* A refusal changes nothing; a reply that comes too short may hide a success.
Handle(good) ==
  /\ toCharger # <<>>
  /\ LET q == Head(toCharger) IN
       /\ Effect(q) \/ (~good /\ UNCHANGED charger)
       /\ toHost' = Append(toHost, [word |-> ReplyWord(q.kind), good |-> good])
  /\ toCharger' = Tail(toCharger)
  /\ UNCHANGED <<flashing, outcome, history>>

LoseRequest ==
  /\ toCharger # <<>> /\ toCharger' = Tail(toCharger)
  /\ UNCHANGED <<flashing, outcome, history, toHost, charger>>

LoseReply ==
  /\ toHost # <<>> /\ toHost' = Tail(toHost)
  /\ UNCHANGED <<flashing, outcome, history, toCharger, charger>>
-----------------------------------------------------------------------------
ClientStep == Send \/ Accept \/ SetAside \/ TimesOut \/ SendFails

Next == \/ \E s \in Starts, blocks \in Images : FlashFirmware(s, blocks)
        \/ ClientStep \/ Reconnect
        \/ \E good \in BOOLEAN : Handle(good)
        \/ LoseRequest \/ LoseReply

Spec == Init /\ [][Next]_vars

\* The runtime polls a task that can move, and the clock of its wait advances.
FairSpec == Spec /\ WF_vars(Send \/ Accept \/ SetAside) /\ WF_vars(TimesOut)
-----------------------------------------------------------------------------
(* Properties                                                              *)

InMemory(s, blocks) ==
  \A i \in DOMAIN blocks : s + i - 1 \in Locations /\ memory[s + i - 1] = blocks[i]

\* The variables keep their types, and writing never runs past the image.
TypeOK ==
  /\ phase \in {"idle", "send", "wait"} /\ step \in FlashSteps
  /\ image \in Seq(Nat) /\ start \in Nat /\ index \in 0 .. Len(image)
  /\ (phase # "idle" /\ step = "WriteApp") => index < Len(image)
  /\ outcome \in Outcomes /\ attempts \in Nat /\ givenUp \in Nat
  /\ toCharger \in Seq([kind : FlashSteps, address : Nat, size : Nat, data : Nat])
  /\ toHost \in Seq([word : Nat, good : BOOLEAN])
  /\ mode \in {"app", "boot"} /\ memory \in [Locations -> Nat]

\* While no attempt on this connection was given up, the blocks told to
\* progress are in the charger's memory, and at the end the whole image is at
\* its address, whatever refusals, losses, crashes and half-written images of
\* earlier connections came before; the checksum, which no order of blocks
\* changes, is not needed for it.
TellsTheTruth ==
  givenUp = 0 =>
    /\ phase # "idle" => InMemory(start, SubSeq(image, 1, index))
    /\ outcome = "ok" => InMemory(start, image)

Summed(s, blocks) ==
  /\ s + Len(blocks) <= FlashSize
  /\ Checksum([i \in 1 .. Len(blocks) |-> memory[s + i - 1]]) = Checksum(blocks)

\* "Firmware written and verified" means that the charger found this image's
\* checksum where it belongs, even after attempts that were given up, although
\* nothing drains what they left on the air and an acknowledgement is taken for
\* another's: it takes more than three of them on one connection to print it
\* on another image's checksum.  That the blocks are those of the image does
\* not follow: after two, an erase that was refused may be taken for done, and
\* what is garbled may add up.
VerifiedMeansSummed ==
  (outcome = "ok" /\ givenUp <= 3) => Summed(start, image)

\* An attempt ends, however many requests and answers are lost.
AttemptEnds == (phase # "idle") ~> (phase = "idle")
=============================================================================
