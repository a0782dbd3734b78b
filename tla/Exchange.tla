------------------------------ MODULE Exchange ------------------------------
(***************************************************************************)
(* What a client promises the program that owns it, with no attempts, no   *)
(* queues and no clock: a call is opened, ends once, and either fails or   *)
(* hands over one frame the charger really sent under the word the call    *)
(* waits for; every other frame is lost on the air, set aside, or handed   *)
(* to whoever reads the feed; no frame is handed over twice, and the feed  *)
(* is read in the order the charger spoke.                                 *)
(*                                                                         *)
(* It does NOT promise that the frame answers this very call: see          *)
(* Client!StaleOnlyAfterTrouble.                                           *)
(***************************************************************************)
EXTENDS Request, Sequences

CONSTANTS Kinds,       \* the request kinds the program issues
          Failures,    \* how a call ends that is handed no frame
          Words,       \* the words the charger speaks
          Bodies       \* what the charger may say under a word

VARIABLES open,        \* the call in progress: a kind, or Closed
          log,         \* the calls that ended: what was asked, how it ended
          air,         \* frames the charger sent that nobody was given yet
          aside,       \* frames that came while a call waited for another
          minted,      \* how many frames the charger has sent
          surfaced     \* the last frame handed to a reader of the feed

vars == <<open, log, air, aside, minted, surfaced>>

NoCall == "no call"
NoFrame == [word |-> NoWord, body |-> "none", to |-> 0, seq |-> 0]

Matches(f, k) == ReplyWord(k) \in {NoWord, f.word}

Init == /\ open = NoCall /\ log = <<>>
        /\ air = {} /\ aside = {}
        /\ minted = 0 /\ surfaced = 0

Begin(k) == /\ open = NoCall
            /\ open' = k
            /\ UNCHANGED <<log, air, aside, minted, surfaced>>

End(outcome, f) ==
  /\ log' = Append(log, [kind |-> open, outcome |-> outcome, reply |-> f])
  /\ open' = NoCall

Answer(f) == /\ open # NoCall
             /\ Matches(f, open)
             /\ End("ok", f)
             /\ air' = air \ {f}
             /\ UNCHANGED <<aside, minted, surfaced>>

Fail(o) == /\ open # NoCall
           /\ End(o, NoFrame)
           /\ UNCHANGED <<air, aside, minted, surfaced>>

SetAside(f) == /\ open # NoCall
               /\ ~Matches(f, open)
               /\ air' = air \ {f}
               /\ aside' = aside \union {f}
               /\ UNCHANGED <<open, log, minted, surfaced>>

\* The oldest frame set aside comes first; with none, a frame off the air.
Surface(f) == /\ open = NoCall
              /\ f \in (IF aside = {} THEN air ELSE aside)
              /\ f.seq > surfaced
              /\ \A g \in aside : f.seq <= g.seq
              /\ air' = air \ {f}
              /\ aside' = aside \ {f}
              /\ surfaced' = f.seq
              /\ UNCHANGED <<open, log, minted>>

SurfaceAll == /\ open = NoCall
              /\ \E f \in aside : /\ \A g \in aside : g.seq <= f.seq
                                  /\ surfaced' = f.seq
              /\ aside' = {}
              /\ UNCHANGED <<open, log, air, minted>>

\* The charger speaks: an answer to a call already made, or unprompted.
Speak(word, body, to) ==
  /\ to <= Len(log) + (IF open = NoCall THEN 0 ELSE 1)
  /\ minted' = minted + 1
  /\ air' = air \union {[word |-> word, body |-> body, to |-> to, seq |-> minted']}
  /\ UNCHANGED <<open, log, aside, surfaced>>

Lose(f) == /\ air' = air \ {f}
           /\ UNCHANGED <<open, log, aside, minted, surfaced>>

Next ==
  \/ \E k \in Kinds : Begin(k)
  \/ \E f \in air : Answer(f) \/ SetAside(f) \/ Lose(f)
  \/ \E f \in air \union aside : Surface(f)
  \/ \E o \in Failures : Fail(o)
  \/ SurfaceAll
  \/ \E word \in Words, body \in Bodies, to \in 0 .. Len(log) + 1 :
        Speak(word, body, to)

Spec == Init /\ [][Next]_vars
=============================================================================
