------------------------------ MODULE BleWrite ------------------------------
(***************************************************************************)
(* The write side of a Bluetooth link: BleLink::send_frame (ble.rs), which *)
(* cuts a frame into packets (chunk, frame.rs), keeps a gap between GATT   *)
(* writes, bounds each write, and holds the last_write lock for the whole  *)
(* frame.  Link::send borrows the link, so several sends may be under way  *)
(* at once; a caller may drop one at any await.                            *)
(*                                                                         *)
(* Time is counted in ticks, and only as far as the code looks at it: the  *)
(* time since last_write up to the gap, which also stands for no write     *)
(* yet, and the time spent in the current write up to its timeout.         *)
(***************************************************************************)
EXTENDS Frame

CONSTANTS Senders,        \* the tasks that may send on the link
          FrameSizes,     \* the lengths of the stuffed frames they send
          Mtu,            \* of the write channel: 20, or 140
          MIN_WRITE_GAP,  \* in ticks
          WRITE_TIMEOUT,  \* in ticks
          MaxSends        \* bound: frames sent

ASSUME GapAssumption == MIN_WRITE_GAP \in Nat /\ WRITE_TIMEOUT \in Nat \ {0}
ASSUME SizesAssumption == FrameSizes \subseteq Nat /\ Mtu \in Nat

VARIABLES phase,    \* of each sender: "idle", "lock", "pace", "write"
          todo,     \* of each sender: packets of its frame still to be written
          waiters,  \* the senders at the lock, in order; the first holds it
          since,    \* ticks since last_write, no more than the gap
          spent,    \* ticks the current write has taken
          sends,    \* history: of each send, its size and outcome
          mine,     \* history: the number of each sender's send
          air,      \* history: the packets the radio took
          quiet     \* history: ticks since the radio took one, up to the gap

vars == <<phase, todo, waiters, since, spent, sends, mine, air, quiet>>

\* A frame of a given size; what its bytes are does not matter here.
FrameOf(size) == [i \in 1 .. size |-> i % 256]

Init == /\ phase = [s \in Senders |-> "idle"] /\ todo = [s \in Senders |-> <<>>]
        /\ waiters = <<>> /\ since = MIN_WRITE_GAP /\ spent = 0
        /\ sends = <<>> /\ mine = [s \in Senders |-> 0]
        /\ air = <<>> /\ quiet = MIN_WRITE_GAP

Holds(s) == waiters # <<>> /\ Head(waiters) = s
Place(s) == CHOOSE i \in DOMAIN waiters : waiters[i] = s

SendFrame(s, size) ==
  /\ phase[s] = "idle" /\ Len(sends) < MaxSends
  /\ phase' = [phase EXCEPT ![s] = "lock"]
  /\ todo' = [todo EXCEPT ![s] = Chunks(FrameOf(size), Mtu)]
  /\ waiters' = Append(waiters, s)
  /\ sends' = Append(sends, [size |-> size, outcome |-> "open"])
  /\ mine' = [mine EXCEPT ![s] = Len(sends')]
  /\ UNCHANGED <<since, spent, air, quiet>>

\* (mutant: nobody waits for the lock)
LockFree(s) ==
  /\ phase[s] = "lock"
  /\ phase' = [phase EXCEPT ![s] = "pace"]
  /\ UNCHANGED <<todo, waiters, since, spent, sends, mine, air, quiet>>

Lock(s) ==
  /\ phase[s] = "lock" /\ Holds(s)
  /\ phase' = [phase EXCEPT ![s] = "pace"]
  /\ UNCHANGED <<todo, waiters, since, spent, sends, mine, air, quiet>>

\* Sleeping out the gap is waiting for Tick.
StartWrite(s) ==
  /\ phase[s] = "pace" /\ since = MIN_WRITE_GAP
  /\ phase' = [phase EXCEPT ![s] = "write"]
  /\ spent' = 0
  /\ UNCHANGED <<todo, waiters, since, sends, mine, air, quiet>>

\* send_frame ends, and with it its hold on the lock or its place in the line.
Leave(s, outcome) ==
  /\ phase' = [phase EXCEPT ![s] = "idle"]
  /\ todo' = [todo EXCEPT ![s] = <<>>]
  /\ waiters' = RemoveAt(waiters, Place(s))
  /\ sends' = [sends EXCEPT ![mine[s]].outcome = outcome]
  /\ UNCHANGED mine

OnAir(s) == /\ air' = Append(air, [send |-> mine[s], packet |-> Head(todo[s])])
            /\ quiet' = 0

\* (mutant: last_write is noted when the frame is done, not after each packet)
WrittenAtEnd(s) ==
  /\ phase[s] = "write"
  /\ OnAir(s)
  /\ \/ /\ Len(todo[s]) = 1
        /\ Leave(s, "ok") /\ since' = 0
     \/ /\ Len(todo[s]) > 1
        /\ phase' = [phase EXCEPT ![s] = "pace"]
        /\ todo' = [todo EXCEPT ![s] = Tail(@)]
        /\ UNCHANGED <<waiters, sends, mine, since>>
  /\ UNCHANGED spent

Written(s) ==
  /\ phase[s] = "write"
  /\ OnAir(s)
  /\ since' = 0
  /\ \/ /\ Len(todo[s]) = 1
        /\ Leave(s, "ok")
     \/ /\ Len(todo[s]) > 1
        /\ phase' = [phase EXCEPT ![s] = "pace"]
        /\ todo' = [todo EXCEPT ![s] = Tail(@)]
        /\ UNCHANGED <<waiters, sends, mine>>
  /\ UNCHANGED spent

\* (mutant: the error of a write is not passed on)
WriteErrorsIgnored(s) ==
  /\ phase[s] = "write"
  /\ Leave(s, "ok")
  /\ UNCHANGED <<since, spent, air, quiet>>

\* A write that errors, or is not confirmed in time, ends the frame where it
\* is.  The radio may have taken the packet; last_write is not touched.
WriteErrors(s) ==
  /\ phase[s] = "write"
  /\ Leave(s, "transport")
  /\ OnAir(s) \/ UNCHANGED <<air, quiet>>
  /\ UNCHANGED <<since, spent>>

\* (mutant: a write is waited for as long as it takes)
WriteUnbounded(s) == FALSE

WriteTimesOut(s) ==
  /\ phase[s] = "write" /\ spent = WRITE_TIMEOUT
  /\ Leave(s, "closed")
  /\ OnAir(s) \/ UNCHANGED <<air, quiet>>
  /\ UNCHANGED <<since, spent>>

\* The caller drops the send while it waits for the lock, the gap or the write.
Cancel(s) ==
  /\ phase[s] # "idle"
  /\ Leave(s, "cancelled")
  /\ (phase[s] = "write" /\ OnAir(s)) \/ UNCHANGED <<air, quiet>>
  /\ UNCHANGED <<since, spent>>

Sooner(t, limit) == IF t < limit THEN t + 1 ELSE t

Writing == \E s \in Senders : phase[s] = "write"

Tick ==
  /\ since < MIN_WRITE_GAP \/ quiet < MIN_WRITE_GAP
       \/ (Writing /\ spent < WRITE_TIMEOUT)
  /\ since' = Sooner(since, MIN_WRITE_GAP)
  /\ quiet' = Sooner(quiet, MIN_WRITE_GAP)
  /\ spent' = IF Writing THEN Sooner(spent, WRITE_TIMEOUT) ELSE spent
  /\ UNCHANGED <<phase, todo, waiters, sends, mine, air>>

Step(s) == Lock(s) \/ StartWrite(s) \/ WriteTimesOut(s)

Next ==
  \/ \E s \in Senders :
       \/ \E size \in FrameSizes : SendFrame(s, size)
       \/ Step(s) \/ Written(s) \/ WriteErrors(s) \/ Cancel(s)
  \/ Tick

Spec == Init /\ [][Next]_vars

\* The runtime polls every sender that can move and its clock advances; no
\* write is assumed ever to complete.
FairSpec == Spec /\ WF_vars(Tick) /\ \A s \in Senders : WF_vars(Step(s))
-----------------------------------------------------------------------------
\* The packets of one frame follow each other on the air, none of another
\* frame between them, although several senders share the link and any of them
\* may fail or be dropped half way (the last_write lock held over the loop).
FramesNotInterleaved ==
  \A i, j, k \in DOMAIN air :
    (i < j /\ j < k /\ air[i].send = air[k].send) => air[j].send = air[i].send

PacketsOf(n) == Chunks(FrameOf(sends[n].size), Mtu)

\* How many of the first i packets on the air are of send n.
Out(n, i) == Cardinality({j \in 1 .. i : air[j].send = n})

\* What is on the air of a send is the beginning of its frame, in order and
\* nothing twice; it is the whole of it if the send reports success.
WholeOrPrefix ==
  /\ \A i \in DOMAIN air :
       LET n == air[i].send IN
         /\ Out(n, i) <= Len(PacketsOf(n))
         /\ air[i].packet = PacketsOf(n)[Out(n, i)]
  /\ \A n \in DOMAIN sends :
       sends[n].outcome = "ok" => Out(n, Len(air)) = Len(PacketsOf(n))

\* A write never starts before MIN_WRITE_GAP has passed since the radio took
\* the packet before it, if the write of that packet was confirmed.
GapKept ==
  [][\A s \in Senders :
       (phase[s] # "write" /\ phase'[s] = "write"
          /\ \A n \in DOMAIN sends : sends[n].outcome \in {"ok", "open"})
       => quiet >= MIN_WRITE_GAP]_vars

\* Every send ends although writes may hang for ever and others hold the lock.
SendEnds == \A s \in Senders : (phase[s] # "idle") ~> (phase[s] = "idle")
=============================================================================
