--------------------------- MODULE Notifications ---------------------------
(***************************************************************************)
(* Replies travelling from the charger to the decoder: each is stuffed,    *)
(* cut into notifications (chunk, on the narrow channel) and put back      *)
(* together by Decoder::push_notification, while the air loses             *)
(* notifications, delivers them cut short, and lets noise through.         *)
(***************************************************************************)
EXTENDS Frame, Integers

CONSTANTS Replies,     \* the DATA fields the charger sends
          Noise,       \* bytes a stray notification may carry
          MtuSmall,    \* the MTU of the narrow channel (20 in the code)
          MaxReplies,  \* bound: replies sent
          MaxFaults    \* bound: notifications lost, cut short or stray

\* Replies the charger can encode and that a length byte of a notification can
\* count: on the narrow channel all can.
ASSUME RepliesAssumption ==
  \A data \in Replies :
    /\ data \in Seq(Byte) /\ Len(data) \in 1 .. MAX_DATA_LEN
    /\ MtuSmall >= 21 => Len(Encode(ADDR_TO_HOST, data)) <= 255
ASSUME RadioAssumption ==
  /\ Noise \subseteq Byte /\ MtuSmall \in Nat
  /\ MaxReplies \in Nat /\ MaxFaults \in Nat

VARIABLES decoder,  \* the host's decoder
          queue,    \* notifications of the current reply still on their way
          current,  \* the reply on its way, or the last one
          sent,     \* history: replies sent
          faults,   \* history: faults so far
          intact,   \* history: replies in a row that arrived undisturbed
          got       \* the frames the last notification completed

vars == <<decoder, queue, current, sent, faults, intact, got>>

Init == /\ decoder = NewDecoder /\ queue = <<>> /\ current = <<>>
        /\ sent = 0 /\ faults = 0 /\ intact = 0 /\ got = <<>>

Reply(data) ==
  /\ queue = <<>> /\ sent < MaxReplies
  /\ queue' = Chunks(Encode(ADDR_TO_HOST, data), MtuSmall)
  /\ current' = data /\ sent' = sent + 1 /\ got' = <<>>
  /\ UNCHANGED <<decoder, faults, intact>>

Arrive(raw) == LET heard == PushNotification(decoder, raw) IN
                 decoder' = heard.dec /\ got' = heard.done

\* intact counts a reply when its last notification arrives.
Deliver ==
  /\ queue # <<>>
  /\ Arrive(Head(queue))
  /\ queue' = Tail(queue)
  /\ intact' = IF Len(queue) = 1 THEN intact + 1 ELSE intact
  /\ UNCHANGED <<current, sent, faults>>

Fault == /\ faults < MaxFaults /\ faults' = faults + 1

\* A fault ends the row of intact replies.  The reply it hits in the middle is
\* counted as it ends, so the row starts from one less.
Hit(rest) == intact' = IF rest = <<>> THEN 0 ELSE 0 - 1

Lose == /\ queue # <<>> /\ Fault
        /\ queue' = Tail(queue) /\ Hit(queue') /\ got' = <<>>
        /\ UNCHANGED <<decoder, current, sent>>

CutShort == /\ queue # <<>> /\ Fault
            /\ Arrive(Front(Head(queue)))
            /\ queue' = Tail(queue) /\ Hit(queue')
            /\ UNCHANGED <<current, sent>>

Stray(b) == /\ Fault
            /\ Arrive(Packet(<<b>>))
            /\ Hit(queue)
            /\ UNCHANGED <<queue, current, sent>>

Next == \/ \E data \in Replies : Reply(data)
        \/ Deliver \/ Lose \/ CutShort
        \/ \E b \in Noise : Stray(b)

Spec == Init /\ [][Next]_vars
-----------------------------------------------------------------------------
Arrived == sent > 0 /\ queue = <<>>

\* Reassembly: with no fault at all, every reply is put back together from its
\* notifications, once, the moment the last of them arrives.
Reassembled == (Arrived /\ faults = 0) => got = <<current>>

\* Whatever was lost, cut short or let through before, at most one undisturbed
\* reply is missed: the second in a row is decoded.
Resynchronises == (Arrived /\ intact >= 2) => got = <<current>>
=============================================================================
