-------------------------- MODULE MCNotifications --------------------------
(***************************************************************************)
(* An instance of Notifications for TLC: a reply that fits one             *)
(* notification, and one that takes two and is cut in the middle of a      *)
(* stuffed pair of sync bytes.                                             *)
(***************************************************************************)
EXTENDS Notifications

ShortReply == <<\hE9, \h00>>
CutInAPair == <<\hE5>> \o [i \in 1 .. 9 |-> SYNC]
TwoReplies == {ShortReply, CutInAPair}

\* Noise that opens a frame, names the host, or announces data.
Bytes == {SYNC, ADDR_TO_HOST, \h02}
=============================================================================
