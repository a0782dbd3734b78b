----------------------------- MODULE MCBleWrite -----------------------------
(***************************************************************************)
(* An instance of BleWrite for TLC: two senders on the narrow channel,     *)
(* where a query takes one packet and a task set two.                      *)
(***************************************************************************)
EXTENDS BleWrite

CONSTANTS poll, command     \* two tasks that share a link

Sharing == {poll, command}

QueryAndTask == {8, 23}
=============================================================================
