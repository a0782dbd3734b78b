----------------------------- MODULE MCDesktop -----------------------------
(***************************************************************************)
(* An instance of Desktop for TLC.                                         *)
(***************************************************************************)
EXTENDS Desktop

\* The one setting has a target voltage for every task.
MCTargeted == Kinds \X {1}

\* Four commands and one connection, or three and two connections or a reading.
Bounded == tries + readings + given <= 5
=============================================================================
