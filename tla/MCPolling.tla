----------------------------- MODULE MCPolling -----------------------------
(***************************************************************************)
(* Instances of Polling for TLC: a charger that does not know one query in *)
(* the middle of the cycle, and one that does not know the last.           *)
(***************************************************************************)
EXTENDS Polling

Temperature == {Query(\hE8, 0)}
SecondChannel == {Query(\hFA, 1)}
Electrical == {"electrical"}
=============================================================================
