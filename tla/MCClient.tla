------------------------------ MODULE MCClient ------------------------------
(***************************************************************************)
(* An instance of Client for TLC: a setter that may be repeated, a         *)
(* firmware step that may not, and a request that takes the next frame     *)
(* whatever it says, while the charger reports its state unprompted.       *)
(***************************************************************************)
EXTENDS Client

SetFlashAndRaw == {"SetTask", "WriteApp", "Raw"}

WorkStateFrames == {\hE7}
=============================================================================
