----------------------------- MODULE MCBinding -----------------------------
(***************************************************************************)
(* Instances of Binding for TLC.                                           *)
(***************************************************************************)
EXTENDS Binding

TwoChargers == 1 .. 2
=============================================================================
