------------------------------- MODULE MCWire -------------------------------
(***************************************************************************)
(* Instances of Wire for TLC: every kind of request, inputs at the ends of *)
(* the accepted ranges, and reply lengths around every length at which the *)
(* parser changes its mind.                                                *)
(***************************************************************************)
EXTENDS Wire

EveryKind == RequestKinds \ {"Raw", "Identify"}
JustLimits == {"SetLimitParameters"}

LowHigh == {100, 70000}
SomeCells == {4}
NoneOr4321 == {None, 4321}
Cutoffs == {11, 65}
TopCutoffs == {65, 66, 70}

ReplyLengths ==
  {0, 1, 2, 3, 4, 5, 6, 8, 9, 10, 15, 16, 17, 19, 20, 21, 22, 26, 27, 28, 29, 33, 34,
   35, 36, 40, 41, 48, 49}
Acks == {1}
=============================================================================
