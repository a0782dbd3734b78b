------------------------------ MODULE MCFlash ------------------------------
(***************************************************************************)
(* An instance of Flash for TLC: images of one and of two blocks, two of   *)
(* them with the same checksum, at an address where they fit, at one where *)
(* the memory ends in the middle of the image, and at one where their end  *)
(* is past the last address.                                               *)
(***************************************************************************)
EXTENDS Flash

SomeImages == {<<1>>, <<1, 2>>, <<2, 1>>}
SomeStarts == {0, 1, 3}
=============================================================================
