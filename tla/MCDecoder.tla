----------------------------- MODULE MCDecoder -----------------------------
(***************************************************************************)
(* An instance of Decoder for TLC.  The alphabet has the sync byte, the    *)
(* address, the length 1, and the bytes that make a data byte, a checksum  *)
(* or both of them a sync byte to be stuffed.                              *)
(***************************************************************************)
EXTENDS Decoder

\* 21 + 01 + 88 = AA: data 88 draws a stuffed checksum; data AA, a checksum CC.
Telling == {SYNC, ADDR_TO_HOST, \h00, \h01, \h88, \hCC}

\* encode_to would also build a frame without data, which the decoder drops and
\* which no request and no reply is.
OneOrTwo == 1 .. 2
=============================================================================
