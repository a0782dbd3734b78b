------------------------------ MODULE Decoder ------------------------------
(***************************************************************************)
(* The decoder of frame.rs as a machine that is fed one byte at a time,    *)
(* any byte after any other, and may be reset in between.                  *)
(***************************************************************************)
EXTENDS Frame

CONSTANTS Alphabet,    \* the bytes that may arrive
          MaxBytes,    \* bound: bytes heard since the decoder was made or reset
          DataLengths  \* bound: the lengths of the frames looked for

ASSUME AlphabetAssumption == Alphabet \subseteq Byte
ASSUME MaxBytesAssumption == MaxBytes \in Nat /\ DataLengths \subseteq 1 .. MAX_DATA_LEN

VARIABLES dec,     \* the decoder
          heard    \* history: the bytes since the decoder was made or reset

DecoderInit == dec = NewDecoder /\ heard = <<>>

Hear(b) == /\ Len(heard) < MaxBytes
           /\ dec' = PushByte(dec, b)
           /\ heard' = Append(heard, b)

Reset == dec' = ResetDecoder(dec) /\ heard' = <<>>

DecoderNext == (\E b \in Alphabet : Hear(b)) \/ Reset

DecoderSpec == DecoderInit /\ [][DecoderNext]_<<dec, heard>>
-----------------------------------------------------------------------------
\* What each wait of the decoder knows.  No address is ever pending between
\* two bytes; while data is awaited some is left to come, so that the counter
\* of push_byte never goes below zero, and what came and what is left add up
\* to no more than a length byte can say; a checksum is awaited only for data
\* that is all there; and no frame without a command word is ever yielded.
DecoderInv ==
  /\ dec.state \in DecoderStates \ {"WaitAddress"}
  /\ dec.sync_run \in Nat /\ dec.checksum \in Byte /\ dec.buffer \in Seq(Byte)
  /\ dec.remaining \in 0 .. MAX_DATA_LEN
  /\ dec.state = "WaitData" =>
       dec.remaining > 0 /\ Len(dec.buffer) + dec.remaining <= MAX_DATA_LEN
  /\ dec.state = "WaitChecksum" =>
       dec.remaining = 0 /\ Len(dec.buffer) \in 1 .. MAX_DATA_LEN
  /\ dec.out \in Seq(Seq(Byte)) /\ Len(dec.out) <= 1
  /\ \A i \in DOMAIN dec.out : Len(dec.out[i]) \in 1 .. MAX_DATA_LEN

\* The sync bytes in a row that end at position i of a stream are n in number.
SyncRun(s, i, n) == /\ n \in 0 .. i /\ \A j \in i - n + 1 .. i : s[j] = SYNC
                    /\ n < i => s[i - n] # SYNC

\* Position i opens a frame: its sync byte is no half of a stuffed pair.
Opens(s, i) == \E n \in 1 .. i : n % 2 = 1 /\ SyncRun(s, i, n)

\* Every frame for the host the alphabet can spell, with its bytes on the air.
Encodings == { [data |-> data, bytes |-> Encode(ADDR_TO_HOST, data)] :
               data \in UNION { [1 .. n -> Alphabet] : n \in DataLengths } }

\* The decoder against encode_to: whatever was heard before, and however the
\* stream was cut, a byte completes a frame exactly when the bytes up to it end
\* in the encoding of that frame, opened by a sync byte that is no half of a
\* stuffed pair.
DecodesExactly ==
  \A frame \in Encodings :
     dec.out = <<frame.data>> <=>
       LET opening == Len(heard) - Len(frame.bytes) + 1 IN
         /\ opening \in DOMAIN heard
         /\ SubSeq(heard, opening, Len(heard)) = frame.bytes
         /\ Opens(heard, opening)
=============================================================================
