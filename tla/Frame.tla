------------------------------- MODULE Frame -------------------------------
(***************************************************************************)
(* The framing layer (frame.rs): how a DATA field becomes stuffed bytes,   *)
(* how those are cut into length-prefixed packets, and the byte-by-byte    *)
(* decoder.  Bytes are the numbers 0 .. 255 and checksums wrap at 2^8.     *)
(***************************************************************************)
EXTENDS Naturals, SequencesExt

SYNC == \hAA
ADDR_TO_DEVICE == \h12
ADDR_TO_HOST == \h21
MAX_DATA_LEN == 255
Byte == 0 .. 255

\* The sum of the bytes of a sequence, wrapping as u8 does.
ByteSum(s) == LET sum[n \in 0 .. Len(s)] == IF n = 0 THEN 0
                                             ELSE (sum[n - 1] + s[n]) % 256
              IN sum[Len(s)]

Checksum(addr, data) == (addr + Len(data) + ByteSum(data)) % 256

\* push_stuffed: a literal sync byte is doubled.
Stuffed(b) == IF b = SYNC THEN <<SYNC, SYNC>> ELSE <<b>>
Stuff(s) == FlattenSeq([i \in DOMAIN s |-> Stuffed(s[i])])

\* encode_to, for data the length field can express; longer data is refused.
Encodable(data) == Len(data) <= MAX_DATA_LEN
Encode(addr, data) ==
  <<SYNC>> \o Stuff(<<addr, Len(data)>> \o data \o <<Checksum(addr, data)>>)

\* (mutant: the length byte counts itself)
PacketSelfCounted(bytes) == <<(Len(bytes) + 1) % 256>> \o bytes

\* One GATT packet: its length, as a u8, and then the bytes.
Packet(bytes) == <<Len(bytes) % 256>> \o bytes

\* chunk: the bytes of a frame, cut for a channel of the given MTU.
Chunks(frame, mtu) ==
  LET budget == IF mtu > 1 THEN mtu - 1 ELSE 1
      count == (Len(frame) + budget - 1) \div budget
      End(i) == IF i * budget < Len(frame) THEN i * budget ELSE Len(frame)
  IN IF mtu >= 21 \/ Len(frame) <= 16
     THEN <<Packet(frame)>>
     ELSE [i \in 1 .. count |-> Packet(SubSeq(frame, (i - 1) * budget + 1, End(i)))]
-----------------------------------------------------------------------------
(* Decoder.  out holds the DATA field the last byte completed, if it did.  *)

DecoderStates == {"WaitSync", "WaitAddress", "WaitLength", "WaitData", "WaitChecksum"}

NewDecoder == [state |-> "WaitSync", sync_run |-> 0, remaining |-> 0,
               checksum |-> 0, buffer |-> <<>>, out |-> <<>>]

TakeAddress(d, b) ==
  IF b = ADDR_TO_HOST
  THEN [d EXCEPT !.checksum = b, !.state = "WaitLength"]
  ELSE [d EXCEPT !.state = "WaitSync"]

\* (mutant: a frame without data is waited for)
TakeAnyLength(d, b) ==
  [d EXCEPT !.remaining = b, !.checksum = (@ + b) % 256, !.buffer = <<>>,
            !.state = "WaitData"]

TakeLength(d, b) ==
  [d EXCEPT !.remaining = b, !.checksum = (@ + b) % 256, !.buffer = <<>>,
            !.state = IF b = 0 \/ b > MAX_DATA_LEN THEN "WaitSync" ELSE "WaitData"]

TakeData(d, b) ==
  [d EXCEPT !.buffer = Append(@, b), !.checksum = (@ + b) % 256,
            !.remaining = @ - 1,
            !.state = IF d.remaining = 1 THEN "WaitChecksum" ELSE @]

TakeChecksum(d, b) ==
  [d EXCEPT !.state = "WaitSync", !.buffer = <<>>,
            !.out = IF b = d.checksum THEN <<d.buffer>> ELSE <<>>]

\* The match on the state, for a byte that carries data.
Dispatch(d, b) ==
  CASE d.state = "WaitAddress"  -> TakeAddress(d, b)
    [] d.state = "WaitLength"   -> TakeLength(d, b)
    [] d.state = "WaitData"     -> TakeData(d, b)
    [] d.state = "WaitChecksum" -> TakeChecksum(d, b)
    [] d.state = "WaitSync"     -> d

\* (mutant: an opening sync byte is heeded only while hunting for one)
PushByteDeaf(dec, b) ==
  LET d == [dec EXCEPT !.out = <<>>]
      odd == d.sync_run % 2 = 1
  IN IF b = SYNC
     THEN IF odd THEN Dispatch([d EXCEPT !.sync_run = @ + 1], b)
                 ELSE [d EXCEPT !.sync_run = @ + 1]
     ELSE Dispatch([d EXCEPT !.sync_run = 0,
                             !.state = IF odd /\ @ = "WaitSync" THEN "WaitAddress" ELSE @], b)

\* push_byte.  The first sync byte of a pair, or a frame's opening one, only
\* counts; a run of odd length that ends makes the byte after it an address,
\* whatever the decoder was doing.
PushByte(dec, b) ==
  LET d == [dec EXCEPT !.out = <<>>]
      odd == d.sync_run % 2 = 1
  IN IF b = SYNC
     THEN IF odd THEN Dispatch([d EXCEPT !.sync_run = @ + 1], b)
                 ELSE [d EXCEPT !.sync_run = @ + 1]
     ELSE Dispatch([d EXCEPT !.sync_run = 0,
                             !.state = IF odd THEN "WaitAddress" ELSE @], b)

\* push: the frames a slice of the stream completes, in order.
Push(dec, bytes) ==
  LET after[n \in 0 .. Len(bytes)] ==
        IF n = 0 THEN [dec |-> dec, done |-> <<>>]
        ELSE LET before == after[n - 1]
                 d == PushByte(before.dec, bytes[n])
             IN [dec |-> d, done |-> before.done \o d.out]
  IN after[Len(bytes)]

\* push_notification: a packet that is empty, or whose length byte overruns
\* what arrived, is ignored.
PushNotification(dec, raw) ==
  IF raw = <<>> \/ Head(raw) > Len(raw) - 1
  THEN [dec |-> dec, done |-> <<>>]
  ELSE Push(dec, SubSeq(raw, 2, Head(raw) + 1))

\* reset
ResetDecoder(dec) == NewDecoder
=============================================================================
