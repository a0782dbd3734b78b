------------------------------- MODULE Layout -------------------------------
(***************************************************************************)
(* The DATA field of every packet: how Request::data lays out the          *)
(* arguments of a request, and how Response::parse takes a reply apart     *)
(* with its Reader, field by field, until one does not fit.                *)
(*                                                                         *)
(* A field is a name and a size in bytes; numbers of up to four bytes are  *)
(* little-endian, larger fields are kept as they came.  Two fields of one  *)
(* packet have the same name only where nothing asks for them by name.     *)
(***************************************************************************)
EXTENDS Request, Values

Field(name, size) == [name |-> name, size |-> size]
U8(name) == Field(name, 1)
U16(name) == Field(name, 2)
U32(name) == Field(name, 4)
Times(n, field) == [i \in 1 .. n |-> field]
Sizes(list) == [i \in DOMAIN list |-> Field("", list[i])]

\* (mutant: the high byte first)
ToBE(value, n) == [i \in 1 .. n |-> (value \div (256 ^ (n - i))) % 256]

\* to_le_bytes and from_le_bytes at a width of n bytes.
ToLE(value, n) == [i \in 1 .. n |-> (value \div (256 ^ (i - 1))) % 256]
FromLE(bytes) ==
  LET from[i \in 1 .. Len(bytes) + 1] ==
        IF i > Len(bytes) THEN 0 ELSE bytes[i] + 256 * from[i + 1]
  IN from[1]
-----------------------------------------------------------------------------
(* Requests                                                                *)

WRITE_APP_BLOCK == 128
SMART_POWER_SAFE_WORD == \hA5C3
BOOTLOADER_MAGIC == \hAC
REBOOT_MAGIC == \hCA

PerChannel ==
  {"Electrical", "WorkState", "Temperature", "InnerResistance", "BattgoInfo",
   "BattgoOem", "BattgoRealState", "BattgoReadParameters"}

\* The fields after the command word.
Arguments(k) ==
  CASE k \in PerChannel -> <<U8("channel")>>
    [] k \in {"Bind", "SetName"} -> <<Field("text", 16)>>
    [] k = "SetTask" ->
         <<U8("channel"), U8("task"), U8("battery"), U8("link"),
           U32("current_ma"), U8("cells"), U16("volt_mv")>>
    [] k = "SetLimitParameters" -> <<U16("min_input_mv"), U32("max_input_mw")>>
    [] k = "SetOneKeyLaunch" ->
         <<U8("enabled"), U8("battery"), U8("cells"), U16("volt_mv"), U32("current_ma")>>
    [] k = "SetSmartPower" -> <<U16("safe_word"), U8("setting"), U16("value")>>
    [] k = "BattgoWriteParameters" ->
         <<U8("channel"), U32("current_ma"), U16("store_mv"), U16("volt_mv"), U8("days")>>
    [] k \in {"Calibrate6", "Calibrate8"} ->
         <<U8("channel"), U8("mode")>>
           \o Times(IF k = "Calibrate6" THEN 6 ELSE 8, U16("cell_mv"))
           \o <<U16("input_mv"), U16("output_mv")>>
    [] k \in {"EnterBootloader", "Reboot"} -> <<U8("magic")>>
    [] k = "EraseApp" -> <<U8("cpu"), U32("address"), U32("size")>>
    [] k = "WriteApp" ->
         <<U8("cpu"), U32("address"), Field("block", WRITE_APP_BLOCK)>>
    [] k = "ChecksumApp" ->
         <<U8("sub"), U8("cpu"), U32("address"), U32("size"), U32("checksum")>>
    [] OTHER -> <<>>

\* What a field holds that no caller chooses.
Fixed(k, field) ==
  CASE field.name = "safe_word" -> SMART_POWER_SAFE_WORD
    [] field.name = "magic" -> IF k = "Reboot" THEN REBOOT_MAGIC ELSE BOOTLOADER_MAGIC
    [] field.name = "sub" -> \h35
    [] OTHER -> 0

\* (mutant: a short name is not padded)
PaddedNot(bytes, n) == SubSeq(bytes, 1, IF n < Len(bytes) THEN n ELSE Len(bytes))

\* A name is cut to its field or padded with zeroes.
Padded(bytes, n) == [i \in 1 .. n |-> IF i <= Len(bytes) THEN bytes[i] ELSE 0]

Put(k, field, args) ==
  LET value == IF field.name \in DOMAIN args THEN args[field.name]
               ELSE IF field.size > 4 THEN <<>> ELSE Fixed(k, field)
  IN IF field.size > 4 THEN Padded(value, field.size) ELSE ToLE(value, field.size)

\* Request::data.  The bytes of a Raw request are its only argument.
Data(k, args) ==
  IF k = "Raw" THEN args.bytes
  ELSE <<CommandWord[k]>> \o
       FlattenSeq([i \in DOMAIN Arguments(k) |-> Put(k, Arguments(k)[i], args)])
-----------------------------------------------------------------------------
(* Responses                                                               *)

\* Words whose reply has one layout.
FixedWords == {\h13, \h19, \h41, \h43, \h47, \h49, \hB1, \hBB, \hBD, \hBF}
FixedLayout(word) ==
  CASE word = \h13 -> <<U8("ble_mode"), U8("pair_mode"), U32("linking_period")>>
    [] word = \h19 -> <<U8("state")>>
    [] word = \h41 -> <<U8("channel")>> \o Sizes(<<1, 8, 10, 1, 1, 1, 1, 1, 2, 4, 4>>)
    [] word = \h43 ->
         <<U8("channel")>> \o Sizes(<<1, 16, 1, 1, 2, 2, 2, 2, 4, 2, 2, 1, 1, 1, 1, 1>>)
    [] word = \h47 -> <<U8("channel"), U8("state")>>
    [] word = \h49 -> <<U8("channel"), U32("current_ma"), U16("store_mv"), U16("volt_mv"),
                        U8("days")>>
    [] word = \hB1 -> Times(8, U16("cell_mv")) \o Sizes(<<2, 2, 2>>)
    [] word = \hBB -> <<U8("common_power"), U8("power_type")>>
                        \o Sizes(<<2, 2, 1, 1, 1, 2, 2, 2, 2, 2, 2>>)
    [] word = \hBD -> <<U8("setting"), U16("value")>>
    [] word = \hBF -> <<U8("common_power"), U8("power_type")>> \o Sizes(<<4, 2, 2>>)

\* The same for the words of the live telemetry, settings and firmware.
LiveWords ==
  {\hC1, \hD1, \hD3, \hD5, \hDD, \hDF, \hE1, \hE3, \hE7, \hE9, \hEB, \hF1, \hF3, \hF5,
   \hF7, \hFB, \hFD}
LiveLayout(word) ==
  CASE word \in {\hC1, \hD1, \hD3, \hF1} -> <<U8("state")>>
    [] word = \hD5 -> <<U8("enabled"), U8("battery"), U8("cells"), U16("volt_mv"),
                        U32("current_ma")>>
    [] word \in {\hDD, \hDF, \hEB} -> <<U8("channel"), U8("state")>>
    [] word = \hE1 -> Sizes(<<8, 4, 4, 4>>)
    [] word = \hE3 -> <<U32("max_input_mw"), U32("max_output_mw"), U32("max_input_ma"),
                        U32("max_output_ma")>>
    [] word = \hE7 ->
         <<U8("channel"), U8("state"), U8("percent"), U32("done_mah"), U32("done_mwh"),
           U32("period_ms"), U8("battery"), U8("cells"), U8("link"), U16("volt_mv"),
           U32("current_ma"), U16("total"), U16("done"), U16("min_input_mv"),
           U32("max_output_mw")>>
    [] word = \hE9 -> <<U8("channel"), U8("device_c"), U8("battery_c"), U8("fan_raw")>>
    [] word \in {\hF3, \hF7} -> <<U8("cpu"), U8("state")>>
    [] word = \hF5 -> <<U8("cpu"), U32("address"), U8("state")>>
    [] word = \hFB -> <<U8("channel")>> \o Times(8, U16("raw"))
    [] word = \hFD -> <<>>

\* The words whose layout depends on the body, and the others.
ModelledWords == {\h01, \h0E, \h45, \hE5} \union FixedWords \union LiveWords

\* Electrical, in its narrow form or in its wide one.
ElectricalFields(wide) ==
  LET volt(name) == Field(name, IF wide THEN 4 ELSE 2) IN
    <<U8("channel"), volt("input_mv"), U32("input_ma"), volt("output_mv"),
      U32("current_ma")>> \o Times(IF wide THEN 16 ELSE 8, U16("cell_mv"))

\* (mutant: the command word is left out of the count)
FieldsMiscounted(word, body) ==
  CASE word = \hE5 -> ElectricalFields(Len(body) >= 35)
    [] word \in FixedWords -> FixedLayout(word)
    [] word \in LiveWords -> LiveLayout(word)
    [] OTHER -> <<U8("channel")>>

\* The fields a reply must have.  A chart holds as many samples as fit, a
\* battery names its cells before it lists them, and the electrical reply is
\* wide when it counts 35 bytes or more with its command word.
Fields(word, body) ==
  CASE word = \h01 -> <<U8("region")>>
    [] word = \h0E ->
         <<U8("channel")>> \o
         (IF body = <<>> THEN <<>> ELSE Times(2 * ((Len(body) - 1) \div 4), U16("sample")))
    [] word = \h45 ->
         <<U8("channel"), U8("link_state"), U8("cells")>>
           \o Times(IF Len(body) < 3 THEN 0 ELSE body[3], U16("cell_mv"))
           \o Sizes(<<1, 4, 4, 2, 2, 2, 2, 2, 1>>)
    [] word = \hE5 -> ElectricalFields(Len(body) + 1 >= 35)
    [] word \in FixedWords -> FixedLayout(word)
    [] OTHER -> LiveLayout(word)

\* The fields newer firmware adds; the first that is missing ends the list.
OptionalFields(word) ==
  CASE word = \hE1 -> <<Field("device_name", 10), Field("part_number", 8)>>
    [] word = \hE7 -> <<U16("errors")>>
    [] OTHER -> <<>>
-----------------------------------------------------------------------------
(* Reader: a cursor over the body that fails instead of running past it    *)

NewReader == [pos |-> 0, failed |-> FALSE, values |-> <<>>]

Got(field, bytes) == IF field.size > 4 THEN bytes ELSE FromLE(bytes)

\* (mutant: the end of the body is not looked at)
TakeOverrun(r, body, field) ==
  [r EXCEPT !.pos = @ + field.size,
            !.values = Append(@, Got(field, [i \in 1 .. field.size |->
              IF r.pos + i <= Len(body) THEN body[r.pos + i] ELSE 0]))]

\* Once a read failed, nothing more is read.
Take(r, body, field) ==
  IF r.failed \/ r.pos + field.size > Len(body)
  THEN [r EXCEPT !.failed = TRUE]
  ELSE [r EXCEPT !.pos = @ + field.size,
                 !.values = Append(@, Got(field, SubSeq(body, r.pos + 1,
                                                        r.pos + field.size)))]

TakeAll(r, body, fields) ==
  LET after[i \in 0 .. Len(fields)] ==
        IF i = 0 THEN r ELSE Take(after[i - 1], body, fields[i])
  IN after[Len(fields)]

\* Response::parse and parse_body, for data that is not empty.
Parse(data) ==
  LET word == Head(data)
      body == Tail(data)
      must == IF word \in ModelledWords THEN TakeAll(NewReader, body, Fields(word, body))
              ELSE [NewReader EXCEPT !.failed = TRUE]
      all == TakeAll(must, body, OptionalFields(word))
  IN IF must.failed
     THEN [known |-> FALSE, command |-> word, pos |-> 0, fields |-> <<>>, values |-> <<>>]
     ELSE [known |-> TRUE, command |-> word, pos |-> all.pos,
           fields |-> Fields(word, body) \o OptionalFields(word), values |-> all.values]

Value(reply, name) ==
  reply.values[CHOOSE i \in DOMAIN reply.values : reply.fields[i].name = name]

\* Response::channel, of the frames that name one; Unknown names none.
NoChannel == 256
ChannelOf(reply) ==
  IF /\ reply.known
     /\ reply.command \in {\h0E, \h41, \h43, \h45, \h47, \h49, \hDD, \hDF, \hE5, \hE7, \hE9,
                          \hEB, \hFB}
  THEN Value(reply, "channel") ELSE NoChannel
=============================================================================
