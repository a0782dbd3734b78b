-------------------------------- MODULE Wire --------------------------------
(***************************************************************************)
(* What the programs ask of a charger and what they make of its replies:   *)
(* the settings the command line and the window accept, the bytes they     *)
(* become, and the typed methods of Client over the parsed reply.          *)
(*                                                                         *)
(* The charger keeps the arguments of the last setter of each kind and     *)
(* reports them at the places PROTOCOL.md gives.  Its replies may be cut   *)
(* short or longer than this library knows, as firmware of another age     *)
(* sends them.  Loss, resending and stale replies are those of Client.     *)
(***************************************************************************)
EXTENDS Layout, Frame

CONSTANTS Kinds,      \* the kinds of request that are sent
          Currents, CellCounts, Volts,  \* what a user may type; None: no voltage
          CutoffVolts,                  \* input cutoffs a user may type
          Lengths,    \* the lengths a reply may be cut to or grow to
          MaxCalls,   \* bound: calls
          MaxSettings \* bound: calls that write a setting, among them

ASSUME KindsAssumption == Kinds \subseteq RequestKinds \ {"Raw", "Identify"}
ASSUME InputsAssumption ==
  /\ Currents \subseteq Nat /\ CellCounts \subseteq Nat /\ Volts \subseteq Nat
  /\ CutoffVolts \subseteq Nat
  /\ (\A c \in CellCounts : c < 256) /\ (\A v \in Volts : v < 65536)
  /\ \A c \in Currents : c \div 65536 < 65536
ASSUME BoundsAssumption ==
  MaxCalls \in Nat /\ MaxSettings \in Nat /\ Lengths \subseteq Nat

VARIABLES
  request,  \* [kind, data, told]: the call under way, or NoRequest
  reply,    \* what the charger answered: [data, refused], or NoReply
  memory,   \* the charger: the arguments of the last setter of each kind
  told,     \* history: what the program meant by the settings in memory
  last,     \* history: the last call that ended
  calls,    \* history: how many were made
  settings  \* history: how many of them wrote a setting

vars == <<request, reply, memory, told, last, calls, settings>>
-----------------------------------------------------------------------------
NoRequest == [kind |-> "none"]
NoReply == [data |-> <<>>, refused |-> FALSE]
NothingTold == [by |-> "nobody"]

Setters == {"SetTask", "SetLimitParameters", "SetOneKeyLaunch", "BattgoWriteParameters"}
Zeros(k) == [i \in 1 .. Len(Data(k, <<>>)) - 1 |-> 0]

\* The kinds whose typed method wants one variant of Response, by the word
\* that variant is parsed from; for the others Client::call hands any reply on,
\* and a reboot takes any for success.
Expected ==
  [ Bind |-> \h19, EnterBootloader |-> \hF1, EraseApp |-> \hF3, WriteApp |-> \hF5,
    ChecksumApp |-> \hF7, HardwareInfo |-> \hE1, Electrical |-> \hE5, WorkState |-> \hE7,
    Temperature |-> \hE9, InnerResistance |-> \hFB, LimitParameters |-> \hE3,
    OneKeyLaunch |-> \hD5, SetTask |-> \hEB, SetName |-> \hC1,
    SetLimitParameters |-> \hD1, SetOneKeyLaunch |-> \hD3 ]
Acknowledged ==
  {"Bind", "SetTask", "SetName", "SetLimitParameters", "SetOneKeyLaunch",
   "EnterBootloader", "EraseApp", "WriteApp", "ChecksumApp"}

\* What the typed method makes of the reply.
Verdict(k, r) ==
  IF k \notin DOMAIN Expected THEN "ok"
  ELSE IF ~(r.known /\ r.command = Expected[k]) THEN "unexpected"
  ELSE IF k \in Acknowledged /\ Value(r, "state") # 0 THEN "rejected"
  ELSE "ok"

Init ==
  /\ request = NoRequest /\ reply = NoReply
  /\ memory = [[k \in Setters |-> Zeros(k)] EXCEPT !["SetTask"][3] = 9]
  /\ told = [k \in Setters |-> NothingTold]
  /\ last = [kind |-> "none"] /\ calls = 0 /\ settings = 0

\* args are the numbers that are encoded, words what the user is told is set.
Call(k, args, words) ==
  /\ request = NoRequest /\ calls < MaxCalls /\ k \in Kinds
  /\ k \in Setters => settings < MaxSettings
  /\ request' = [kind |-> k, data |-> Data(k, args), told |-> words]
  /\ settings' = settings + (IF k \in Setters THEN 1 ELSE 0)
  /\ calls' = calls + 1 /\ last' = [kind |-> "none"]
  /\ UNCHANGED <<reply, memory, told>>
-----------------------------------------------------------------------------
(* Client::start_task and the commands that lead to it                     *)

StartTask(channel, task, battery, link, current, cells, volt, words) ==
  Call("SetTask",
       [channel |-> channel, task |-> Code(TaskTypes, Named(task)),
        battery |-> Code(BatteryKinds, battery), link |-> Code(LinkTypes, Named(link)),
        current_ma |-> current, cells |-> cells, volt_mv |-> volt],
       words)

Started(by, battery, link, current, cells, volt, chosen) ==
  [by |-> by, battery |-> battery, link |-> Named(link), current_ma |-> current,
   cells |-> cells, volt_mv |-> volt, chosen |-> chosen]

InRange(current, cells) == current \in WORK_CURRENT_MA /\ cells \in CM1620_CELLS

\* The command line: charge, discharge, storage.
Start(task, battery, link, current, cells, typed, force) ==
  LET volt == IF typed # None THEN typed ELSE DefaultVolt(task, battery) IN
    /\ volt # None
    /\ force \/ InRange(current, cells)
    /\ StartTask(0, task, battery, link, current, cells, volt,
                 Started(IF force THEN "force" ELSE "cli", battery, link, current,
                         cells, volt, typed # None))

\* What the device task of the window makes of a start.
Apply(task, battery, current, cells, volt) ==
  StartTask(0, task, battery, "SerialOnly", current, cells, volt,
            Started("window", battery, "SerialOnly", current, cells, volt, FALSE))

\* The window asks nobody: its controls hold what the chips offer or what the
\* last running task the charger reported had, whichever program started it, and
\* ChargerWindow::start checks neither current nor cells.  A chemistry without
\* a target for the task starts nothing.
WindowStart(task, battery, current, cells) ==
  LET volt == DefaultVolt(task, battery) IN
    /\ volt # None
    /\ Apply(task, battery, current, cells, volt)

Stop ==
  StartTask(0, "Stop", Named("LiHv"), "SerialOnly", 0, 0, 0,
            Started("stop", Named("LiHv"), "SerialOnly", 0, 0, 0, FALSE))

\* The command line's limits: volts as a u32, cast to the u16 of the packet.
Limits(volt, watts) ==
  /\ volt \in MIN_INPUT_VOLT_V /\ watts \in MAX_INPUT_POWER_W
  /\ Call("SetLimitParameters",
          [min_input_mv |-> (volt * 1000) % 65536, max_input_mw |-> watts * 1000],
          [by |-> "cli", volt |-> volt, watts |-> watts])

Profile(enabled, battery, cells, volt, current) ==
  [enabled |-> enabled, battery |-> battery, cells |-> cells, volt_mv |-> volt,
   current_ma |-> current]

\* onekey --set, which checks no range.
OneKey(enabled, battery, cells, volt, current) ==
  Call("SetOneKeyLaunch",
       [Profile(enabled, battery, cells, volt, current)
          EXCEPT !.enabled = IF enabled THEN 1 ELSE 0, !.battery = Code(BatteryKinds, battery)],
       [by |-> "cli", profile |-> Profile(enabled, battery, cells, volt, current)])

BattgoWrite(channel, current, store, full, days) ==
  LET args == [channel |-> channel, current_ma |-> current, store_mv |-> store,
               volt_mv |-> full, days |-> days]
  IN Call("BattgoWriteParameters", args, [by |-> "cli", args |-> args])

\* Everything else that takes no more than a channel, or arguments no reply
\* gives back: bind, name, smart power, calibration and firmware.
Ask(k, channel) ==
  /\ k \notin Setters /\ (channel = 0 \/ k \in PerChannel)
  /\ Call(k, [channel |-> channel], [channel |-> channel])
-----------------------------------------------------------------------------
(* The charger, as PROTOCOL.md describes it                                *)

Splice(body, at, bytes) ==
  [i \in DOMAIN body |-> IF i \in at .. at + Len(bytes) - 1 THEN bytes[i - at + 1] ELSE body[i]]

\* Bytes that tell where they came from, the first of them the channel.
Pattern(n, channel) == [i \in 1 .. n |-> IF i = 1 THEN channel ELSE (7 * i) % 120]

\* Task, chemistry, link, current, cells and voltage of a task follow its
\* channel; the work state carries them at offsets 15, 16, 17, 18 and 20.
WorkStateBody(channel) ==
  LET task == memory["SetTask"]
      chemistry == Splice(Pattern(36, channel), 16, <<task[3], task[9], task[4]>>)
      target == Splice(chemistry, 19, SubSeq(task, 10, 11) \o SubSeq(task, 5, 8))
      state == CASE task[2] = 0 -> 3 [] task[2] = 1 -> 7 [] task[2] = 2 -> 10 [] OTHER -> 0
  IN Splice(Splice(target, 29, SubSeq(memory["SetLimitParameters"], 1, 2)), 2, <<state>>)

\* Where an acknowledgement has its state, after a channel, a processor or an
\* address.
StateAt(k) ==
  CASE k \in {"SetTask", "EraseApp", "ChecksumApp"} -> 2
    [] k = "WriteApp" -> 6
    [] OTHER -> 1

ChargerBody(k, channel, refused) ==
  CASE k = "WorkState" -> WorkStateBody(channel)
    [] k = "OneKeyLaunch" -> memory["SetOneKeyLaunch"]
    [] k = "BattgoReadParameters" -> memory["BattgoWriteParameters"]
    [] k = "BattgoRealState" -> Splice(Pattern(26, channel), 3, <<2>>)
    [] k \in Acknowledged -> [i \in 1 .. StateAt(k) |->
         IF i < StateAt(k) THEN 0 ELSE IF refused THEN 1 ELSE 0]
    [] OTHER -> Pattern(0, channel)

\* The body, cut or continued with bytes this library may not expect.
OfLength(body, n, channel) ==
  body \o SubSeq(Pattern(n, channel), Len(body) + 1, n)

\* What the charger keeps of a setting: of a stop, that nothing runs; its other
\* fields are placeholders the charger ignores (client.rs).
Stored(k, args) ==
  IF k = "SetTask" /\ args[2] = 3 THEN [memory[k] EXCEPT ![2] = 3] ELSE args

Answer(n, refused) ==
  LET k == request.kind
      channel == IF "channel" \in DOMAIN request.told THEN request.told.channel ELSE 0
      body == ChargerBody(k, channel, refused)
  IN /\ request # NoRequest /\ reply = NoReply
     /\ refused => k \in Acknowledged
     /\ reply' = [data |-> <<CommandWord[k] + 1>>
                             \o SubSeq(OfLength(body, n, channel), 1, n),
                  refused |-> refused]
     /\ memory' = IF k \in Setters /\ ~refused
                  THEN [memory EXCEPT ![k] = Stored(k, Tail(request.data))] ELSE memory
     /\ told' = IF k \in Setters /\ ~refused
                THEN [told EXCEPT ![k] = request.told] ELSE told
     /\ UNCHANGED <<request, last, calls, settings>>

\* The client reads the reply and the program reports what it made of it.
Understand ==
  LET k == request.kind
      r == Parse(reply.data)
      v == Verdict(k, r)
  IN /\ request # NoRequest /\ reply # NoReply
     /\ last' = [kind |-> k, verdict |-> v, parsed |-> r, told |-> request.told,
                 size |-> Len(reply.data) - 1, refused |-> reply.refused]
     /\ request' = NoRequest /\ reply' = NoReply
     /\ UNCHANGED <<memory, told, calls, settings>>
-----------------------------------------------------------------------------
Batteries == {Named(BatteryKinds[i]) : i \in DOMAIN BatteryKinds}

Next ==
  \/ \E task \in {"Charge", "Storage", "Discharge"}, battery \in Batteries,
        current \in Currents, cells \in CellCounts :
       \/ \E typed \in Volts, force \in BOOLEAN :
            Start(task, battery, "Both", current, cells, typed, force)
       \/ WindowStart(task, battery, current, cells)
  \/ Stop
  \/ \E volt \in CutoffVolts, watts \in {100, 1100} : Limits(volt, watts)
  \/ \E enabled \in BOOLEAN, battery \in Batteries, cells \in CellCounts,
        volt \in Volts, current \in Currents :
       OneKey(enabled, battery, cells, volt, current)
  \/ \E channel \in {0, 1}, current \in Currents, store \in Volts, days \in {0, 255} :
       BattgoWrite(channel, current, store, 4200, days)
  \/ \E k \in Kinds, channel \in {0, 1} : Ask(k, channel)
  \/ \E n \in Lengths, refused \in BOOLEAN : Answer(n, refused)
  \/ Understand

Spec == Init /\ [][Next]_vars
-----------------------------------------------------------------------------
(* What the programs show of a reply                                       *)

ShownWork(r) ==
  [battery |-> FromCode(BatteryKinds, Value(r, "battery")),
   link |-> FromCode(LinkTypes, Value(r, "link")),
   state |-> FromCode(ChargerStates, Value(r, "state")),
   current_ma |-> Value(r, "current_ma"), cells |-> Value(r, "cells"),
   volt_mv |-> Value(r, "volt_mv")]

ShownProfile(r) ==
  Profile(Value(r, "enabled") # 0, FromCode(BatteryKinds, Value(r, "battery")),
          Value(r, "cells"), Value(r, "volt_mv"), Value(r, "current_ma"))
-----------------------------------------------------------------------------
(* Properties                                                              *)

\* The lengths PROTOCOL.md gives for the DATA field of each request.
Documented ==
  [k \in RequestKinds |->
     CASE k \in {"Bind", "SetName"} -> 17
       [] k \in PerChannel \union {"EnterBootloader", "Reboot"} -> 2
       [] k = "SetTask" -> 12                [] k = "SetLimitParameters" -> 7
       [] k = "SetOneKeyLaunch" -> 10        [] k = "SetSmartPower" -> 6
       [] k = "BattgoWriteParameters" -> 11  [] k = "Calibrate6" -> 19
       [] k = "Calibrate8" -> 23             [] k = "EraseApp" -> 10
       [] k = "WriteApp" -> 134              [] k = "ChecksumApp" -> 15
       [] OTHER -> 1]

\* The calls keep their shape, and every request the client encodes has the
\* length the protocol gives it and fits a frame: only Raw can be refused by
\* encode_to.
TypeOK ==
  /\ calls \in 0 .. MaxCalls
  /\ settings \in 0 .. MaxSettings
  /\ \A k \in Setters : memory[k] \in Seq(Byte)
  /\ request # NoRequest =>
       /\ request.data \in Seq(Byte) /\ Encodable(request.data)
       /\ Len(request.data) = Documented[request.kind]

\* The bytes a reply of each word must have after its word, from the widths of
\* the response types; 45 counts its cells, E5 has two forms.
Shortest(word, size) ==
  CASE word \in {\h01, \h0E, \h19, \hC1, \hD1, \hD3, \hF1} -> 1
    [] word \in {\h47, \hDD, \hDF, \hEB, \hF3, \hF7} -> 2
    [] word = \hBD -> 3   [] word = \hE9 -> 4   [] word = \h13 -> 6
    [] word = \hF5 -> 6   [] word = \hD5 -> 9   [] word \in {\h49, \hBF} -> 10
    [] word = \hE3 -> 16  [] word = \hFB -> 17  [] word = \hE1 -> 20
    [] word = \hBB -> 21  [] word = \hB1 -> 22  [] word = \h45 -> 27
    [] word = \hE7 -> 34  [] word = \h41 -> 35  [] word = \h43 -> 41
    [] word = \hFD -> 0
    [] word = \hE5 -> IF size <= 33 THEN 29 ELSE 49
    [] OTHER -> size + 1

\* A reply is understood exactly when it has every byte its word needs, and
\* reading never runs past its end, whatever is cut off or added
\* (Response::parse: a frame too short for its layout yields Unknown).
ParsesExactly ==
  last.kind # "none" =>
    /\ last.parsed.known <=> last.size >= Shortest(last.parsed.command, last.size)
    /\ last.parsed.pos <= last.size

\* A typed method succeeds exactly when the whole answer came and accepts what
\* was asked, and the answer is about the channel that was asked for: the words
\* of Request, the variants of Response and the methods of Client agree.
AnswersTheQuestion ==
  last.kind \in DOMAIN Expected =>
    LET whole == last.size >= Shortest(CommandWord[last.kind] + 1, last.size) IN
      /\ last.verdict = "ok" <=> whole /\ ~last.refused
      /\ last.verdict = "unexpected" <=> ~whole
      /\ (whole /\ last.kind \in PerChannel)
           => ChannelOf(last.parsed) = last.told.channel

Understood(k) ==
  request # NoRequest /\ request.kind = k /\ request' = NoRequest /\ last'.parsed.known

\* What the step reports of a setting is what the program meant by it.
AsTold ==
  /\ Understood("WorkState") =>
       LET t == told["SetTask"]
           s == ShownWork(last'.parsed)
       IN IF t = NothingTold THEN s.battery = Unnamed(9)
          ELSE IF t.by = "stop" THEN ~IsRunning(s.state)
          ELSE /\ s.battery = t.battery /\ s.link = t.link /\ s.cells = t.cells
               /\ s.current_ma = t.current_ma /\ s.volt_mv = t.volt_mv
               /\ IsRunning(s.state)
  /\ (Understood("WorkState") /\ told["SetLimitParameters"] # NothingTold) =>
       LET t == told["SetLimitParameters"] IN
         t.volt <= 65 => Value(last'.parsed, "min_input_mv") = t.volt * 1000
  /\ (Understood("OneKeyLaunch") /\ told["SetOneKeyLaunch"] # NothingTold) =>
       ShownProfile(last'.parsed) = told["SetOneKeyLaunch"].profile
  /\ (Understood("BattgoReadParameters") /\ told["BattgoWriteParameters"] # NothingTold)
       => \A name \in {"channel", "current_ma", "store_mv", "volt_mv", "days"} :
            Value(last'.parsed, name) = told["BattgoWriteParameters"].args[name]

\* What a program shows of a task, a cutoff (up to 65 V), a profile or a battery
\* is what was asked for, through the argument layouts, the memory of the
\* charger, the other layout it reports them in, and the code tables; a
\* chemistry without a name keeps its code.  Of a stop it shows that nothing
\* runs, whatever the charger makes of the other fields.
ReadBack == [][AsTold]_vars

\* Whichever program started the task in the charger, a target the user did not
\* name is no more than a full cell of the chemistry the charger was given, and
\* below it when the task is to store or to discharge.  Current and cells are
\* in range when the command line started it without --force; the window has
\* no such check, and what it starts is only as sane as what it last followed.
TaskIsSafe ==
  LET t == told["SetTask"]
      task == memory["SetTask"]
      full == VoltOf(max_cell_mv, FromCode(BatteryKinds, task[3]))
      target == FromLE(SubSeq(task, 10, 11))
  IN t.by \in {"cli", "force", "window"} =>
       /\ (~t.chosen /\ full # None) =>
            IF task[2] = 0 THEN target = full ELSE target < full
       /\ (~t.chosen /\ task[2] = 1) =>
            target > VoltOf(discharge_cell_mv, FromCode(BatteryKinds, task[3]))
       /\ t.by = "cli" => InRange(FromLE(SubSeq(task, 5, 8)), task[9])

\* The input cutoff in the charger is the one the command line accepted and
\* printed ("Limits set to {volt} V cutoff"); the code breaks this from 66 V on,
\* where the millivolts no longer fit the u16.
CutoffAsTold ==
  told["SetLimitParameters"] # NothingTold =>
    FromLE(SubSeq(memory["SetLimitParameters"], 1, 2))
      = told["SetLimitParameters"].volt * 1000
=============================================================================
